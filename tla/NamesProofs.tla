---------------------------- MODULE NamesProofs ----------------------------
(***************************************************************************)
(* What a name leads to, for every tree, table of mounts and path:         *)
(*  - VfsNames: what is created is found by its path, the cap on chains of *)
(*    mounts cuts none short, no slot of the table is wasted, and a        *)
(*    covered directory is not written;                                    *)
(*  - Devfs, the directory a mount shows under /dev, for any number of     *)
(*    tasks, drivers and places: the lazy pool, filled with no lock, never *)
(*    shows an inode half done, and the registry under it never gives a    *)
(*    name or a pair of numbers twice;                                     *)
(*  - Shell, the commands ls and cat run by any number of tasks at once    *)
(*    over /dev and /proc, while drivers register and tasks are created:   *)
(*    an ls shows all there was, and a cat prints what was in one thing.   *)
(*    What lies around the commands only grows (Grows), so a command that  *)
(*    fits it fits what it becomes (CallKept), and each step of its own    *)
(*    leaves it where it fits.                                             *)
(* What a recursive function computes is first shown to be a chain of      *)
(* steps (ChainExists); what holds along the chain follows by counting.    *)
(***************************************************************************)
EXTENDS VfsNames, Shell, FiniteSetTheorems, SequenceTheorems, WellFoundedInduction, TLAPS

(* Induction, over numbers up to N, with a set for the formula.              *)
LEMMA Least ==
  ASSUME NEW S, S \subseteq Nat, S # {}
  PROVE  \E m \in S : \A k \in S : m <= k
  <1>1. IsWellFoundedOn(OpToRel(<, Nat), Nat)
    BY NatLessThanWellFounded
  <1>2. PICK m \in S : \A k \in S : ~(<<k, m>> \in OpToRel(<, Nat))
    BY <1>1, WFMin
  <1>3. \A k \in S : ~(k < m)
    BY <1>2 DEF OpToRel
  <1> QED
    BY <1>3

LEMMA Counting ==
  ASSUME NEW N \in Nat, NEW S, 0 \in S, \A n \in 1 .. N : n - 1 \in S => n \in S
  PROVE  \A n \in 0 .. N : n \in S
  <1> DEFINE B == {n \in 0 .. N : n \notin S}
  <1>1. SUFFICES ASSUME B # {} PROVE FALSE
    OBVIOUS
  <1>2. B \subseteq Nat
    OBVIOUS
  <1>3. PICK m \in B : \A k \in B : m <= k
    BY <1>1, <1>2, Least
  <1>4. m \in 1 .. N /\ m - 1 \in 0 .. N /\ m \notin S
    OBVIOUS
  <1>5. m - 1 \notin B
    BY <1>3, <1>4
  <1> QED
    BY <1>4, <1>5

(* A chain of N links from x: link n takes what the one before left.         *)
Links(f, N, x, G) == f[0] = x /\ \A n \in 1 .. N : f[n] = G[n][f[n - 1]]

LEMMA ChainExists ==
  ASSUME NEW A, NEW N \in Nat, NEW x \in A, NEW G \in [1 .. N -> [A -> A]]
  PROVE  \E f \in [0 .. N -> A] : Links(f, N, x, G)
  <1> DEFINE S == {k \in 0 .. N : \E f \in [0 .. k -> A] : Links(f, k, x, G)}
  <1>1. 0 \in S
    <2>1. [n \in 0 .. 0 |-> x] \in [0 .. 0 -> A] /\ Links([n \in 0 .. 0 |-> x], 0, x, G)
      BY DEF Links
    <2> QED
      BY <2>1
  <1>2. ASSUME NEW k \in 1 .. N, k - 1 \in S PROVE k \in S
    <2>1. PICK f \in [0 .. k - 1 -> A] : Links(f, k - 1, x, G)
      BY <1>2
    <2>2. PICK g : g = [n \in 0 .. k |-> IF n = k THEN G[k][f[k - 1]] ELSE f[n]]
      OBVIOUS
    <2>3. k \in Nat /\ k - 1 \in 0 .. k - 1 /\ k \in 0 .. N
      OBVIOUS
    <2>4. f[k - 1] \in A /\ G[k] \in [A -> A]
      BY <2>3
    <2>5. g \in [0 .. k -> A]
      <3>1. ASSUME NEW n \in 0 .. k, n # k PROVE n \in 0 .. k - 1
        BY <2>3, <3>1
      <3> QED
        BY <2>2, <2>4, <3>1
    <2>6. g[0] = x
      BY <2>1, <2>2, <2>3 DEF Links
    <2>7. ASSUME NEW n \in 1 .. k PROVE g[n] = G[n][g[n - 1]]
      <3>1. CASE n = k
        BY <2>2, <2>3, <3>1
      <3>2. CASE n # k
        <4>1. n \in 1 .. k - 1 /\ n \in 0 .. k /\ n - 1 \in 0 .. k /\ n - 1 # k
          BY <2>3, <3>2
        <4>2. f[n] = G[n][f[n - 1]]
          BY <2>1, <4>1 DEF Links
        <4>3. g[n] = f[n] /\ g[n - 1] = f[n - 1]
          BY <2>2, <3>2, <4>1
        <4> QED
          BY <4>2, <4>3
      <3> QED
        BY <3>1, <3>2
    <2>8. Links(g, k, x, G)
      BY <2>6, <2>7 DEF Links
    <2> QED
      BY <2>3, <2>5, <2>8
  <1>3. N \in S
    <2> HIDE DEF S
    <2>1. \A n \in 0 .. N : n \in S
      BY <1>1, <1>2, Counting
    <2> QED
      BY <2>1
  <1> QED
    BY <1>3

-----------------------------------------------------------------------------
(* What the recursive functions of VfsNames compute.                         *)
Found == Inodes \union {NoInode}
Puntos == {mountpoints[m].punto : m \in Used}
Tokens == Names \union {Slash}

Turns(f, i) == f[0] = i /\ \A n \in 1 .. MAX_MOUNTS : f[n] = Hop(f[n - 1])

Passes(w, x, p) ==
  w[0] = x /\ \A n \in 1 .. Len(p) : w[n] = IF p[n] = Slash THEN w[n - 1] ELSE Step(w[n - 1], p[n])

TurnsTaken ==
  \A i \in Found : \E f \in [0 .. MAX_MOUNTS -> Found] :
    Turns(f, i) /\ Substitute(i) = f[MAX_MOUNTS]

PathsWalked ==
  \A x \in Found, p \in Seq(Tokens) : \E w \in [0 .. Len(p) -> Found] :
    Passes(w, x, p) /\ Walk(x, p) = w[Len(p)]

(* One turn: an inode with nothing over it stays, any other becomes a root.  *)
HopTaken ==
  \A i : \/ i \notin Puntos /\ Hop(i) = i
         \/ \E m \in Used : mountpoints[m].punto = i /\ Hop(i) = mountpoints[m].root /\ Hop(i) \in Roots

LEMMA HopIs == TypeOK => HopTaken
  <1> SUFFICES ASSUME TypeOK, NEW i
               PROVE  \/ i \notin Puntos /\ Hop(i) = i
                      \/ \E m \in Used : /\ mountpoints[m].punto = i
                                         /\ Hop(i) = mountpoints[m].root /\ Hop(i) \in Roots
    BY DEF HopTaken
  <1> DEFINE over == {m \in Used : mountpoints[m].punto = i}
  <1>1. CASE over = {}
    BY <1>1 DEF Hop, Puntos
  <1>2. CASE over # {}
    <2>1. over \subseteq Nat
      BY DEF Used, MountSlots
    <2>2. PICK m \in over : \A k \in over : m <= k
      BY <1>2, <2>1, Least
    <2>3. (CHOOSE m1 \in over : \A k \in over : m1 <= k) \in over
      BY <2>2
    <2>4. Hop(i) = mountpoints[CHOOSE m1 \in over : \A k \in over : m1 <= k].root
      BY <1>2, Zenon DEF Hop
    <2>5. \A m1 \in Used : mountpoints[m1].root \in Roots
      BY DEF TypeOK, Used
    <2> QED
      BY <2>3, <2>4, <2>5, Zenon
  <1> QED
    BY <1>1, <1>2

LEMMA HopType == TypeOK => \A i \in Found : Hop(i) \in Found
  BY HopIs, TreeAssumption DEF HopTaken, Found

LEMMA SubstituteIs == TypeOK => TurnsTaken
  <1> SUFFICES ASSUME TypeOK, NEW i \in Found
               PROVE  \E f \in [0 .. MAX_MOUNTS -> Found] :
                        Turns(f, i) /\ Substitute(i) = f[MAX_MOUNTS]
    BY DEF TurnsTaken
  <1> DEFINE Is(f) == f = [n \in 0 .. MAX_MOUNTS |-> IF n = 0 THEN i ELSE Hop(f[n - 1])]
             at == CHOOSE f : Is(f)
             H == [a \in Found |-> Hop(a)]
  <1>1. MAX_MOUNTS \in Nat
    BY TreeAssumption
  <1>2. H \in [Found -> Found] /\ \A a \in Found : H[a] = Hop(a)
    BY HopType
  <1> HIDE DEF H
  <1>3. PICK f \in [0 .. MAX_MOUNTS -> Found] : Links(f, MAX_MOUNTS, i, [n \in 1 .. MAX_MOUNTS |-> H])
    BY <1>1, <1>2, ChainExists
  <1>4. \A n \in 1 .. MAX_MOUNTS : n - 1 \in 0 .. MAX_MOUNTS /\ n \in 0 .. MAX_MOUNTS
    BY <1>1
  <1>5. Turns(f, i)
    BY <1>2, <1>3, <1>4 DEF Turns, Links
  <1>6. Is(f)
    <2>1. ASSUME NEW n \in 0 .. MAX_MOUNTS PROVE f[n] = IF n = 0 THEN i ELSE Hop(f[n - 1])
      <3>1. n # 0 => n \in 1 .. MAX_MOUNTS
        BY <1>1
      <3> QED
        BY <1>5, <3>1 DEF Turns
    <2> QED
      BY <2>1
  <1>7. Is(at)
    BY <1>6
  <1>8. Substitute(i) = at[MAX_MOUNTS]
    BY DEF Substitute
  <1>9. ASSUME NEW n \in 0 .. MAX_MOUNTS PROVE at[n] = IF n = 0 THEN i ELSE Hop(at[n - 1])
    <2> HIDE DEF at
    <2> QED
      BY <1>7
  <1> HIDE DEF at, Is
  <1>10. \A n \in 0 .. MAX_MOUNTS : at[n] = f[n]
    <2> DEFINE S == {n \in 0 .. MAX_MOUNTS : at[n] = f[n]}
    <2>1. 0 \in S
      BY <1>1, <1>5, <1>9 DEF Turns
    <2>2. ASSUME NEW n \in 1 .. MAX_MOUNTS, n - 1 \in S PROVE n \in S
      BY <1>4, <1>5, <1>9, <2>2 DEF Turns
    <2> HIDE DEF S
    <2>3. \A n \in 0 .. MAX_MOUNTS : n \in S
      BY <1>1, <2>1, <2>2, Counting
    <2> QED
      BY <2>3 DEF S
  <1>11. Substitute(i) = f[MAX_MOUNTS]
    BY <1>1, <1>8, <1>10
  <1> QED
    BY <1>5, <1>11

LEMMA StepType == TypeOK => \A a \in Found, name \in Names : Step(a, name) \in Found
  <1> SUFFICES ASSUME TypeOK, NEW a \in Found, NEW name \in Names PROVE Step(a, name) \in Found
    OBVIOUS
  <1>1. \A i \in Found : Substitute(i) \in Found
    <2> SUFFICES ASSUME NEW i \in Found PROVE Substitute(i) \in Found
      OBVIOUS
    <2>1. PICK f \in [0 .. MAX_MOUNTS -> Found] : Substitute(i) = f[MAX_MOUNTS]
      BY SubstituteIs DEF TurnsTaken
    <2> QED
      BY <2>1, TreeAssumption
  <1>2. Lookup(a, name) \in Found
    BY DEF Lookup, TypeOK, Found
  <1>3. NoInode \in Found
    BY DEF Found
  <1> QED
    BY <1>1, <1>2, <1>3 DEF Step

LEMMA WalkIs == TypeOK => PathsWalked
  <1> SUFFICES ASSUME TypeOK, NEW x \in Found, NEW p \in Seq(Tokens)
               PROVE  \E w \in [0 .. Len(p) -> Found] : Passes(w, x, p) /\ Walk(x, p) = w[Len(p)]
    BY DEF PathsWalked
  <1> DEFINE N == Len(p)
             Is(w) == w = [n \in 0 .. N |-> IF n = 0 THEN x
                                            ELSE IF p[n] = Slash THEN w[n - 1] ELSE Step(w[n - 1], p[n])]
             at == CHOOSE w : Is(w)
             G == [n \in 1 .. N |-> [a \in Found |-> IF p[n] = Slash THEN a ELSE Step(a, p[n])]]
  <1>1. N \in Nat /\ \A n \in 1 .. N : p[n] \in Tokens
    OBVIOUS
  <1>2. G \in [1 .. N -> [Found -> Found]]
    <2>1. ASSUME NEW n \in 1 .. N, NEW a \in Found, p[n] # Slash PROVE Step(a, p[n]) \in Found
      BY <1>1, <2>1, StepType DEF Tokens
    <2> QED
      BY <2>1
  <1>3. \A n \in 1 .. N, a \in Found : G[n][a] = IF p[n] = Slash THEN a ELSE Step(a, p[n])
    OBVIOUS
  <1> HIDE DEF G
  <1>4. PICK w \in [0 .. N -> Found] : Links(w, N, x, G)
    BY <1>1, <1>2, ChainExists
  <1>5. \A n \in 1 .. N : n - 1 \in 0 .. N /\ n \in 0 .. N /\ n # 0
    BY <1>1
  <1>6. w[0] = x /\ \A n \in 1 .. N : w[n] = IF p[n] = Slash THEN w[n - 1] ELSE Step(w[n - 1], p[n])
    BY <1>3, <1>4, <1>5 DEF Links
  <1>7. Is(w)
    <2>1. ASSUME NEW n \in 0 .. N
          PROVE  w[n] = IF n = 0 THEN x ELSE IF p[n] = Slash THEN w[n - 1] ELSE Step(w[n - 1], p[n])
      <3>1. n # 0 => n \in 1 .. N
        BY <1>1
      <3> QED
        BY <1>6, <3>1
    <2> QED
      BY <2>1
  <1>8. Is(at)
    BY <1>7
  <1>9. Walk(x, p) = at[N]
    BY DEF Walk
  <1>10. ASSUME NEW n \in 0 .. N
         PROVE  at[n] = IF n = 0 THEN x ELSE IF p[n] = Slash THEN at[n - 1] ELSE Step(at[n - 1], p[n])
    <2> HIDE DEF at
    <2> QED
      BY <1>8
  <1> HIDE DEF at, Is
  <1>11. \A n \in 0 .. N : at[n] = w[n]
    <2> DEFINE S == {n \in 0 .. N : at[n] = w[n]}
    <2>1. 0 \in S
      BY <1>1, <1>6, <1>10
    <2>2. ASSUME NEW n \in 1 .. N, n - 1 \in S PROVE n \in S
      BY <1>5, <1>6, <1>10, <2>2
    <2> HIDE DEF S
    <2>3. \A n \in 0 .. N : n \in S
      BY <1>1, <2>1, <2>2, Counting
    <2> QED
      BY <2>3 DEF S
  <1>12. Walk(x, p) = w[N]
    BY <1>1, <1>9, <1>11
  <1> QED
    BY <1>6, <1>12 DEF Passes

(* All turns together leave an inode that nothing covers where it is, and    *)
(* any other either at the root of a mount or where no mount is.             *)
TurnsEnd ==
  \A f, i : Turns(f, i) => \A n \in 0 .. MAX_MOUNTS : f[n] \notin Puntos => f[MAX_MOUNTS] = f[n]

LEMMA TurnsStay == TypeOK => TurnsEnd
  <1> SUFFICES ASSUME TypeOK, NEW f, NEW i, Turns(f, i), NEW n \in 0 .. MAX_MOUNTS, f[n] \notin Puntos
               PROVE  f[MAX_MOUNTS] = f[n]
    BY DEF TurnsEnd
  <1> DEFINE N == MAX_MOUNTS - n
             S == {k \in 0 .. N : f[n + k] = f[n]}
  <1>1. MAX_MOUNTS \in Nat /\ n \in Nat /\ N \in Nat /\ n + 0 = n /\ n + N = MAX_MOUNTS
    BY TreeAssumption
  <1>2. 0 \in S
    BY <1>1
  <1>3. ASSUME NEW k \in 1 .. N, k - 1 \in S PROVE k \in S
    <2>1. n + k \in 1 .. MAX_MOUNTS /\ (n + k) - 1 = n + (k - 1) /\ k \in 0 .. N
      BY <1>1
    <2>2. f[n + k] = Hop(f[n])
      BY <1>3, <2>1 DEF Turns
    <2>3. Hop(f[n]) = f[n]
      BY HopIs DEF HopTaken, Puntos
    <2> QED
      BY <2>1, <2>2, <2>3
  <1> HIDE DEF S
  <1>4. N \in S
    <2>1. \A k \in 0 .. N : k \in S
      BY <1>1, <1>2, <1>3, Counting
    <2> QED
      BY <1>1, <2>1
  <1> QED
    BY <1>1, <1>4 DEF S

LEMMA SubstituteUncovered ==
  ASSUME TypeOK, NEW i \in Found, i \notin Puntos
  PROVE  Substitute(i) = i
  <1>1. PICK f \in [0 .. MAX_MOUNTS -> Found] : Turns(f, i) /\ Substitute(i) = f[MAX_MOUNTS]
    BY SubstituteIs DEF TurnsTaken
  <1>2. 0 \in 0 .. MAX_MOUNTS /\ f[0] = i
    BY <1>1, TreeAssumption DEF Turns
  <1>3. f[MAX_MOUNTS] = f[0]
    BY <1>1, <1>2, TurnsStay DEF TurnsEnd
  <1> QED
    BY <1>1, <1>2, <1>3

LEMMA SubstituteOnDisk ==
  ASSUME TypeOK, NEW i \in Found, Substitute(i) \in Disk
  PROVE  Substitute(i) \notin Puntos
  <1>1. PICK f \in [0 .. MAX_MOUNTS -> Found] : Turns(f, i) /\ Substitute(i) = f[MAX_MOUNTS]
    BY SubstituteIs DEF TurnsTaken
  <1>2. MAX_MOUNTS \in Nat /\ MAX_MOUNTS \in 1 .. MAX_MOUNTS /\ MAX_MOUNTS - 1 \in 0 .. MAX_MOUNTS
    BY TreeAssumption
  <1>3. f[MAX_MOUNTS] = Hop(f[MAX_MOUNTS - 1])
    BY <1>1, <1>2 DEF Turns
  <1>4. f[MAX_MOUNTS] \notin Roots
    BY <1>1, TreeAssumption
  <1>5. f[MAX_MOUNTS - 1] \notin Puntos /\ Hop(f[MAX_MOUNTS - 1]) = f[MAX_MOUNTS - 1]
    BY <1>3, <1>4, HopIs DEF HopTaken, Puntos
  <1> QED
    BY <1>1, <1>3, <1>5

LEMMA TwoAlike ==
  ASSUME NEW N \in Nat, NEW T, IsFiniteSet(T), Cardinality(T) = N, NEW s \in [0 .. N -> T]
  PROVE  \E a, b \in 0 .. N : a < b /\ s[a] = s[b]
  <1> DEFINE D == 0 .. N
  <1>1. IsFiniteSet(D) /\ Cardinality(D) = N + 1
    BY FS_Interval
  <1>2. Cardinality(T) < Cardinality(D)
    BY <1>1
  <1>3. s \in [D -> T]
    OBVIOUS
  <1> HIDE DEF D
  <1>4. \E x, y \in D : x # y /\ s[x] = s[y]
    <2>1. IsFiniteSet(D)
      BY <1>1
    <2> QED
      BY <1>2, <1>3, <2>1, FS_PigeonHole, ZenonT(30)
  <1>5. PICK x \in D, y \in D : x # y /\ s[x] = s[y]
    BY <1>4
  <1>6. x < y \/ y < x
    BY <1>5 DEF D
  <1> QED
    BY <1>5, <1>6 DEF D

(* The cap.  A chain still on a mount after MAX_MOUNTS turns has used one    *)
(* slot twice, and the slots between lead only to one another.               *)
LEMMA CapHolds == TypeOK => CapIsEnough
  <1> SUFFICES ASSUME TypeOK, NEW i \in Inodes, Substitute(i) \in Puntos PROVE ~Acyclic
    BY DEF CapIsEnough, Puntos
  <1>1. PICK f \in [0 .. MAX_MOUNTS -> Found] : Turns(f, i) /\ Substitute(i) = f[MAX_MOUNTS]
    BY SubstituteIs DEF TurnsTaken, Found
  <1>2. MAX_MOUNTS \in Nat /\ MAX_MOUNTS > 0
    BY TreeAssumption
  <1>3. ASSUME NEW n \in 0 .. MAX_MOUNTS
        PROVE  \E m \in Used : mountpoints[m].punto = f[n] /\ Hop(f[n]) = mountpoints[m].root
    <2>1. f[n] \in Puntos
      BY <1>1, TurnsStay DEF TurnsEnd
    <2> QED
      BY <2>1, HopIs DEF HopTaken, Puntos
  <1> DEFINE s == [n \in 0 .. MAX_MOUNTS |->
                     CHOOSE m \in Used : mountpoints[m].punto = f[n] /\ Hop(f[n]) = mountpoints[m].root]
  <1>4. \A n \in 0 .. MAX_MOUNTS :
           s[n] \in Used /\ mountpoints[s[n]].punto = f[n] /\ mountpoints[s[n]].root = Hop(f[n])
    BY <1>3
  <1>10. s = [n \in 0 .. MAX_MOUNTS |-> s[n]]
    OBVIOUS
  <1> HIDE DEF s
  <1>5. PICK a \in 0 .. MAX_MOUNTS, b \in 0 .. MAX_MOUNTS : a < b /\ s[a] = s[b]
    <2>2. IsFiniteSet(MountSlots) /\ Cardinality(MountSlots) = MAX_MOUNTS
      BY <1>2, FS_Interval DEF MountSlots
    <2>3. s \in [0 .. MAX_MOUNTS -> MountSlots]
      BY <1>4, <1>10 DEF Used
    <2> QED
      BY <1>2, <2>2, <2>3, TwoAlike
  <1> DEFINE S == {s[n] : n \in a .. b - 1}
  <1>6. a \in a .. b - 1 /\ \A n \in a .. b - 1 : n \in 0 .. MAX_MOUNTS /\ n + 1 \in 1 .. MAX_MOUNTS
    BY <1>2, <1>5
  <1>7. S \in SUBSET Used /\ S # {}
    BY <1>4, <1>6
  <1>8. ASSUME NEW n \in a .. b - 1
        PROVE  \E k \in S : mountpoints[k].punto = mountpoints[s[n]].root
    <2>1. mountpoints[s[n]].root = f[n + 1]
      <3>1. n + 1 \in 1 .. MAX_MOUNTS /\ (n + 1) - 1 = n
        BY <1>6
      <3>2. f[n + 1] = Hop(f[n])
        BY <1>1, <3>1 DEF Turns
      <3> QED
        BY <1>4, <1>6, <3>2
    <2>2. n + 1 \in 0 .. MAX_MOUNTS
      BY <1>6, <1>2
    <2>3. mountpoints[s[n + 1]].punto = f[n + 1]
      BY <1>4, <2>2
    <2>4. s[n + 1] \in S
      <3>1. CASE n + 1 = b
        BY <1>5, <1>6, <3>1
      <3>2. CASE n + 1 # b
        <4>1. n + 1 \in a .. b - 1
          BY <1>5, <3>2
        <4> QED
          BY <4>1
      <3> QED
        BY <3>1, <3>2
    <2> QED
      BY <2>1, <2>3, <2>4
  <1>9. ~ \E m \in S : \A k \in S : mountpoints[k].punto # mountpoints[m].root
    BY <1>8
  <1> QED
    BY <1>7, <1>9 DEF Acyclic

(* What a path resolves to has every mount on it applied.                    *)
LEMMA Lands ==
  ASSUME TypeOK, NEW p \in Seq(Tokens), Resolve(p) # NoInode
  PROVE  \E i \in Inodes : Resolve(p) = Substitute(i)
  <1>1. Root \in Inodes /\ Root \in Found
    BY TreeAssumption DEF Found
  <1>2. Substitute(Root) \in Found
    <2>1. PICK f \in [0 .. MAX_MOUNTS -> Found] : Substitute(Root) = f[MAX_MOUNTS]
      BY <1>1, SubstituteIs DEF TurnsTaken
    <2> QED
      BY <2>1, TreeAssumption
  <1>3. PICK w \in [0 .. Len(p) -> Found] :
          Passes(w, Substitute(Root), p) /\ Walk(Substitute(Root), p) = w[Len(p)]
    BY <1>2, WalkIs DEF PathsWalked
  <1> DEFINE S == {n \in 0 .. Len(p) : w[n] = NoInode \/ \E i \in Inodes : w[n] = Substitute(i)}
  <1>4. Len(p) \in Nat
    OBVIOUS
  <1>5. 0 \in S
    BY <1>1, <1>3, <1>4 DEF Passes
  <1>6. ASSUME NEW n \in 1 .. Len(p), n - 1 \in S PROVE n \in S
    <2>1. n \in 0 .. Len(p) /\ n - 1 \in 0 .. Len(p) /\ p[n] \in Tokens
      BY <1>4
    <2>2. CASE p[n] = Slash
      BY <1>3, <1>6, <2>1, <2>2 DEF Passes
    <2>3. CASE p[n] # Slash
      <3>1. w[n] = Step(w[n - 1], p[n])
        BY <1>3, <2>3 DEF Passes
      <3>2. w[n - 1] \in Found /\ p[n] \in Names
        BY <2>1, <2>3 DEF Tokens
      <3>3. Lookup(w[n - 1], p[n]) \in Found
        BY <3>2 DEF Lookup, TypeOK, Found
      <3> QED
        BY <2>1, <3>1, <3>3 DEF Step, Found
    <2> QED
      BY <2>2, <2>3
  <1> HIDE DEF S
  <1>7. Len(p) \in S
    <2>1. \A n \in 0 .. Len(p) : n \in S
      BY <1>4, <1>5, <1>6, Counting
    <2> QED
      BY <1>4, <2>1
  <1> QED
    BY <1>3, <1>7 DEF S, Resolve

(* Where spezza_path cuts: before the last token, behind a slash.            *)
LEMMA Cut ==
  ASSUME NEW p \in Paths, Splits(p)
  PROVE  /\ p \in Seq(Tokens) /\ Len(p) \in Nat /\ Len(p) >= 2
         /\ p[Len(p)] \in Names /\ p[Len(p) - 1] = Slash
         /\ LastSlash(p) = Len(p) - 1
  <1>1. p \in Seq(Tokens) /\ \A i \in 1 .. Len(p) - 1 : Slash \in {p[i], p[i + 1]}
    BY PathsAssumption DEF Tokens
  <1> DEFINE N == Len(p)
             S == {0} \cup {n \in DOMAIN p : p[n] = Slash}
  <1>2. N \in Nat /\ N > 0 /\ p[1] = Slash /\ DOMAIN p = 1 .. N
    BY <1>1 DEF Splits, Absolute
  <1>3. S \subseteq 0 .. N
    BY <1>2
  <1>4. LastSlash(p) = CHOOSE x \in S : \A y \in S : x >= y
    BY Zenon DEF LastSlash, Max
  <1>5. N \notin S
    <2>1. SUFFICES ASSUME N \in S PROVE FALSE
      OBVIOUS
    <2>2. \A y \in S : N >= y
      BY <1>2, <1>3
    <2>3. LastSlash(p) \in S /\ LastSlash(p) >= N
      BY <1>4, <2>1, <2>2
    <2> QED
      BY <1>2, <1>3, <2>3 DEF Splits
  <1>6. p[N] # Slash /\ p[N] \in Names
    BY <1>1, <1>2, <1>5 DEF Tokens
  <1>7. N >= 2
    BY <1>2, <1>6
  <1>8. p[N - 1] = Slash
    <2>1. N - 1 \in 1 .. N - 1 /\ (N - 1) + 1 = N
      BY <1>2, <1>7
    <2>2. Slash \in {p[N - 1], p[N]}
      BY <1>1, <2>1
    <2> QED
      BY <1>6, <2>2
  <1>9. N - 1 \in S /\ \A y \in S : N - 1 >= y
    BY <1>2, <1>3, <1>5, <1>7, <1>8
  <1>10. LastSlash(p) \in S /\ LastSlash(p) >= N - 1
    BY <1>4, <1>9
  <1>11. LastSlash(p) = N - 1
    BY <1>2, <1>3, <1>9, <1>10
  <1> QED
    BY <1>1, <1>2, <1>6, <1>7, <1>8, <1>11

(* The walk of the beginning of a path is the beginning of the walk.         *)
LEMMA PrefixIs ==
  ASSUME TypeOK, NEW p \in Seq(Tokens), NEW x \in Found, NEW w, Passes(w, x, p),
         NEW q \in Seq(Tokens), Len(q) <= Len(p), \A n \in 1 .. Len(q) : q[n] = p[n]
  PROVE  Walk(x, q) = w[Len(q)]
  <1>1. Len(q) \in Nat /\ Len(p) \in Nat
    OBVIOUS
  <1>2. PICK v \in [0 .. Len(q) -> Found] : Passes(v, x, q) /\ Walk(x, q) = v[Len(q)]
    BY WalkIs DEF PathsWalked
  <1> DEFINE S == {n \in 0 .. Len(q) : v[n] = w[n]}
  <1>3. 0 \in S
    BY <1>1, <1>2 DEF Passes
  <1>4. ASSUME NEW n \in 1 .. Len(q), n - 1 \in S PROVE n \in S
    <2>1. n \in 1 .. Len(p) /\ n \in 0 .. Len(q) /\ q[n] = p[n]
      BY <1>1
    <2> QED
      BY <1>2, <1>4, <2>1 DEF Passes
  <1> HIDE DEF S
  <1>5. Len(q) \in S
    <2>1. \A n \in 0 .. Len(q) : n \in S
      BY <1>1, <1>3, <1>4, Counting
    <2> QED
      BY <1>1, <2>1
  <1> QED
    BY <1>2, <1>5 DEF S

(* Along the path to the parent the walk of the whole path is the same.      *)
LEMMA ParentIsOnTheWay ==
  ASSUME TypeOK, NEW p \in Paths, Splits(p), NEW x \in Found, NEW w, Passes(w, x, p)
  PROVE  Walk(x, Parent(p)) = w[Len(p) - 1]
  <1> DEFINE N == Len(p)
             q == Parent(p)
  <1>1. /\ p \in Seq(Tokens) /\ N \in Nat /\ N >= 2 /\ p[N - 1] = Slash /\ LastSlash(p) = N - 1
        /\ p[1] = Slash
    BY Cut DEF Splits, Absolute
  <1>2. w[N - 1] = w[N - 2]
    <2>1. N - 1 \in 1 .. N /\ (N - 1) - 1 = N - 2
      BY <1>1
    <2> QED
      BY <1>1, <2>1 DEF Passes
  <1>3. /\ q \in Seq(Tokens) /\ Len(q) \in {N - 2, N - 1}
        /\ Len(q) \in Nat /\ \A n \in 1 .. Len(q) : q[n] = p[n]
    <2>1. CASE N = 2
      <3>1. q = <<Slash>>
        BY <1>1, <2>1 DEF Parent
      <3> QED
        BY <1>1, <2>1, <3>1 DEF Tokens
    <2>2. CASE N # 2
      <3>1. q = SubSeq(p, 1, N - 2)
        <4>1. LastSlash(p) # 1 /\ (N - 1) - 1 = N - 2
          BY <1>1, <2>2
        <4> QED
          BY <1>1, <4>1 DEF Parent
      <3>2. N - 2 \in Nat /\ N - 2 <= N
        BY <1>1
      <3> HIDE DEF q
      <3>3. q \in Seq(Tokens) /\ Len(q) = N - 2 /\ \A n \in 1 .. N - 2 : q[n] = p[n]
        <4>1. 1 \in 1 .. N + 1 /\ N - 2 \in 1 - 1 .. N /\ \A n \in 1 .. N - 2 : n \in 1 .. N
          BY <1>1, <3>2
        <4>2. q \in Seq(Tokens) /\ Len(q) = IF 1 <= N - 2 THEN (N - 2) - 1 + 1 ELSE 0
          BY <1>1, <3>1, <4>1, SubSeqProperties
        <4>3. \A n \in 1 .. (N - 2) - 1 + 1 : q[n] = p[1 + n - 1]
          BY <1>1, <3>1, <4>1, SubSeqProperties
        <4>4. (N - 2) - 1 + 1 = N - 2 /\ \A n \in 1 .. N - 2 : 1 + n - 1 = n
          BY <1>1
        <4>5. \A n \in 1 .. N - 2 : q[n] = p[n]
          BY <4>3, <4>4
        <4>6. Len(q) = N - 2
          <5>1. \A k \in Nat : k >= 2 /\ k # 2 => 1 <= k - 2
            OBVIOUS
          <5>2. 1 <= N - 2
            BY <1>1, <2>2, <5>1
          <5> QED
            BY <4>2, <4>4, <5>2
        <4> QED
          BY <4>2, <4>5, <4>6
      <3> QED
        BY <3>2, <3>3
    <2> QED
      BY <2>1, <2>2
  <1>4. Len(q) <= N
    BY <1>1, <1>3
  <1> HIDE DEF q
  <1>8. Walk(x, q) = w[Len(q)]
    BY <1>1, <1>3, <1>4, PrefixIs
  <1> QED
    BY <1>2, <1>3, <1>8 DEF q

-----------------------------------------------------------------------------
(* The create of the disk's filesystem.                                      *)
LEMMA CreateEffect ==
  ASSUME TypeOK, NEW dir \in Disk, NEW name \in Names, NEW type \in {"file", "dir"}, NEW i,
         FsCreate(dir, name, type, i) \/ FsCreateHalf(dir, name, type, i),
         kind[dir] = "dir"
  PROVE  /\ i \in Disk /\ kind[i] = "none" /\ i # dir
         /\ kind' \in [Inodes -> {"none", "file", "dir"}]
         /\ kind'[i] = type /\ \A a \in Inodes \ {i} : kind'[a] = kind[a]
         /\ entry' \in [Inodes -> [Names -> Inodes \cup {NoInode}]]
         /\ entry'[dir][name] = i /\ \A t \in Names \ {name} : entry'[dir][t] = entry[dir][t]
         /\ \A a \in Inodes \ {i, dir} : entry'[a] = entry[a]
  <1>1. /\ i \in Disk /\ i \in Inodes /\ dir \in Inodes /\ kind[i] = "none" /\ i # dir
        /\ Dot \in Names /\ DotDot \in Names
    BY TreeAssumption, NamesAssumption DEF FsCreate, FsCreateHalf
  <1>2. kind' = [kind EXCEPT ![i] = type]
    BY DEF FsCreate, FsCreateHalf
  <1>3. kind' \in [Inodes -> {"none", "file", "dir"}] /\ kind'[i] = type
        /\ \A a \in Inodes \ {i} : kind'[a] = kind[a]
    BY <1>1, <1>2 DEF TypeOK
  <1> DEFINE e == [entry EXCEPT ![dir][name] = i]
  <1>4. /\ e \in [Inodes -> [Names -> Inodes \cup {NoInode}]]
        /\ e[dir][name] = i /\ \A t \in Names \ {name} : e[dir][t] = entry[dir][t]
        /\ \A a \in Inodes \ {dir} : e[a] = entry[a]
    BY <1>1 DEF TypeOK
  <1>5. \E row \in [Names -> Inodes \cup {NoInode}] : entry' = [e EXCEPT ![i] = row]
    <2> HIDE DEF e
    <2>1. e[i] \in [Names -> Inodes \cup {NoInode}]
      BY <1>1, <1>4
    <2>2. entry' = e => entry' = [e EXCEPT ![i] = e[i]]
      BY <1>1, <1>4
    <2>3. \/ entry' = e
          \/ entry' = [e EXCEPT ![i] = [@ EXCEPT ![Dot] = i, ![DotDot] = dir]]
          \/ entry' = [e EXCEPT ![i][Dot] = i]
          \/ entry' = [e EXCEPT ![i][Dot] = i, ![i][DotDot] = dir]
      BY DEF FsCreate, FsCreateHalf, e
    <2>4. [e[i] EXCEPT ![Dot] = i] \in [Names -> Inodes \cup {NoInode}]
      BY <1>1, <2>1
    <2>5. [e[i] EXCEPT ![Dot] = i, ![DotDot] = dir] \in [Names -> Inodes \cup {NoInode}]
      BY <1>1, <2>1
    <2>6. [e EXCEPT ![i][Dot] = i, ![i][DotDot] = dir]
            = [e EXCEPT ![i] = [e[i] EXCEPT ![Dot] = i, ![DotDot] = dir]]
      BY <1>1, <1>4
    <2> QED
      BY <2>1, <2>2, <2>3, <2>4, <2>5, <2>6
  <1> HIDE DEF e
  <1>6. PICK row \in [Names -> Inodes \cup {NoInode}] : entry' = [e EXCEPT ![i] = row]
    BY <1>5
  <1>7. /\ entry' \in [Inodes -> [Names -> Inodes \cup {NoInode}]]
        /\ \A a \in Inodes \ {i} : entry'[a] = e[a]
    BY <1>1, <1>4, <1>6
  <1> QED
    BY <1>1, <1>3, <1>4, <1>7

(* A create writes one entry where there was none, in a directory, and fills *)
(* an inode nobody had.                                                      *)
Creates(dir, name, i) ==
  /\ i \in Disk /\ kind[i] = "none" /\ i # dir /\ kind[dir] = "dir"
  /\ entry[dir][name] = NoInode
  /\ \A a \in Inodes \ {i} : kind'[a] = kind[a]
  /\ entry'[dir][name] = i /\ \A t \in Names \ {name} : entry'[dir][t] = entry[dir][t]
  /\ \A a \in Inodes \ {i, dir} : entry'[a] = entry[a]

LEMMA SubstituteKeeps ==
  ASSUME UNCHANGED mountpoints, NEW i
  PROVE  Substitute(i)' = Substitute(i)
  BY DEF Substitute, Hop, Used, MountSlots

LEMMA StepKeeps ==
  ASSUME TypeOK, NEW dir \in Disk, NEW name \in Names, NEW i, Creates(dir, name, i), UNCHANGED mountpoints,
         NEW a \in Inodes, NEW t \in Names, Step(a, t) # NoInode
  PROVE  Step(a, t)' = Step(a, t)
  <1>1. PICK next : next = Lookup(a, t)
    OBVIOUS
  <1>2. ~(NameLen[t] > VFS_NAME_MAX) /\ next # NoInode /\ Step(a, t) = Substitute(next)
    BY <1>1 DEF Step
  <1>3. a # NoInode /\ kind[a] = "dir" /\ next = entry[a][t]
    BY <1>1, <1>2 DEF Lookup
  <1>4. a # i /\ ~(a = dir /\ t = name)
    BY <1>2, <1>3 DEF Creates
  <1>5. kind'[a] = "dir" /\ entry'[a][t] = next
    BY <1>3, <1>4 DEF Creates
  <1>6. Lookup(a, t)' = next
    BY <1>3, <1>5 DEF Lookup
  <1>7. Substitute(next)' = Substitute(next)
    BY SubstituteKeeps
  <1>8. Step(a, t)' = Substitute(next)'
    BY <1>2, <1>6 DEF Step
  <1> QED
    BY <1>2, <1>7, <1>8

ResolvesByWalk ==
  \A p, x : x = Substitute(Root) => Resolve(p) = IF Absolute(p) THEN Walk(x, p) ELSE NoInode

LEMMA ResolveIs == ResolvesByWalk
  BY DEF ResolvesByWalk, Resolve

(* A walk that is nowhere stays nowhere.                                     *)
LEMMA NowhereStays ==
  ASSUME NEW x, NEW p \in Seq(Tokens), NEW w, Passes(w, x, p), NEW last0 \in 0 .. Len(p),
         w[last0] # NoInode, NEW n \in 0 .. last0
  PROVE  w[n] # NoInode
  <1> SUFFICES ASSUME w[n] = NoInode PROVE FALSE
    OBVIOUS
  <1> DEFINE N == last0 - n
             S == {k \in 0 .. N : w[n + k] = NoInode}
  <1>1. last0 \in Nat /\ n \in Nat /\ N \in Nat /\ n + 0 = n /\ n + N = last0 /\ Len(p) \in Nat
    OBVIOUS
  <1>2. 0 \in S
    BY <1>1
  <1>3. ASSUME NEW k \in 1 .. N, k - 1 \in S PROVE k \in S
    <2>1. n + k \in 1 .. Len(p) /\ (n + k) - 1 = n + (k - 1) /\ k \in 0 .. N
      BY <1>1
    <2>2. w[n + k] = IF p[n + k] = Slash THEN NoInode ELSE Step(NoInode, p[n + k])
      BY <1>3, <2>1 DEF Passes
    <2>3. Step(NoInode, p[n + k]) = NoInode
      BY DEF Step, Lookup
    <2> QED
      BY <2>1, <2>2, <2>3
  <1> HIDE DEF S
  <1>4. N \in S
    <2>1. \A k \in 0 .. N : k \in S
      BY <1>1, <1>2, <1>3, Counting
    <2> QED
      BY <1>1, <2>1
  <1> QED
    BY <1>1, <1>4 DEF S

Covers == \A m \in Used : kind[mountpoints[m].punto] = "dir"

(* What a create puts in the parent is found by the path it was given.       *)
LEMMA CreatedResolves ==
  ASSUME TypeOK, TypeOK', Covers, UNCHANGED mountpoints,
         NEW p \in Paths, Splits(p), NEW dir \in Disk, dir = Resolve(Parent(p)),
         NEW i, Creates(dir, p[Len(p)], i), kind'[dir] = "dir"
  PROVE  Resolve(p)' = i
  <1> DEFINE N == Len(p)
  <1>1. /\ p \in Seq(Tokens) /\ N \in Nat /\ N >= 2 /\ p[N] \in Names /\ p[N - 1] = Slash
        /\ N \in 1 .. N /\ N - 1 \in 0 .. N
    BY Cut
  <1>2. dir \in Inodes /\ dir # NoInode /\ i \in Inodes /\ i # NoInode /\ Root \in Found
    BY TreeAssumption DEF Creates, Found
  <1>3. PICK x : x = Substitute(Root)
    OBVIOUS
  <1>4. x \in Found
    <2>1. PICK f \in [0 .. MAX_MOUNTS -> Found] : Substitute(Root) = f[MAX_MOUNTS]
      BY <1>2, SubstituteIs DEF TurnsTaken
    <2> QED
      BY <1>3, <2>1, TreeAssumption
  <1>5. PICK w \in [0 .. N -> Found] : Passes(w, x, p)
    BY <1>1, <1>4, WalkIs DEF PathsWalked
  <1>6. w[N - 1] = dir
    <2>1. Walk(x, Parent(p)) = w[N - 1]
      BY <1>4, <1>5, ParentIsOnTheWay
    <2>2. Resolve(Parent(p)) = IF Absolute(Parent(p)) THEN Walk(x, Parent(p)) ELSE NoInode
      BY <1>3, ResolveIs DEF ResolvesByWalk
    <2> QED
      BY <1>2, <2>1, <2>2
  <1>7. PathsWalked'
    BY WalkIs, PTL
  <1>8. PICK v \in [0 .. N -> Found] : Passes(v, x, p)' /\ Walk(x, p)' = v[N]
    BY <1>1, <1>4, <1>7 DEF PathsWalked
  <1>9. v[N - 1] = w[N - 1]
    <2> DEFINE S == {n \in 0 .. N - 1 : v[n] = w[n]}
    <2>1. 0 \in S
      BY <1>1, <1>5, <1>8 DEF Passes
    <2>2. ASSUME NEW n \in 1 .. N - 1, n - 1 \in S PROVE n \in S
      <3>1. n \in 1 .. N /\ n \in 0 .. N - 1 /\ n - 1 \in 0 .. N - 1 /\ n - 1 \in 0 .. N /\ p[n] \in Tokens
        BY <1>1
      <3>2. v[n] = IF p[n] = Slash THEN v[n - 1] ELSE Step(v[n - 1], p[n])'
        BY <1>8, <3>1 DEF Passes
      <3>3. w[n] = IF p[n] = Slash THEN w[n - 1] ELSE Step(w[n - 1], p[n])
        BY <1>5, <3>1 DEF Passes
      <3>4. w[n] # NoInode /\ w[n - 1] # NoInode
        BY <1>1, <1>2, <1>5, <1>6, <3>1, NowhereStays
      <3>5. PICK a \in Inodes : a = w[n - 1] /\ a = v[n - 1]
        BY <2>2, <3>1, <3>4 DEF Found
      <3>6. CASE p[n] = Slash
        BY <2>2, <3>1, <3>2, <3>3, <3>6
      <3>7. CASE p[n] # Slash
        <4>1. p[n] \in Names
          BY <3>1, <3>7 DEF Tokens
        <4>2. Step(a, p[n]) # NoInode
          BY <3>3, <3>4, <3>5, <3>7
        <4>3. Step(a, p[n])' = Step(a, p[n])
          BY <1>1, <4>1, <4>2, StepKeeps
        <4> QED
          BY <3>1, <3>2, <3>3, <3>5, <3>7, <4>3
      <3> QED
        BY <3>6, <3>7
    <2> HIDE DEF S
    <2>3. N - 1 \in S
      <3>1. N - 1 \in Nat /\ N - 1 \in 0 .. N - 1
        BY <1>1
      <3>2. \A n \in 0 .. N - 1 : n \in S
        BY <2>1, <2>2, <3>1, Counting
      <3> QED
        BY <3>1, <3>2
    <2> QED
      BY <2>3 DEF S
  <1>10. v[N] = Step(dir, p[N])'
    <2>1. p[N] # Slash
      BY <1>1, NamesAssumption
    <2> QED
      BY <1>1, <1>6, <1>8, <1>9, <2>1 DEF Passes
  <1>11. Step(dir, p[N])' = Substitute(i)'
    <2>1. ~(NameLen[p[N]] > VFS_NAME_MAX)
      BY <1>1, NamesAssumption DEF Splits
    <2>2. Lookup(dir, p[N])' = i
      BY <1>2 DEF Lookup, Creates
    <2> QED
      BY <1>2, <2>1, <2>2 DEF Step
  <1>12. Substitute(i)' = i
    <2>1. i \notin Puntos
      BY DEF Creates, Covers, Puntos
    <2>2. Substitute(i) = i
      BY <1>2, <2>1, SubstituteUncovered DEF Found
    <2> QED
      BY <2>2, SubstituteKeeps
  <1>13. Resolve(p)' = Walk(x, p)'
    <2>1. ResolvesByWalk'
      BY ResolveIs, PTL
    <2>2. Substitute(Root)' = x
      BY <1>3, SubstituteKeeps
    <2>3. Absolute(p)
      BY DEF Splits
    <2> QED
      BY <2>1, <2>2, <2>3 DEF ResolvesByWalk
  <1> QED
    BY <1>8, <1>10, <1>11, <1>12, <1>13

-----------------------------------------------------------------------------
(* A mount changes where one chain ends.                                     *)
Mounts(m, punto, r) ==
  /\ punto \in Inodes /\ r \in Roots /\ m \notin Used
  /\ Used' = Used \cup {m} /\ mountpoints'[m] = Mount(punto, r)
  /\ \A k \in Used : mountpoints'[k] = mountpoints[k]
  /\ punto \notin Puntos

LEMMA HopMounts ==
  ASSUME TypeOK, TypeOK', NoShadowedMount, Acyclic, NEW m, NEW punto, NEW r, Mounts(m, punto, r), NEW i
  PROVE  Hop(i)' = IF i = punto THEN r ELSE Hop(i)
  <1>1. HopTaken /\ HopTaken'
    <2>1. TypeOK' => HopTaken'
      BY HopIs, PTL
    <2> QED
      BY <2>1, HopIs
  <1>2. Mount(punto, r).punto = punto /\ Mount(punto, r).root = r
    BY DEF Mount
  <1>3. \/ i \notin Puntos' /\ Hop(i)' = i
        \/ \E l \in Used' : mountpoints'[l].punto = i /\ Hop(i)' = mountpoints'[l].root
    BY <1>1 DEF HopTaken
  <1>4. \/ i \notin Puntos /\ Hop(i) = i
        \/ \E k \in Used : mountpoints[k].punto = i /\ Hop(i) = mountpoints[k].root
    BY <1>1 DEF HopTaken
  <1>5. Puntos' = Puntos \cup {punto}
    BY <1>2 DEF Mounts, Puntos
  <1>6. CASE i = punto
    <2>1. PICK l \in Used' : mountpoints'[l].punto = i /\ Hop(i)' = mountpoints'[l].root
      BY <1>3, <1>5, <1>6
    <2>2. l = m
      BY <1>6, <2>1 DEF Mounts, Puntos
    <2> QED
      BY <1>2, <1>6, <2>1, <2>2 DEF Mounts
  <1>7. CASE i # punto /\ i \notin Puntos
    <2>1. i \notin Puntos'
      BY <1>5, <1>7
    <2>2. Hop(i)' = i
      BY <1>3, <2>1 DEF Puntos
    <2>3. Hop(i) = i
      BY <1>4, <1>7 DEF Puntos
    <2> QED
      BY <1>7, <2>2, <2>3
  <1>8. CASE i # punto /\ i \in Puntos
    <2>1. PICK l \in Used' : mountpoints'[l].punto = i /\ Hop(i)' = mountpoints'[l].root
      BY <1>3, <1>5, <1>8
    <2>2. PICK k \in Used : mountpoints[k].punto = i /\ Hop(i) = mountpoints[k].root
      BY <1>4, <1>8
    <2>3. l \in Used /\ mountpoints[l].punto = i /\ mountpoints'[l] = mountpoints[l]
      BY <1>2, <1>8, <2>1 DEF Mounts
    <2>4. l = k
      BY <2>2, <2>3 DEF NoShadowedMount
    <2> QED
      BY <1>8, <2>1, <2>2, <2>3, <2>4
  <1> QED
    BY <1>6, <1>7, <1>8

LEMMA SubstituteMounts ==
  ASSUME TypeOK, TypeOK', NoShadowedMount, Acyclic, Acyclic', NEW m, NEW punto, NEW r, Mounts(m, punto, r),
         NEW j \in Inodes
  PROVE  Substitute(j)' = IF Substitute(j) = punto THEN Substitute(r)' ELSE Substitute(j)
  <1>1. /\ TurnsTaken /\ TurnsTaken' /\ TurnsEnd /\ TurnsEnd' /\ CapIsEnough'
    <2>1. (TypeOK' => TurnsTaken') /\ (TypeOK' => TurnsEnd') /\ (TypeOK' => CapIsEnough')
      BY SubstituteIs, TurnsStay, CapHolds, PTL
    <2> QED
      BY <2>1, SubstituteIs, TurnsStay
  <1>2. j \in Found /\ r \in Found /\ r \in Inodes
    BY TreeAssumption DEF Mounts, Found
  <1>3. PICK f \in [0 .. MAX_MOUNTS -> Found] : Turns(f, j) /\ Substitute(j) = f[MAX_MOUNTS]
    BY <1>1, <1>2 DEF TurnsTaken
  <1>4. PICK h \in [0 .. MAX_MOUNTS -> Found] : Turns(h, j)' /\ Substitute(j)' = h[MAX_MOUNTS]
    BY <1>1, <1>2 DEF TurnsTaken
  <1>5. MAX_MOUNTS \in Nat
    BY TreeAssumption
  <1>6. h[0] = j /\ f[0] = j
    BY <1>3, <1>4 DEF Turns
  <1>7. ASSUME NEW n \in 1 .. MAX_MOUNTS
        PROVE  f[n] = Hop(f[n - 1]) /\ h[n] = IF h[n - 1] = punto THEN r ELSE Hop(h[n - 1])
    <2>1. h[n] = Hop(h[n - 1])' /\ f[n] = Hop(f[n - 1])
      BY <1>3, <1>4 DEF Turns
    <2>2. PICK i : i = h[n - 1]
      OBVIOUS
    <2>3. Hop(i)' = IF i = punto THEN r ELSE Hop(i)
      BY HopMounts
    <2> QED
      BY <2>1, <2>2, <2>3
  (* the two sequences go together as long as the first is not at punto *)
  <1>8. ASSUME NEW k \in 0 .. MAX_MOUNTS, \A n \in 0 .. k - 1 : f[n] # punto
        PROVE  h[k] = f[k]
    <2> DEFINE S == {n \in 0 .. k : h[n] = f[n]}
    <2>1. k \in Nat /\ 0 \in S
      BY <1>6
    <2>2. ASSUME NEW n \in 1 .. k, n - 1 \in S PROVE n \in S
      <3>1. n \in 1 .. MAX_MOUNTS /\ n - 1 \in 0 .. k - 1 /\ n \in 0 .. k
        BY <1>5, <2>1
      <3> QED
        BY <1>7, <1>8, <2>2, <3>1
    <2> HIDE DEF S
    <2>3. \A n \in 0 .. k : n \in S
      BY <2>1, <2>2, Counting
    <2>4. k \in S
      BY <2>1, <2>3
    <2> QED
      BY <2>4 DEF S
  <1>9. CASE Substitute(j) # punto
    <2>1. ASSUME NEW n \in 0 .. MAX_MOUNTS PROVE f[n] # punto
      <3>1. punto \notin Puntos
        BY DEF Mounts
      <3> QED
        BY <1>1, <1>3, <1>9, <3>1 DEF TurnsEnd
    <2>2. MAX_MOUNTS \in 0 .. MAX_MOUNTS /\ \A n \in 0 .. MAX_MOUNTS - 1 : n \in 0 .. MAX_MOUNTS
      BY <1>5
    <2>3. h[MAX_MOUNTS] = f[MAX_MOUNTS]
      BY <1>8, <2>1, <2>2
    <2> QED
      BY <1>3, <1>4, <1>9, <2>3
  <1>10. CASE Substitute(j) = punto
    <2> DEFINE OnWay == {n \in 0 .. MAX_MOUNTS : f[n] = punto}
    <2>1. OnWay \subseteq Nat /\ MAX_MOUNTS \in OnWay
      <3>1. MAX_MOUNTS \in 0 .. MAX_MOUNTS /\ 0 .. MAX_MOUNTS \subseteq Nat
        BY <1>5
      <3>2. f[MAX_MOUNTS] = punto
        BY <1>3, <1>10
      <3> QED
        BY <3>1, <3>2
    <2>2. PICK k \in OnWay : \A n \in OnWay : k <= n
      BY <2>1, Least
    <2>3. k \in 0 .. MAX_MOUNTS /\ f[k] = punto /\ k \in Nat
      BY <2>1
    <2>4. \A n \in 0 .. k - 1 : f[n] # punto
      BY <1>5, <2>2, <2>3
    <2> HIDE DEF OnWay
    <2>5. h[k] = punto
      BY <1>8, <2>3, <2>4
    <2>6. punto \in Puntos' /\ h[MAX_MOUNTS] \notin Puntos'
      <3>1. punto \in Puntos'
        BY DEF Mounts, Puntos, Mount
      <3>2. (\A m1 \in Used : mountpoints[m1].punto # Substitute(j))'
        BY <1>1 DEF CapIsEnough
      <3> QED
        BY <1>4, <3>1, <3>2 DEF Puntos
    <2>7. k + 1 \in 1 .. MAX_MOUNTS
      BY <1>5, <2>3, <2>5, <2>6
    <2>8. PICK g \in [0 .. MAX_MOUNTS -> Found] : Turns(g, r)' /\ Substitute(r)' = g[MAX_MOUNTS]
      BY <1>1, <1>2 DEF TurnsTaken
    <2> DEFINE N == MAX_MOUNTS - (k + 1)
               S == {n \in 0 .. N : h[k + 1 + n] = g[n]}
    <2>9. N \in Nat /\ N \in 0 .. MAX_MOUNTS /\ k + 1 + N = MAX_MOUNTS /\ k + 1 + 0 = k + 1
      BY <1>5, <2>3, <2>7
    <2>10. 0 \in S
      <3>1. (k + 1) - 1 = k
        BY <2>3
      <3>2. h[k + 1] = r
        BY <1>7, <2>5, <2>7, <3>1
      <3>3. g[0] = r
        BY <2>8 DEF Turns
      <3> QED
        BY <2>9, <3>2, <3>3
    <2>11. ASSUME NEW n \in 1 .. N, n - 1 \in S PROVE n \in S
      <3>1. /\ k + 1 + n \in 1 .. MAX_MOUNTS /\ (k + 1 + n) - 1 = k + 1 + (n - 1)
            /\ n \in 1 .. MAX_MOUNTS /\ n \in 0 .. N
        BY <1>5, <2>3, <2>7, <2>9
      <3>2. g[n] = Hop(g[n - 1])'
        BY <2>8, <3>1 DEF Turns
      <3>3. h[k + 1 + n] = Hop(h[k + 1 + (n - 1)])'
        BY <1>4, <3>1 DEF Turns
      <3>4. PICK i : i = g[n - 1] /\ i = h[k + 1 + (n - 1)]
        BY <2>11
      <3> QED
        BY <3>1, <3>2, <3>3, <3>4
    <2> HIDE DEF S
    <2>12. N \in S
      <3>1. \A n \in 0 .. N : n \in S
        BY <2>9, <2>10, <2>11, Counting
      <3> QED
        BY <2>9, <3>1
    <2>13. h[MAX_MOUNTS] = g[N]
      BY <2>9, <2>12 DEF S
    <2>14. g[MAX_MOUNTS] = g[N]
      BY <1>1, <2>6, <2>8, <2>9, <2>13 DEF TurnsEnd
    <2> QED
      BY <1>4, <1>10, <2>8, <2>13, <2>14
  <1> QED
    BY <1>9, <1>10

LEMMA PathIsTokens == \A p \in Paths : p \in Seq(Tokens)
  BY PathsAssumption DEF Tokens

(* The walk to what is mounted on meets it last, and there goes on to r.     *)
LEMMA MountSeen ==
  ASSUME TypeOK, TypeOK', NoShadowedMount, Acyclic, Acyclic', UNCHANGED <<kind, entry>>,
         NEW p \in Paths, MetOnce(p), NEW punto, punto = Resolve(p), punto # NoInode,
         NEW m, NEW r, Mounts(m, punto, r)
  PROVE  Resolve(p)' = Substitute(r)'
  <1> DEFINE N == Len(p)
  <1>1. p \in Seq(Tokens) /\ N \in Nat /\ Root \in Inodes /\ NoInode \notin Inodes
    BY PathIsTokens, TreeAssumption
  <1>2. PICK x : x = Substitute(Root)
    OBVIOUS
  <1>3. PICK y : y = Substitute(Root)'
    OBVIOUS
  <1>4. PICK s : s = Substitute(r)'
    OBVIOUS
  <1>5. TurnsTaken' /\ PathsWalked'
    <2>1. (TypeOK' => TurnsTaken') /\ (TypeOK' => PathsWalked')
      BY SubstituteIs, WalkIs, PTL
    <2> QED
      BY <2>1
  <1>6. x \in Found /\ y \in Found
    <2>1. PICK f \in [0 .. MAX_MOUNTS -> Found] : Substitute(Root) = f[MAX_MOUNTS]
      BY <1>1, SubstituteIs DEF TurnsTaken, Found
    <2>2. PICK g \in [0 .. MAX_MOUNTS -> Found] : Substitute(Root)' = g[MAX_MOUNTS]
      BY <1>1, <1>5 DEF TurnsTaken, Found
    <2> QED
      BY <1>2, <1>3, <2>1, <2>2, TreeAssumption
  <1>7. PICK w \in [0 .. N -> Found] : Passes(w, x, p) /\ Walk(x, p) = w[N]
    BY <1>1, <1>6, WalkIs DEF PathsWalked
  <1>8. PICK v \in [0 .. N -> Found] : Passes(v, y, p)' /\ Walk(y, p)' = v[N]
    BY <1>1, <1>5, <1>6 DEF PathsWalked
  <1>9. Absolute(p) /\ w[N] = punto
    <2>1. Resolve(p) = IF Absolute(p) THEN Walk(x, p) ELSE NoInode
      BY <1>2, ResolveIs DEF ResolvesByWalk
    <2> QED
      BY <1>7, <2>1
  <1>10. ASSUME NEW n \in 1 .. N, p[n] # Slash PROVE w[n - 1] # punto
    <2> DEFINE q == SubSeq(p, 1, n - 1)
    <2>1. n - 1 \in Nat /\ n - 1 <= N /\ n \in DOMAIN p
      BY <1>1
    <2>2. q \in Seq(Tokens) /\ Len(q) = n - 1 /\ \A k \in 1 .. n - 1 : q[k] = p[k]
      <3>1. \A k \in 1 .. n - 1 : p[k] \in Tokens
        BY <1>1, <2>1
      <3>2. /\ q \in Seq(Tokens) /\ Len(q) = IF 1 <= n - 1 THEN (n - 1) - 1 + 1 ELSE 0
            /\ \A k \in 1 .. (n - 1) - 1 + 1 : q[k] = p[1 + k - 1]
        BY <2>1, <3>1, SubSeqProperties
      <3>3. (n - 1) - 1 + 1 = n - 1 /\ \A k \in 1 .. n - 1 : 1 + k - 1 = k
        BY <2>1
      <3> QED
        BY <2>1, <3>2, <3>3
    <2> HIDE DEF q
    <2>3. Walk(x, q) = w[n - 1]
      <3>1. PICK l : l = n - 1
        OBVIOUS
      <3>2. Len(q) = l /\ l <= Len(p) /\ Passes(w, x, p) /\ p \in Seq(Tokens)
        BY <1>1, <1>7, <2>1, <2>2, <3>1
      <3>3. \A k \in 1 .. Len(q) : q[k] = p[k]
        BY <2>2
      <3>4. Walk(x, q) = w[Len(q)]
        BY <1>6, <2>2, <3>2, <3>3, PrefixIs
      <3> QED
        BY <3>1, <3>2, <3>4
    <2> QED
      BY <1>2, <1>10, <2>1, <2>3 DEF MetOnce, q
  <1> DEFINE S == {n \in 0 .. N : v[n] = IF w[n] = punto THEN s ELSE w[n]}
  <1>11. 0 \in S
    <2>1. w[0] = x /\ v[0] = y
      BY <1>7, <1>8 DEF Passes
    <2>2. y = IF x = punto THEN s ELSE x
      BY <1>1, <1>2, <1>3, <1>4, SubstituteMounts
    <2> QED
      BY <1>1, <2>1, <2>2
  <1>12. ASSUME NEW n \in 1 .. N, n - 1 \in S PROVE n \in S
    <2>1. n \in 0 .. N /\ n - 1 \in 0 .. N /\ p[n] \in Tokens
      BY <1>1
    <2>2. CASE p[n] = Slash
      <3>1. w[n] = w[n - 1] /\ v[n] = v[n - 1]
        BY <1>7, <1>8, <2>2 DEF Passes
      <3> QED
        BY <1>12, <2>1, <3>1
    <2>3. CASE p[n] # Slash
      <3>1. PICK a \in Found : a = w[n - 1] /\ a = v[n - 1]
        BY <1>10, <1>12, <2>1, <2>3
      <3>2. w[n] = Step(a, p[n]) /\ v[n] = Step(a, p[n])'
        BY <1>7, <1>8, <2>3, <3>1 DEF Passes
      <3>3. PICK next : next = (IF NameLen[p[n]] > VFS_NAME_MAX THEN NoInode ELSE Lookup(a, p[n]))
        OBVIOUS
      <3>4. Step(a, p[n]) = IF next = NoInode THEN NoInode ELSE Substitute(next)
        BY <3>3 DEF Step
      <3>5. Step(a, p[n])' = IF next = NoInode THEN NoInode ELSE Substitute(next)'
        <4>1. Lookup(a, p[n])' = Lookup(a, p[n])
          BY DEF Lookup
        <4> QED
          BY <3>3, <4>1 DEF Step
      <3>6. next \in Found
        <4>1. p[n] \in Names
          BY <2>1, <2>3 DEF Tokens
        <4> QED
          BY <3>1, <3>3, <4>1 DEF Lookup, TypeOK, Found
      <3>7. next # NoInode => Substitute(next)' = IF Substitute(next) = punto THEN s ELSE Substitute(next)
        BY <1>4, <3>6, SubstituteMounts DEF Found
      <3> QED
        BY <2>1, <3>2, <3>4, <3>5, <3>7
    <2> QED
      BY <2>2, <2>3
  <1> HIDE DEF S
  <1>13. N \in S
    <2>1. \A n \in 0 .. N : n \in S
      BY <1>1, <1>11, <1>12, Counting
    <2> QED
      BY <1>1, <2>1
  <1>14. v[N] = s
    BY <1>9, <1>13 DEF S
  <1>15. Resolve(p)' = Walk(y, p)'
    <2>1. ResolvesByWalk'
      BY ResolveIs, PTL
    <2> QED
      BY <1>3, <1>9, <2>1 DEF ResolvesByWalk
  <1> QED
    BY <1>4, <1>8, <1>14, <1>15

-----------------------------------------------------------------------------
(* The steps.                                                                *)
LEMMA ResolveType ==
  ASSUME TypeOK, NEW p \in Seq(Tokens)
  PROVE  Resolve(p) \in Found
  <1>1. CASE Resolve(p) = NoInode
    BY <1>1 DEF Found
  <1>2. CASE Resolve(p) # NoInode
    <2>1. PICK i \in Inodes : Resolve(p) = Substitute(i)
      BY <1>2, Lands
    <2>2. PICK f \in [0 .. MAX_MOUNTS -> Found] : Substitute(i) = f[MAX_MOUNTS]
      BY SubstituteIs DEF TurnsTaken, Found
    <2> QED
      BY <2>1, <2>2, TreeAssumption
  <1> QED
    BY <1>1, <1>2

NamesInv == TypeOK /\ Covers /\ NoShadowedMount

LEMMA NamesInit == Init => NamesInv
  <1> SUFFICES ASSUME Init PROVE NamesInv
    OBVIOUS
  <1>1. TypeOK
    BY TreeAssumption DEF Init, TypeOK, Mount
  <1>2. Used = {}
    BY DEF Init, Used, Mount
  <1> QED
    BY <1>1, <1>2 DEF NamesInv, Covers, NoShadowedMount

LEMMA CreateStep ==
  ASSUME NamesInv, NEW p \in Paths, NEW type \in {"file", "dir"}, NEW op, CreaUltimo(p, type, op)
  PROVE  /\ NamesInv'
         /\ \A m \in Used : entry'[mountpoints[m].punto] = entry[mountpoints[m].punto]
         /\ \/ last'.op = "failed"
            \/ last'.op = op /\ last'.path = p /\ Resolve(p)' = last'.ino
  <1>1. TypeOK /\ Covers /\ NoShadowedMount /\ UNCHANGED mountpoints /\ Splits(p)
    BY DEF NamesInv, CreaUltimo
  <1>2. p[Len(p)] \in Names
    BY <1>1, Cut
  <1>3. PICK dir \in Disk : dir = Resolve(Parent(p)) /\ kind[dir] = "dir" /\ entry[dir][p[Len(p)]] = NoInode
    BY DEF CreaUltimo
  <1>4. PICK i \in Inodes :
          \/ FsCreate(dir, p[Len(p)], type, i) /\ last' = Did(op, p, i, FALSE)
          \/ FsCreateHalf(dir, p[Len(p)], type, i) /\ last' = Did("failed", p, i, FALSE)
    BY <1>3 DEF CreaUltimo
  <1>5. /\ i \in Disk /\ kind[i] = "none" /\ i # dir
        /\ kind' \in [Inodes -> {"none", "file", "dir"}]
        /\ kind'[i] = type /\ \A a \in Inodes \ {i} : kind'[a] = kind[a]
        /\ entry' \in [Inodes -> [Names -> Inodes \cup {NoInode}]]
        /\ entry'[dir][p[Len(p)]] = i
        /\ \A t \in Names \ {p[Len(p)]} : entry'[dir][t] = entry[dir][t]
        /\ \A a \in Inodes \ {i, dir} : entry'[a] = entry[a]
    <2>1. PICK name \in Names : name = p[Len(p)]
      BY <1>2
    <2>2. FsCreate(dir, name, type, i) \/ FsCreateHalf(dir, name, type, i)
      BY <1>4, <2>1
    <2>3. kind[dir] = "dir"
      BY <1>3
    <2> QED
      BY <1>1, <2>1, <2>2, <2>3, CreateEffect
  <1>6. Creates(dir, p[Len(p)], i) /\ kind'[dir] = "dir"
    BY <1>3, <1>5, TreeAssumption DEF Creates
  <1>7. TypeOK'
    BY <1>1, <1>5 DEF TypeOK, MountSlots
  <1>8. Used' = Used
    BY <1>1 DEF Used, MountSlots
  <1>9. \A m \in Used : mountpoints[m].punto \in Inodes /\ mountpoints[m].punto # i
    BY <1>1, <1>5 DEF TypeOK, Used, Covers
  <1>10. Covers'
    BY <1>1, <1>5, <1>8, <1>9 DEF Covers
  <1>11. Acyclic' <=> Acyclic
    BY <1>1, <1>8 DEF Acyclic
  <1>12. NoShadowedMount'
    BY <1>1, <1>8, <1>11 DEF NoShadowedMount
  <1>13. dir \notin Puntos
    <2>1. Parent(p) \in Seq(Tokens)
      <3>1. p \in Seq(Tokens) /\ Len(p) \in Nat /\ Len(p) >= 2 /\ LastSlash(p) = Len(p) - 1
        BY <1>1, Cut
      <3>2. \A n \in 1 .. LastSlash(p) - 1 : p[n] \in Tokens
        BY <3>1
      <3>3. SubSeq(p, 1, LastSlash(p) - 1) \in Seq(Tokens)
        BY <3>1, <3>2, SubSeqProperties
      <3>4. <<Slash>> \in Seq(Tokens)
        BY DEF Tokens
      <3> QED
        BY <3>3, <3>4 DEF Parent
    <2>2. PICK j \in Inodes : dir = Substitute(j)
      BY <1>1, <1>3, <2>1, Lands, TreeAssumption
    <2> QED
      BY <1>1, <2>2, SubstituteOnDisk DEF Found
  <1>14. \A m \in Used : entry'[mountpoints[m].punto] = entry[mountpoints[m].punto]
    BY <1>5, <1>9, <1>13 DEF Puntos
  <1>15. Resolve(p)' = i
    BY <1>1, <1>3, <1>6, <1>7, CreatedResolves
  <1>16. last'.op = "failed" \/ (last'.op = op /\ last'.path = p /\ last'.ino = i)
    BY <1>4 DEF Did
  <1> QED
    BY <1>7, <1>10, <1>12, <1>14, <1>15, <1>16 DEF NamesInv

LEMMA MountStep ==
  ASSUME NamesInv, NEW p \in Paths, NEW r \in Roots, VfsMount(p, r)
  PROVE  NamesInv' /\ last'.op = "mount" /\ MountIsSeen' /\ entry' = entry
  <1>1. TypeOK /\ Covers /\ NoShadowedMount /\ UNCHANGED <<kind, entry>>
    BY DEF NamesInv, VfsMount
  <1>2. PICK punto : punto = Resolve(p)
    OBVIOUS
  <1>3. punto \in Inodes /\ punto # NoInode /\ kind[punto] = "dir"
    <2>1. punto # NoInode /\ kind[punto] = "dir"
      BY <1>2 DEF VfsMount
    <2> QED
      BY <1>1, <1>2, <2>1, ResolveType, PathIsTokens DEF Found
  <1>4. PICK m \in MountSlots \ Used : mountpoints' = [mountpoints EXCEPT ![m] = Mount(punto, r)]
    BY <1>2 DEF VfsMount
  <1>5. /\ mountpoints'[m] = Mount(punto, r)
        /\ \A k \in MountSlots \ {m} : mountpoints'[k] = mountpoints[k]
    BY <1>1, <1>4 DEF TypeOK
  <1>6. Mount(punto, r).punto = punto /\ Mount(punto, r).root = r /\ r # NoInode
    BY TreeAssumption DEF Mount
  <1>7. Used' = Used \cup {m}
    BY <1>3, <1>5, <1>6 DEF Used, MountSlots
  <1>8. TypeOK'
    <2>1. mountpoints' \in [MountSlots -> [punto : Inodes \cup {NoInode}, root : Roots \cup {NoInode}]]
      BY <1>1, <1>3, <1>4 DEF TypeOK, Mount
    <2>2. \A k \in MountSlots : mountpoints'[k].punto = NoInode <=> mountpoints'[k].root = NoInode
      BY <1>1, <1>3, <1>5, <1>6 DEF TypeOK
    <2> QED
      BY <1>1, <2>1, <2>2 DEF TypeOK, MountSlots
  <1>9. \A k \in Used : k # m /\ k \in MountSlots /\ mountpoints'[k] = mountpoints[k]
    BY <1>4, <1>5 DEF Used
  <1>10. Covers'
    BY <1>1, <1>3, <1>5, <1>6, <1>7, <1>9 DEF Covers
  <1>11. ASSUME Acyclic' PROVE Acyclic /\ punto \notin Puntos
    <2>1. Acyclic
      <3> SUFFICES ASSUME NEW S \in SUBSET Used, S # {}
                   PROVE  \E k \in S : \A l \in S : mountpoints[l].punto # mountpoints[k].root
        BY DEF Acyclic
      <3>1. PICK k \in S : \A l \in S : mountpoints'[l].punto # mountpoints'[k].root
        BY <1>7, <1>11 DEF Acyclic
      <3> QED
        BY <1>9, <3>1
    <2>2. PICK j \in Inodes : punto = Substitute(j)
      BY <1>1, <1>2, <1>3, Lands, PathIsTokens
    <2> QED
      BY <1>1, <2>1, <2>2, CapHolds DEF CapIsEnough, Puntos
  <1>12. NoShadowedMount'
    <2> SUFFICES ASSUME Acyclic'
                 PROVE  \A k, l \in Used' : mountpoints'[k].punto = mountpoints'[l].punto => k = l
      BY DEF NoShadowedMount
    <2>1. \A k, l \in Used : mountpoints[k].punto = mountpoints[l].punto => k = l
      BY <1>1, <1>11 DEF NoShadowedMount
    <2>2. \A k \in Used : mountpoints[k].punto # punto
      BY <1>11 DEF Puntos
    <2> QED
      BY <1>5, <1>6, <1>7, <1>9, <2>1, <2>2
  <1>13. last' = Did("mount", p, r, MetOnce(p))
    BY DEF VfsMount
  <1>14. last'.op = "mount" /\ last'.path = p /\ last'.ino = r /\ (last'.once => MetOnce(p))
    BY <1>13 DEF Did
  <1>15. MountIsSeen'
    <2> SUFFICES ASSUME last'.once, Acyclic' PROVE Resolve(p)' = Substitute(r)'
      BY <1>14 DEF MountIsSeen
    <2>1. Mounts(m, punto, r)
      BY <1>3, <1>4, <1>5, <1>7, <1>9, <1>11 DEF Mounts
    <2> QED
      BY <1>1, <1>2, <1>3, <1>8, <1>11, <1>14, <2>1, MountSeen
  <1> QED
    BY <1>1, <1>8, <1>10, <1>12, <1>14, <1>15 DEF NamesInv

LEMMA NamesNext ==
  ASSUME NamesInv, Next
  PROVE  /\ NamesInv' /\ CreatedIsFound' /\ MountIsSeen'
         /\ \A m \in Used : entry'[mountpoints[m].punto] = entry[mountpoints[m].punto]
  <1>1. PICK p \in Paths : OpenCreating(p) \/ Mkdir(p) \/ \E r \in Roots : VfsMount(p, r)
    BY DEF Next
  <1>2. ASSUME NEW type \in {"file", "dir"}, NEW op \in {"open", "mkdir"}, CreaUltimo(p, type, op)
        PROVE  /\ NamesInv' /\ CreatedIsFound' /\ MountIsSeen'
               /\ \A m \in Used : entry'[mountpoints[m].punto] = entry[mountpoints[m].punto]
    <2>1. /\ NamesInv'
          /\ \A m \in Used : entry'[mountpoints[m].punto] = entry[mountpoints[m].punto]
          /\ \/ last'.op = "failed"
             \/ last'.op = op /\ last'.path = p /\ Resolve(p)' = last'.ino
      BY <1>2, CreateStep
    <2>2. CreatedIsFound' /\ MountIsSeen'
      BY <2>1 DEF CreatedIsFound, MountIsSeen
    <2> QED
      BY <2>1, <2>2
  <1>3. CASE OpenCreating(p)
    BY <1>2, <1>3 DEF OpenCreating
  <1>4. CASE Mkdir(p)
    BY <1>2, <1>4 DEF Mkdir
  <1>5. CASE \E r \in Roots : VfsMount(p, r)
    <2>1. PICK r \in Roots : VfsMount(p, r)
      BY <1>5
    <2>2. NamesInv' /\ last'.op = "mount" /\ MountIsSeen' /\ entry' = entry
      BY <2>1, MountStep
    <2>3. CreatedIsFound'
      BY <2>2 DEF CreatedIsFound
    <2> QED
      BY <2>2, <2>3
  <1> QED
    BY <1>1, <1>3, <1>4, <1>5

LEMMA NamesKept == Spec => []NamesInv
  <1>1. Init => NamesInv
    BY NamesInit
  <1>2. NamesInv /\ [Next]_vars => NamesInv'
    <2> SUFFICES ASSUME NamesInv, [Next]_vars PROVE NamesInv'
      OBVIOUS
    <2>1. CASE Next
      BY <2>1, NamesNext
    <2>2. CASE UNCHANGED vars
      <3>1. TypeOK'
        BY <2>2 DEF NamesInv, TypeOK, MountSlots, vars
      <3>2. Used' = Used /\ UNCHANGED <<kind, mountpoints>>
        BY <2>2 DEF Used, MountSlots, vars
      <3>3. Covers' /\ NoShadowedMount'
        BY <3>2 DEF NamesInv, Covers, NoShadowedMount, Acyclic
      <3> QED
        BY <3>1, <3>3 DEF NamesInv
    <2> QED
      BY <2>1, <2>2
  <1> QED
    BY <1>1, <1>2, PTL DEF Spec

LEMMA NamesSeen == Spec => [](CreatedIsFound /\ MountIsSeen)
  <1>1. Init => CreatedIsFound /\ MountIsSeen
    BY DEF Init, CreatedIsFound, MountIsSeen, Did
  <1>2. NamesInv /\ CreatedIsFound /\ MountIsSeen /\ [Next]_vars => CreatedIsFound' /\ MountIsSeen'
    <2> SUFFICES ASSUME NamesInv, CreatedIsFound, MountIsSeen, [Next]_vars
                 PROVE  CreatedIsFound' /\ MountIsSeen'
      OBVIOUS
    <2>1. CASE Next
      BY <2>1, NamesNext
    <2>2. CASE UNCHANGED vars
      <3>1. UNCHANGED <<kind, entry, mountpoints, last>>
        BY <2>2 DEF vars
      <3>2. \A p : Resolve(p)' = Resolve(p) /\ Substitute(p)' = Substitute(p)
        BY <3>1 DEF Resolve, Walk, Step, Lookup, Substitute, Hop, Used, MountSlots
      <3>3. Acyclic' = Acyclic
        BY <3>1 DEF Acyclic, Used, MountSlots
      <3> QED
        BY <3>1, <3>2, <3>3 DEF CreatedIsFound, MountIsSeen
    <2> QED
      BY <2>1, <2>2
  <1>3. Spec => []NamesInv
    BY NamesKept
  <1> QED
    BY <1>1, <1>2, <1>3, PTL DEF Spec

(* What vfs_open and vfs_mkdir create is what the path they were given then  *)
(* names: crea_ultimo finds the parent the way vfs_resolve does (vfs.c:110,  *)
(* vfs.c:395), and no mount is over a new inode.                             *)
THEOREM NamesCreatedIsFound == Spec => []CreatedIsFound
  BY NamesSeen, PTL

(* Without a cycle: what is mounted on a path is what the path then names,   *)
(* MAX_MOUNTS turns of risolvi_mount follow every chain to its end           *)
(* (vfs.c:213), and so vfs_mount never puts a mount where one is already     *)
(* (vfs.c:627): no slot of the table is lost to a mount nobody can reach.    *)
THEOREM NamesMountTable == Spec => []MountTableSound
  <1>1. NamesInv /\ MountIsSeen => MountTableSound
    BY CapHolds DEF NamesInv, MountTableSound
  <1> QED
    BY <1>1, NamesKept, NamesSeen, PTL

(* No path, ".." included, lets a create write in a directory that a mount   *)
(* covers (vfs.c:197, vfs.c:395).                                            *)
THEOREM NamesCoveredUntouched == Spec => CoveredUntouched
  <1> DEFINE Same == \A m \in Used : entry'[mountpoints[m].punto] = entry[mountpoints[m].punto]
  <1>1. NamesInv /\ [Next]_vars => [Same]_vars
    <2> SUFFICES ASSUME NamesInv, [Next]_vars PROVE [Same]_vars
      OBVIOUS
    <2>1. CASE Next
      BY <2>1, NamesNext
    <2>2. CASE UNCHANGED vars
      BY <2>2
    <2> QED
      BY <2>1, <2>2
  <1>2. Spec => []NamesInv
    BY NamesKept
  <1>3. Spec => [][Same]_vars
    BY <1>1, <1>2, PTL DEF Spec
  <1> QED
    BY <1>3 DEF CoveredUntouched

-----------------------------------------------------------------------------
(* Devfs. *)
Functional == \A i \in Places : pool[i] = [f \in Fields |-> pool[i][f]]

(* A field is as devfs_init left it, or what the registry says.              *)
HalfOrWhole ==
  \A i \in Places : \A f \in Fields :
    pool[i][f] # Unfilled[f] => i < DevCount /\ pool[i][f] = Filled(i)[f]

(* A task filling an inode has stored every field before the one it is at.   *)
StoredSoFar ==
  \A t \in Task : prep[t].k > 0 =>
    /\ prep[t].i \in Places /\ prep[t].i < DevCount
    /\ \A n \in 1 .. 7 : n < prep[t].k =>
         pool[prep[t].i][StoreOrder[n]] = Filled(prep[t].i)[StoreOrder[n]]

DTypeOK ==
  /\ entries \in Seq(Drivers) /\ Len(entries) <= DEV_MAX
  /\ DOMAIN pool = Places
  /\ prep \in [Task -> [i : Nat, k : 0 .. 7]]

DInv == DTypeOK /\ Functional /\ HalfOrWhole /\ StoredSoFar /\ InodeWhole /\ OneNamespace

(* The seven stores, the number last.                                        *)
LEMMA OrderFacts ==
  /\ Len(StoreOrder) = 7
  /\ \A n \in 1 .. 7 : StoreOrder[n] \in Fields
  /\ \A f \in Fields : \E n \in 1 .. 7 : StoreOrder[n] = f
  /\ StoreOrder[7] = "ino"
  /\ \A n \in 1 .. 6 : StoreOrder[n] # "ino"
  /\ Unfilled["ino"] = 0
  /\ \A i : Filled(i)["ino"] = 3 + i
  /\ \A i : Filled(i) = [f \in Fields |-> Filled(i)[f]]
  BY DEF StoreOrder, Fields, Unfilled, Filled

LEMMA InitHolds == DInit => DInv
  <1> SUFFICES ASSUME DInit PROVE DInv
    OBVIOUS
  <1>1. DTypeOK /\ Functional
    BY DevfsAssumption DEF DInit, DTypeOK, Functional, Unfilled
  <1>2. HalfOrWhole /\ StoredSoFar
    BY DEF DInit, HalfOrWhole, StoredSoFar
  <1>3. InodeWhole
    BY OrderFacts DEF DInit, InodeWhole, Ready
  <1>4. OneNamespace
    BY DevfsAssumption DEF DInit, OneNamespace
  <1> QED
    BY <1>1, <1>2, <1>3, <1>4 DEF DInv

(* What the registry says of a place it has does not change.                 *)
LEMMA RegisterKeeps ==
  ASSUME DTypeOK, NEW d \in Drivers, DevRegister(d)
  PROVE  /\ DTypeOK' /\ DevCount' = DevCount + 1
         /\ \A i \in DOMAIN entries : entries'[i] = entries[i]
         /\ \A i \in Places : i < DevCount => Filled(i)' = Filled(i)
  <1>1. entries \in Seq(Drivers) /\ entries' = Append(entries, d) /\ Len(entries) < DEV_MAX
    BY DEF DTypeOK, DevRegister, DevAccepts, DevCount
  <1>2. /\ entries' \in Seq(Drivers) /\ Len(entries') = Len(entries) + 1
        /\ \A i \in 1 .. Len(entries) : entries'[i] = entries[i]
    BY <1>1
  <1>3. DTypeOK'
    BY <1>1, <1>2, DevfsAssumption DEF DTypeOK, DevRegister
  <1>4. ASSUME NEW i \in Places, i < DevCount
        PROVE  Filled(i)' = Filled(i)
    <2>1. Entry(i)' = Entry(i)
      BY <1>1, <1>2, <1>4 DEF Entry, Places, DevCount
    <2> QED
      BY <2>1 DEF Filled
  <1> QED
    BY <1>1, <1>2, <1>3, <1>4 DEF DevCount

LEMMA RegisterPreserves ==
  ASSUME DInv, NEW d \in Drivers, DevRegister(d)
  PROVE  DInv'
  <1> USE DEF DInv
  <1>1. /\ DTypeOK' /\ DevCount' = DevCount + 1 /\ DevCount \in Nat
        /\ \A i \in Places : i < DevCount => Filled(i)' = Filled(i)
    BY RegisterKeeps DEF DTypeOK, DevCount
  <1>2. pool' = pool /\ prep' = prep /\ Places \subseteq Nat
    BY DevfsAssumption DEF DevRegister, Places
  <1>3. Functional'
    BY <1>2 DEF Functional
  <1>4. HalfOrWhole'
    BY <1>1, <1>2 DEF HalfOrWhole
  <1>5. StoredSoFar'
    <2> SUFFICES ASSUME NEW u \in Task, prep[u].k > 0
                 PROVE  /\ prep[u].i \in Places /\ prep[u].i < DevCount'
                        /\ \A n \in 1 .. 7 : n < prep[u].k =>
                             pool[prep[u].i][StoreOrder[n]] = (Filled(prep[u].i)[StoreOrder[n]])'
      BY <1>2 DEF StoredSoFar
    <2>1. /\ prep[u].i \in Places /\ prep[u].i < DevCount
          /\ \A n \in 1 .. 7 : n < prep[u].k =>
               pool[prep[u].i][StoreOrder[n]] = Filled(prep[u].i)[StoreOrder[n]]
      BY DEF StoredSoFar
    <2>2. Filled(prep[u].i)' = Filled(prep[u].i)
      <3> DEFINE i == prep[u].i
      <3>1. \A j \in Places : j < DevCount => Filled(j)' = Filled(j)
        BY <1>1
      <3>2. i' = i
        BY <1>2
      <3> QED
        BY <2>1, <3>1, <3>2
    <2>3. prep[u].i < DevCount'
      <3>1. prep[u].i \in Nat /\ prep[u].i < DevCount
        BY <1>2, <2>1
      <3>2. DevCount' = DevCount + 1 /\ DevCount \in Nat
        BY <1>1
      <3> QED
        BY <3>1, <3>2
    <2> QED
      BY <2>1, <2>2, <2>3
  <1>6. InodeWhole'
    <2> SUFFICES ASSUME NEW i \in Places, pool[i]["ino"] # 0
                 PROVE  i < DevCount' /\ pool[i] = Filled(i)'
      BY <1>2 DEF InodeWhole, Ready
    <2>1. i < DevCount /\ pool[i] = Filled(i) /\ i \in Nat
      BY <1>2 DEF InodeWhole, Ready
    <2> QED
      BY <1>1, <2>1
  <1>7. OneNamespace'
    <2>1. entries \in Seq(Drivers) /\ entries' = Append(entries, d)
      BY DEF DTypeOK, DevRegister
    <2>2. \A i \in DOMAIN entries :
            entries[i].name # d.name /\ <<entries[i].major, entries[i].minor>> # <<d.major, d.minor>>
      BY DEF DevRegister, DevAccepts, DevById
    <2>3. /\ DOMAIN entries' = 1 .. Len(entries) + 1 /\ DOMAIN entries = 1 .. Len(entries)
          /\ Len(entries) \in Nat /\ entries'[Len(entries) + 1] = d
          /\ \A i \in DOMAIN entries : entries'[i] = entries[i]
      BY <2>1
    <2>4. ASSUME NEW i \in DOMAIN entries', NEW j \in DOMAIN entries', i # j
          PROVE  /\ entries'[i].name # entries'[j].name
                 /\ <<entries'[i].major, entries'[i].minor>> # <<entries'[j].major, entries'[j].minor>>
      <3>1. CASE i \in DOMAIN entries /\ j \in DOMAIN entries
        BY <2>3, <2>4, <3>1 DEF OneNamespace
      <3>2. CASE i \in DOMAIN entries /\ j = Len(entries) + 1
        BY <2>2, <2>3, <3>2
      <3>3. CASE i = Len(entries) + 1 /\ j \in DOMAIN entries
        BY <2>2, <2>3, <3>3
      <3> QED
        BY <2>3, <2>4, <3>1, <3>2, <3>3
    <2> QED
      BY <2>4 DEF OneNamespace
  <1> QED
    BY <1>1, <1>3, <1>4, <1>5, <1>6, <1>7

LEMMA BeginPreserves ==
  ASSUME DInv, NEW t \in Task, NEW i \in Places, PreparaBegin(t, i)
  PROVE  DInv'
  <1> USE DEF DInv
  <1>1. entries' = entries /\ pool' = pool /\ prep' = [prep EXCEPT ![t] = [i |-> i, k |-> 1]]
    BY DEF PreparaBegin
  <1>2. i \in Nat /\ i < DevCount
    BY DevfsAssumption DEF PreparaBegin, Servable, Places
  <1>3. DTypeOK'
    BY <1>1, <1>2 DEF DTypeOK
  <1>6. DevCount' = DevCount /\ \A j : Filled(j)' = Filled(j)
    BY <1>1 DEF DevCount, Filled, Entry
  <1>4. Functional' /\ HalfOrWhole' /\ InodeWhole' /\ OneNamespace'
    BY <1>1, <1>6 DEF Functional, HalfOrWhole, InodeWhole, OneNamespace, Ready
  <1>5. StoredSoFar'
    <2> SUFFICES ASSUME NEW u \in Task, prep'[u].k > 0
                 PROVE  /\ prep'[u].i \in Places /\ prep'[u].i < DevCount
                        /\ \A n \in 1 .. 7 : n < prep'[u].k =>
                             pool[prep'[u].i][StoreOrder[n]] = Filled(prep'[u].i)[StoreOrder[n]]
      BY <1>1, <1>6 DEF StoredSoFar
    <2>1. CASE u = t
      BY <1>1, <1>2, <2>1 DEF DTypeOK
    <2>2. CASE u # t
      BY <1>1, <2>2 DEF DTypeOK, StoredSoFar
    <2> QED
      BY <2>1, <2>2
  <1> QED
    BY <1>3, <1>4, <1>5

LEMMA StorePreserves ==
  ASSUME DInv, NEW t \in Task, PreparaStore(t)
  PROVE  DInv'
         /\ \A i \in Places : Ready(i) => pool'[i] = pool[i]
  <1> USE DEF DInv
  <1> DEFINE p == prep[t].i
             k == prep[t].k
             f == StoreOrder[k]
  <1>1. /\ entries' = entries /\ k \in 1 .. 7 /\ p \in Places /\ p < DevCount /\ p \in Nat
        /\ \A n \in 1 .. 7 : n < k => pool[p][StoreOrder[n]] = Filled(p)[StoreOrder[n]]
    <2>1. entries' = entries /\ k # 0
      BY DEF PreparaStore, Free
    <2>2. k \in 0 .. 7 /\ p \in Nat
      BY DEF DTypeOK
    <2>3. k \in 1 .. 7 /\ k > 0
      BY <2>1, <2>2
    <2>4. /\ p \in Places /\ p < DevCount
          /\ \A n \in 1 .. 7 : n < k => pool[p][StoreOrder[n]] = Filled(p)[StoreOrder[n]]
      BY <2>3 DEF StoredSoFar
    <2> QED
      BY <2>1, <2>2, <2>3, <2>4
  <1>2. /\ pool' = [pool EXCEPT ![p] = [@ EXCEPT ![f] = Filled(p)[f]]]
        /\ prep' = [prep EXCEPT ![t] = [i |-> p, k |-> (k + 1) % 8]]
    BY OrderFacts DEF PreparaStore
  <1>3. f \in Fields
    BY <1>1, OrderFacts
  <1> HIDE DEF p, k, f
  <1>4. DOMAIN pool' = Places /\ \A i \in Places : i # p => pool'[i] = pool[i]
    BY <1>1, <1>2 DEF DTypeOK
  <1>5. pool'[p] = [g \in Fields |-> IF g = f THEN Filled(p)[f] ELSE pool[p][g]]
    <2>1. pool[p] = [g \in Fields |-> pool[p][g]]
      BY <1>1 DEF Functional
    <2>2. pool'[p] = [pool[p] EXCEPT ![f] = Filled(p)[f]]
      BY <1>1, <1>2 DEF DTypeOK
    <2> QED
      BY <1>3, <2>1, <2>2
  <1>6. k = 7 => pool'[p] = Filled(p)
    <2> SUFFICES ASSUME k = 7 PROVE pool'[p] = Filled(p)
      OBVIOUS
    <2>1. \A g \in Fields : g # f => pool[p][g] = Filled(p)[g]
      <3> SUFFICES ASSUME NEW g \in Fields, g # f PROVE pool[p][g] = Filled(p)[g]
        OBVIOUS
      <3>1. PICK n \in 1 .. 7 : StoreOrder[n] = g
        BY OrderFacts
      <3>2. n # 7
        BY <3>1 DEF f
      <3> QED
        BY <1>1, <3>1, <3>2
    <2> QED
      BY <1>5, <2>1, OrderFacts
  <1>7. Ready(p) => pool'[p] = pool[p]
    <2> SUFFICES ASSUME Ready(p) PROVE pool'[p] = pool[p]
      OBVIOUS
    <2>1. pool[p] = Filled(p)
      BY <1>1 DEF InodeWhole
    <2> QED
      BY <1>3, <1>5, <2>1, OrderFacts
  <1>8. pool'[p]["ino"] # 0 => pool'[p] = Filled(p)
    <2>1. CASE k = 7
      BY <1>6, <2>1
    <2>2. CASE k # 7
      <3>1. f # "ino"
        BY <1>1, <2>2, OrderFacts DEF f
      <3>2. pool'[p]["ino"] = pool[p]["ino"]
        BY <1>5, <3>1 DEF Fields
      <3>3. pool'[p]["ino"] # 0 => Ready(p)
        BY <3>2 DEF Ready
      <3> QED
        BY <1>1, <1>7, <3>3 DEF InodeWhole
    <2> QED
      BY <2>1, <2>2
  <1>9. DevCount' = DevCount /\ \A i : Filled(i)' = Filled(i)
    BY <1>1 DEF DevCount, Filled, Entry
  <1>10. DTypeOK'
    BY <1>1, <1>2, <1>4 DEF DTypeOK
  <1>11. Functional'
    BY <1>4, <1>5, <1>3 DEF Functional
  <1>12. HalfOrWhole'
    <2> SUFFICES ASSUME NEW i \in Places, NEW g \in Fields, pool'[i][g] # Unfilled[g]
                 PROVE  i < DevCount /\ pool'[i][g] = Filled(i)[g]
      BY <1>9 DEF HalfOrWhole
    <2>1. CASE i # p
      BY <1>4, <2>1 DEF HalfOrWhole
    <2>2. CASE i = p /\ g = f
      BY <1>1, <1>5, <2>2
    <2>3. CASE i = p /\ g # f
      BY <1>5, <2>3 DEF HalfOrWhole
    <2> QED
      BY <2>1, <2>2, <2>3
  <1>13. \A n \in 1 .. 7 : \A i \in Places :
           pool[i][StoreOrder[n]] = Filled(i)[StoreOrder[n]] =>
             pool'[i][StoreOrder[n]] = Filled(i)[StoreOrder[n]]
    BY <1>4, <1>5, OrderFacts
  <1>14. StoredSoFar'
    <2> SUFFICES ASSUME NEW u \in Task, prep'[u].k > 0
                 PROVE  /\ prep'[u].i \in Places /\ prep'[u].i < DevCount
                        /\ \A n \in 1 .. 7 : n < prep'[u].k =>
                             pool'[prep'[u].i][StoreOrder[n]] = Filled(prep'[u].i)[StoreOrder[n]]
      BY <1>9 DEF StoredSoFar
    <2>1. CASE u = t
      <3>1. prep'[u] = [i |-> p, k |-> (k + 1) % 8]
        BY <1>2, <2>1 DEF DTypeOK
      <3>2. k < 7 /\ prep'[u].k = k + 1
        BY <1>1, <3>1
      <3>3. ASSUME NEW n \in 1 .. 7, n < k + 1
            PROVE  pool'[p][StoreOrder[n]] = Filled(p)[StoreOrder[n]]
        <4>1. CASE n = k
          BY <1>3, <1>5, <4>1 DEF f
        <4>2. CASE n < k
          BY <1>1, <1>13, <4>2
        <4> QED
          BY <1>1, <3>3, <4>1, <4>2
      <3> QED
        BY <1>1, <3>1, <3>2, <3>3
    <2>2. CASE u # t
      <3>1. prep'[u] = prep[u]
        BY <1>2, <2>2 DEF DTypeOK
      <3> QED
        BY <1>13, <3>1 DEF StoredSoFar
    <2> QED
      BY <2>1, <2>2
  <1>15. InodeWhole'
    <2> SUFFICES ASSUME NEW i \in Places, Ready(i)'
                 PROVE  i < DevCount /\ pool'[i] = Filled(i)
      BY <1>9 DEF InodeWhole
    <2>1. CASE i = p
      BY <1>1, <1>8, <2>1 DEF Ready
    <2>2. CASE i # p
      BY <1>4, <2>2 DEF InodeWhole, Ready
    <2> QED
      BY <2>1, <2>2
  <1>16. OneNamespace'
    BY <1>1 DEF OneNamespace
  <1> QED
    BY <1>4, <1>7, <1>10, <1>11, <1>12, <1>14, <1>15, <1>16

LEMMA StepPreserves == DInv /\ [DNext]_devVars => DInv'
  <1> SUFFICES ASSUME DInv, [DNext]_devVars PROVE DInv'
    OBVIOUS
  <1>1. CASE \E d \in Drivers : DevRegister(d)
    BY <1>1, RegisterPreserves
  <1>2. CASE \E t \in Task : \E i \in Places : PreparaBegin(t, i)
    BY <1>2, BeginPreserves
  <1>3. CASE \E t \in Task : PreparaStore(t)
    BY <1>3, StorePreserves
  <1>4. CASE UNCHANGED devVars
    <2>1. entries' = entries /\ pool' = pool /\ prep' = prep
      BY <1>4 DEF devVars
    <2>2. DevCount' = DevCount /\ \A j : Filled(j)' = Filled(j)
      BY <2>1 DEF DevCount, Filled, Entry
    <2>3. DTypeOK' /\ Functional' /\ OneNamespace'
      BY <2>1 DEF DInv, DTypeOK, Functional, OneNamespace
    <2>4. HalfOrWhole' /\ InodeWhole'
      BY <2>1, <2>2 DEF DInv, HalfOrWhole, InodeWhole, Ready
    <2>5. StoredSoFar'
      BY <2>1, <2>2 DEF DInv, StoredSoFar
    <2> QED
      BY <2>3, <2>4, <2>5 DEF DInv
  <1> QED
    BY <1>1, <1>2, <1>3, <1>4 DEF DNext

(* The pool and the registry keep the invariant.                             *)
THEOREM DevfsInvariant == DSpec => []DInv
  <1> QED
    BY InitHolds, StepPreserves, PTL DEF DSpec

(* No lookup and no listing is ever handed an inode half filled, whatever    *)
(* tasks fill it at once (devfs.c:85-111).                                   *)
THEOREM DevfsInodeWhole == DSpec => []InodeWhole
  <1>1. DInv => InodeWhole
    BY DEF DInv
  <1> QED
    BY <1>1, DevfsInvariant, PTL

(* A name and a pair of numbers stand for one device (dev.c:13-51).          *)
THEOREM DevfsOneNamespace == DSpec => []OneNamespace
  <1>1. DInv => OneNamespace
    BY DEF DInv
  <1> QED
    BY <1>1, DevfsInvariant, PTL

(* A place of the registry and an inode handed out never change.             *)
THEOREM DevfsPlacesAreStable == DSpec => PlacesAreStable
  <1> DEFINE Stable == /\ Len(entries') >= Len(entries)
                       /\ \A i \in DOMAIN entries : entries'[i] = entries[i]
                       /\ \A i \in Places : Ready(i) => pool'[i] = pool[i]
  <1>1. DInv /\ [DNext]_devVars => [Stable]_devVars
    <2> SUFFICES ASSUME DInv, DNext PROVE Stable
      BY DEF devVars
    <2>0. entries \in Seq(Drivers)
      BY DEF DInv, DTypeOK
    <2>1. CASE \E d \in Drivers : DevRegister(d)
      <3>1. PICK d \in Drivers : DevRegister(d)
        BY <2>1
      <3>2. entries' = Append(entries, d) /\ pool' = pool
        BY <3>1 DEF DevRegister
      <3> QED
        BY <2>0, <3>2
    <2>2. CASE \E t \in Task : \E i \in Places : PreparaBegin(t, i)
      BY <2>0, <2>2 DEF PreparaBegin
    <2>3. CASE \E t \in Task : PreparaStore(t)
      <3>1. PICK t \in Task : PreparaStore(t)
        BY <2>3
      <3>2. entries' = entries
        BY <3>1 DEF PreparaStore
      <3> QED
        BY <2>0, <3>1, <3>2, StorePreserves
    <2> QED
      BY <2>1, <2>2, <2>3 DEF DNext
  <1> QED
    BY <1>1, DevfsInvariant, PTL DEF DSpec, PlacesAreStable


-----------------------------------------------------------------------------
(* Shell.  Around the commands: what prepara fills stands on something, what *)
(* is registered has a kind and a name, the tasks are the first slots.       *)
PoolServes ==
  /\ \A t \in Task : prep[t].k > 0 => Servable(prep[t].i)
  /\ \A i \in Places : Ready(i) => Servable(i)
  /\ \A i \in DOMAIN entries : entries[i].kind \in {"char", "block"} /\ entries[i].name # <<>>

SlotsFill ==
  /\ slots \in [Slot -> Esps \cup {NoTask}]
  /\ \E a \in 0 .. MAX_TASKS : \A i \in Slot : slots[i] # NoTask <=> i < a

Surroundings == DInv /\ PoolServes /\ SlotsFill /\ keys \in Seq(Keys)

(* The node a command has is what its path leads to.                         *)
Fits(c, node) ==
  \/ node = [is |-> "devdir", i |-> 0] /\ c.fs = "dev" /\ c.name = <<>>
  \/ node = [is |-> "procdir", i |-> 0] /\ c.fs = "proc" /\ c.name = <<>>
  \/ /\ node = [is |-> "taskdir", i |-> IndiceDaNome(c.name)] /\ c.fs = "proc" /\ c.name # <<>>
     /\ TaskAttivo(node.i)
  \/ node = [is |-> "status", i |-> IndiceDaNome(c.name)] /\ c.fs = "status" /\ TaskAttivo(node.i)
  \/ /\ node = [is |-> "device", i |-> node.i] /\ c.fs = "dev" /\ c.name # <<>>
     /\ node.i \in Places /\ Ready(node.i)

WantsDir(c) == c.fs = "proc" \/ (c.fs = "dev" /\ c.name = <<>>)

FirstTasks(n) == {PROC_INO_TASK(i) : i \in 0 .. n - 1}
WereThere(n) == n \in 0 .. MAX_TASKS /\ \A i \in 0 .. n - 1 : TaskAttivo(i)

(* What an ls must show is still there.                                      *)
DueFits(c, due) ==
  /\ c.fs = "dev" => \A x \in due : c.name = <<>> /\ \E p \in Places : Servable(p) /\ x = 3 + p
  /\ c.fs = "proc" /\ c.name = <<>> => \E n \in 0 .. MAX_TASKS : WereThere(n) /\ due = FirstTasks(n)
  /\ c.fs = "proc" /\ c.name # <<>> => due \subseteq {PROC_INO_STATUS(IndiceDaNome(c.name))}
  /\ c.fs = "status" => due = {}

(* A listing of /dev: the lines are those of places, in order, and of those  *)
(* up to the last one and up to i none is missing and none can come up.      *)
Passed(out, p) ==
  /\ Servable(p) => Ready(p)
  /\ Ready(p) => \E k \in DOMAIN out : out[k].ino = 3 + p

DevLines(node, out) ==
  /\ \A k \in DOMAIN out : \E p \in Places : Ready(p) /\ out[k] = Line(node, p)
  /\ \A j, k \in DOMAIN out : j < k => out[j].ino < out[k].ino
  /\ \A p \in Places, k \in DOMAIN out : 3 + p <= out[k].ino => Passed(out, p)

DevScan(d) ==
  /\ d.i <= DevCount /\ d.pos <= d.idx
  /\ \A p \in Places : p < d.i => Passed(d.out, p)
  /\ \A k \in DOMAIN d.out : k <= d.pos <=> d.out[k].ino < 3 + d.i

(* A listing of /proc: the tasks that were there come first, each in its     *)
(* place; the scan does not pass over one of them.                           *)
ProcLines(node, out, n) ==
  \A k \in DOMAIN out : \E p \in Slot :
    TaskAttivo(p) /\ out[k] = Line(node, p) /\ p >= k - 1 /\ (k <= n => p = k - 1)

ProcScan(d, n) ==
  /\ d.i <= MAX_TASKS /\ d.pos <= d.i /\ d.pos <= d.idx
  /\ (d.i <= n => d.pos = d.i) /\ (d.i >= n => d.pos >= n)

TaskLines(d) ==
  \/ d.out = <<>> /\ d.idx = 0 /\ d.i = 0 /\ d.pos = 0
  \/ d.out = <<Line(d.node, 0)>> /\ d.idx = 1 /\ d.i \in {0, 1} /\ d.pos = d.i

Listing(d) ==
  /\ d.idx = Len(d.out)
  /\ d.node.is = "devdir" => DevLines(d.node, d.out) /\ DevScan(d)
  /\ d.node.is = "procdir" =>
       \E n \in 0 .. MAX_TASKS : /\ WereThere(n) /\ d.due = FirstTasks(n)
                                 /\ ProcLines(d.node, d.out, n) /\ ProcScan(d, n)
  /\ d.node.is = "taskdir" => TaskLines(d)

Listed(d) ==
  /\ d.due \subseteq {d.out[k].ino : k \in DOMAIN d.out}
  /\ d.node.is = "devdir" => DevLines(d.node, d.out)
  /\ d.node.is = "procdir" =>
       \E n \in 0 .. MAX_TASKS : WereThere(n) /\ d.due = FirstTasks(n) /\ ProcLines(d.node, d.out, n)
  /\ d.node.is \in {"taskdir", "device", "status"} => DOMAIN d.out = {1}

(* What cat has printed so far: all of a status, what of a disk is behind    *)
(* the offset, of a device no newline yet.                                   *)
Below(d) == d.c.n = 0 \/ Len(d.out) < d.c.n

Printing(d, t) ==
  /\ Below(d)
  /\ d.node.is = "status" =>
       \/ d.out = <<>> /\ d.off = 0
       \/ (\E e \in Esps : d.out = StatusText(d.node.i, t, e)) /\ d.off = Len(d.out)
  /\ d.node.is = "device" /\ TypeOf(d.node) = "block" =>
       d.off <= Len(Content(d.node.i)) /\ d.out = SubSeq(Content(d.node.i), 1, d.off)
  /\ d.node.is = "device" /\ TypeOf(d.node) = "char" =>
       d.out \in Seq(Keys) /\ \A k \in DOMAIN d.out : d.out[k] # "nl"

CutTo(d, s) == SubSeq(s, 1, IF d.c.n = 0 \/ Len(s) < d.c.n THEN Len(s) ELSE d.c.n)

(* What a read was refused: all of it, or the sector it begins in.           *)
StartsIn(off, refused) == refused * SECTOR_SIZE <= off /\ off < refused * SECTOR_SIZE + SECTOR_SIZE

Refused(d, t) ==
  \/ "read" \notin Entry(d.node.i).caps
  \/ /\ TypeOf(d.node) = "block" /\ Printing(d, t)
     /\ d.off < Len(Content(d.node.i)) /\ StartsIn(d.off, d.refused)

Printed(d, t) ==
  CASE d.node.is = "status" -> \E e \in Esps : d.out = CutTo(d, StatusText(d.node.i, t, e))
    [] d.node.is = "device" /\ TypeOf(d.node) = "block" -> d.out = CutTo(d, Content(d.node.i))
    [] OTHER -> /\ \A k \in DOMAIN d.out : d.out[k] = "nl" => k = Len(d.out)
                /\ d.out # <<>> /\ (d.out[Len(d.out)] = "nl" \/ Len(d.out) = d.c.n)

IsCall(d) ==
  /\ d = [pc |-> d.pc, c |-> d.c, node |-> d.node, idx |-> d.idx, i |-> d.i, pos |-> d.pos,
          off |-> d.off, out |-> d.out, end |-> d.end, due |-> d.due,
          refused |-> d.refused]
  /\ d.pc \in {"idle", "resolve", "open", "list", "read", "done"}
  /\ d.idx \in Nat /\ d.i \in Nat /\ d.pos \in Nat /\ d.off \in Nat /\ d.refused \in Nat
  /\ \E S : d.out \in Seq(S)

Begun(pc, c, due) == [Idle EXCEPT !.pc = pc, !.c = c, !.due = due]

CallFits(t, d) ==
  /\ IsCall(d)
  /\ d.pc = "idle" => d = Idle
  /\ d.pc # "idle" => d.c \in Commands[t] /\ DueFits(d.c, d.due)
  /\ d.pc \in {"resolve", "open"} => d = Begun(d.pc, d.c, d.due)
  /\ d.pc = "open" => (d.c.cmd = "ls" <=> WantsDir(d.c))
  /\ d.pc = "list" => d.c.cmd = "ls" /\ d.end = "none" /\ IsDir(d.node) /\ Fits(d.c, d.node) /\ Listing(d)
  /\ d.pc = "read" => d.c.cmd = "cat" /\ d.end = "none" /\ ~IsDir(d.node) /\ Fits(d.c, d.node) /\ Printing(d, t)
  /\ d.pc = "done" => d.end \in {"ok", "missing", "directory", "noopen", "error"}
  /\ d.end = "error" => d.c.cmd = "cat" /\ Fits(d.c, d.node) /\ d.node.is = "device" /\ Refused(d, t)
  /\ d.pc = "done" /\ d.end = "ok" /\ d.c.cmd = "ls" => Fits(d.c, d.node) /\ Listed(d)
  /\ d.pc = "done" /\ d.end = "ok" /\ d.c.cmd = "cat" => ~IsDir(d.node) /\ Fits(d.c, d.node) /\ Printed(d, t)

ShellInv == Surroundings /\ call = [t \in Task |-> call[t]] /\ \A t \in Task : CallFits(t, call[t])

-----------------------------------------------------------------------------
(* What the surroundings never take back.                                    *)
Grows ==
  /\ Len(entries) <= Len(entries') /\ \A i \in DOMAIN entries : entries'[i] = entries[i]
  /\ \A i \in Places : Ready(i) => pool'[i] = pool[i]
  /\ \A i \in Places : Ready(i)' => Ready(i) \/ Servable(i)
  /\ \A i \in Slot : slots[i] # NoTask => slots'[i] # NoTask

LEMMA DevfsFacts ==
  ASSUME DInv
  PROVE  /\ entries \in Seq(Drivers) /\ DevCount \in Nat /\ DevCount <= DEV_MAX /\ DEV_MAX \in Nat
         /\ DOMAIN entries = 1 .. DevCount /\ Places \subseteq Nat
         /\ \A i \in Nat : i < DevCount => i \in Places /\ i + 1 \in DOMAIN entries /\ Entry(i) \in Drivers
         /\ \A i \in Places : Ready(i) => i < DevCount /\ pool[i] = Filled(i) /\ pool[i]["ino"] = 3 + i
  <1>1. entries \in Seq(Drivers) /\ Len(entries) <= DEV_MAX /\ DEV_MAX \in Nat
    BY DevfsAssumption DEF DInv, DTypeOK
  <1>2. DevCount \in Nat /\ DOMAIN entries = 1 .. DevCount /\ DevCount = Len(entries)
    BY <1>1 DEF DevCount
  <1>3. ASSUME NEW i \in Nat, i < DevCount
        PROVE  i \in Places /\ i + 1 \in DOMAIN entries /\ Entry(i) \in Drivers
    <2>1. i + 1 \in 1 .. DevCount /\ i \in Places
      BY <1>1, <1>2, <1>3 DEF Places
    <2> QED
      BY <1>1, <1>2, <2>1 DEF Entry
  <1>4. \A i \in Places : Ready(i) => i < DevCount /\ pool[i] = Filled(i) /\ pool[i]["ino"] = 3 + i
    BY OrderFacts DEF DInv, InodeWhole
  <1> QED
    BY <1>1, <1>2, <1>3, <1>4 DEF Places

LEMMA RegisterGrows ==
  ASSUME DInv, PoolServes, NEW d \in Drivers, DevRegister(d), slots' = slots
  PROVE  DInv' /\ PoolServes' /\ Grows
  <1>1. DInv'
    BY RegisterPreserves
  <1>2. /\ entries' = Append(entries, d) /\ pool' = pool /\ prep' = prep
        /\ d.kind \in {"char", "block"} /\ d.name # <<>>
    BY DEF DevRegister, DevAccepts
  <1>3. entries \in Seq(Drivers) /\ DevCount \in Nat /\ DevCount = Len(entries)
    BY DevfsFacts DEF DevCount
  <1>4. /\ Len(entries') = Len(entries) + 1 /\ DOMAIN entries' = 1 .. Len(entries) + 1
        /\ entries'[Len(entries) + 1] = d /\ \A i \in DOMAIN entries : entries'[i] = entries[i]
        /\ DOMAIN entries = 1 .. Len(entries)
    BY <1>2, <1>3
  <1>5. ASSUME NEW i \in Nat, Servable(i) PROVE Servable(i)'
    <2>1. i < DevCount /\ i + 1 \in DOMAIN entries /\ i < DevCount'
      BY <1>3, <1>4, <1>5 DEF Servable, DevCount
    <2>2. Entry(i)' = Entry(i)
      BY <1>4, <2>1 DEF Entry
    <2> QED
      BY <1>5, <2>1, <2>2 DEF Servable
  <1>6. \A i \in Places : i \in Nat
    BY DevfsAssumption DEF Places
  <1>7. \A i \in Places : Ready(i)' <=> Ready(i)
    BY <1>2 DEF Ready
  <1>8. \A i \in Places : Ready(i)' => Servable(i)'
    BY <1>5, <1>6, <1>7 DEF PoolServes
  <1>9. \A t \in Task : prep'[t].k > 0 => Servable(prep[t].i)'
    <2> SUFFICES ASSUME NEW t \in Task, prep[t].k > 0 PROVE Servable(prep[t].i)'
      BY <1>2
    <2>1. PICK i : i = prep[t].i
      OBVIOUS
    <2>2. i \in Nat /\ Servable(i)
      BY <2>1 DEF PoolServes, DInv, DTypeOK
    <2>3. Servable(i)'
      BY <1>5, <2>2
    <2>4. (i = prep[t].i)'
      BY <1>2, <2>1
    <2> QED
      BY <2>3, <2>4
  <1>10. \A i \in DOMAIN entries' : entries'[i].kind \in {"char", "block"} /\ entries'[i].name # <<>>
    <2> SUFFICES ASSUME NEW i \in 1 .. Len(entries) + 1
                 PROVE  entries'[i].kind \in {"char", "block"} /\ entries'[i].name # <<>>
      BY <1>4
    <2>1. CASE i = Len(entries) + 1
      BY <1>2, <1>4, <2>1
    <2>2. CASE i # Len(entries) + 1
      <3>1. i \in DOMAIN entries
        BY <1>3, <1>4, <2>2
      <3> QED
        BY <1>4, <3>1 DEF PoolServes
    <2> QED
      BY <2>1, <2>2
  <1>11. PoolServes'
    BY <1>2, <1>8, <1>9, <1>10 DEF PoolServes
  <1>12. Grows
    BY <1>2, <1>3, <1>4, <1>7 DEF Grows
  <1> QED
    BY <1>1, <1>11, <1>12


LEMMA BeginGrows ==
  ASSUME DInv, PoolServes, NEW t \in Task, NEW i \in Places, PreparaBegin(t, i), slots' = slots
  PROVE  DInv' /\ PoolServes' /\ Grows
  <1>1. DInv'
    BY BeginPreserves
  <1>2. /\ entries' = entries /\ pool' = pool /\ prep' = [prep EXCEPT ![t] = [i |-> i, k |-> 1]]
        /\ Servable(i)
    BY DEF PreparaBegin
  <1>3. /\ \A j : Servable(j)' <=> Servable(j)
        /\ \A j : Ready(j)' <=> Ready(j)
    BY <1>2 DEF Servable, Ready, DevCount, Entry
  <1>4. \A u \in Task : prep'[u].k > 0 => Servable(prep'[u].i)
    <2> SUFFICES ASSUME NEW u \in Task, prep'[u].k > 0 PROVE Servable(prep'[u].i)
      OBVIOUS
    <2>1. CASE u = t
      <3>1. prep'[u] = [i |-> i, k |-> 1]
        BY <1>2, <2>1 DEF DInv, DTypeOK
      <3> QED
        BY <1>2, <3>1
    <2>2. CASE u # t
      <3>1. prep'[u] = prep[u]
        BY <1>2, <2>2 DEF DInv, DTypeOK
      <3> QED
        BY <3>1 DEF PoolServes
    <2> QED
      BY <2>1, <2>2
  <1>5. PoolServes'
    <2>1. ASSUME NEW u \in Task, prep'[u].k > 0 PROVE Servable(prep[u].i)'
      <3>1. PICK j : j = prep'[u].i
        OBVIOUS
      <3>2. Servable(j)'
        BY <1>3, <1>4, <2>1, <3>1
      <3>3. (prep[u].i)' = j
        BY <3>1
      <3> QED
        BY <3>2, <3>3
    <2>2. \A j \in Places : Ready(j)' => Servable(j)'
      BY <1>3 DEF PoolServes
    <2> QED
      BY <1>2, <2>1, <2>2 DEF PoolServes
  <1>6. Len(entries') = Len(entries) /\ Len(entries) \in Nat
    BY <1>2, DevfsFacts DEF DevCount
  <1>7. Grows
    BY <1>2, <1>3, <1>6 DEF Grows
  <1> QED
    BY <1>1, <1>5, <1>7

LEMMA StoreGrows ==
  ASSUME DInv, PoolServes, NEW t \in Task, PreparaStore(t), slots' = slots
  PROVE  DInv' /\ PoolServes' /\ Grows
  <1>1. DInv' /\ \A i \in Places : Ready(i) => pool'[i] = pool[i]
    BY StorePreserves
  <1> DEFINE p == prep[t].i
             f == StoreOrder[prep[t].k]
  <1>2. /\ entries' = entries /\ prep[t].k > 0 /\ p \in Places /\ Servable(p)
        /\ pool' = [pool EXCEPT ![p] = [@ EXCEPT ![f] = Filled(p)[f]]]
        /\ prep' = [prep EXCEPT ![t] = [i |-> p, k |-> (prep[t].k + 1) % (Len(StoreOrder) + 1)]]
    <2>1. prep[t].k \in 0 .. 7 /\ prep[t].k # 0
      BY DEF DInv, DTypeOK, PreparaStore, Free
    <2>2. prep[t].k > 0
      BY <2>1
    <2> QED
      BY <2>2 DEF PreparaStore, PoolServes, DInv, StoredSoFar
  <1>3. \A j \in Places : j # p => (Ready(j)' <=> Ready(j))
    BY <1>2 DEF Ready, DInv, DTypeOK
  <1>4. \A j : Servable(j)' <=> Servable(j)
    BY <1>2 DEF Servable, DevCount, Entry
  <1>5. \A j \in Places : Ready(j)' => Ready(j) \/ Servable(j)
    BY <1>2, <1>3
  <1>6. \A u \in Task : prep'[u].k > 0 => Servable(prep'[u].i)
    <2> SUFFICES ASSUME NEW u \in Task, prep'[u].k > 0 PROVE Servable(prep'[u].i)
      OBVIOUS
    <2>1. CASE u = t
      <3>1. prep'[u].i = p
        BY <1>2, <2>1 DEF DInv, DTypeOK
      <3> QED
        BY <1>2, <3>1
    <2>2. CASE u # t
      <3>1. prep'[u] = prep[u]
        BY <1>2, <2>2 DEF DInv, DTypeOK
      <3> QED
        BY <3>1 DEF PoolServes
    <2> QED
      BY <2>1, <2>2
  <1>7. PoolServes'
    <2>1. ASSUME NEW u \in Task, prep'[u].k > 0 PROVE Servable(prep[u].i)'
      <3>1. PICK j : j = prep'[u].i
        OBVIOUS
      <3>2. Servable(j)'
        BY <1>4, <1>6, <2>1, <3>1
      <3>3. (prep[u].i)' = j
        BY <3>1
      <3> QED
        BY <3>2, <3>3
    <2>2. \A j \in Places : Ready(j)' => Servable(j)'
      BY <1>4, <1>5 DEF PoolServes
    <2> QED
      BY <1>2, <2>1, <2>2 DEF PoolServes
  <1>8. Len(entries') = Len(entries) /\ Len(entries) \in Nat
    BY <1>2, DevfsFacts DEF DevCount
  <1>9. Grows
    BY <1>1, <1>2, <1>5, <1>8 DEF Grows
  <1> QED
    BY <1>1, <1>7, <1>9

LEMMA RegistryRests ==
  ASSUME DInv, PoolServes, UNCHANGED devVars, \A i \in Slot : slots[i] # NoTask => slots'[i] # NoTask
  PROVE  DInv' /\ PoolServes' /\ Grows
  <1>1. DInv'
    BY StepPreserves
  <1>2. entries' = entries /\ pool' = pool /\ prep' = prep
    BY DEF devVars
  <1>3. (\A j : Servable(j)' <=> Servable(j)) /\ (\A j : Ready(j)' <=> Ready(j))
    BY <1>2 DEF Servable, Ready, DevCount, Entry
  <1>4. PoolServes'
    <2>1. ASSUME NEW u \in Task, prep[u].k > 0 PROVE Servable(prep[u].i)'
      <3>1. PICK j : j = prep[u].i
        OBVIOUS
      <3>2. Servable(j)'
        BY <1>3, <2>1, <3>1 DEF PoolServes
      <3>3. (prep[u].i)' = j
        BY <1>2, <3>1
      <3> QED
        BY <3>2, <3>3
    <2> QED
      BY <1>2, <1>3, <2>1 DEF PoolServes
  <1>5. Len(entries') = Len(entries) /\ Len(entries) \in Nat
    BY <1>2, DevfsFacts DEF DevCount
  <1>6. Grows
    BY <1>2, <1>3, <1>5 DEF Grows
  <1> QED
    BY <1>1, <1>4, <1>6

(* A new task takes the first free slot, and no slot is ever freed.          *)
LEMMA CreatedFills ==
  ASSUME SlotsFill, NEW i \in Slot, TaskCreated(i) \/ EspSaved(i)
  PROVE  SlotsFill' /\ \A j \in Slot : slots[j] # NoTask => slots'[j] # NoTask
  <1>1. PICK a \in 0 .. MAX_TASKS : \A j \in Slot : slots[j] # NoTask <=> j < a
    BY DEF SlotsFill
  <1>2. PICK e \in Esps : slots' = [slots EXCEPT ![i] = e]
    BY DEF TaskCreated, EspSaved
  <1>3. MAX_TASKS \in Nat /\ Slot \subseteq Nat /\ e # NoTask /\ \A j \in Slot : j < MAX_TASKS
    BY ProcfsAssumption DEF Slot
  <1>4. /\ slots' \in [Slot -> Esps \cup {NoTask}]
        /\ slots'[i] = e /\ \A j \in Slot : j # i => slots'[j] = slots[j]
    BY <1>2 DEF SlotsFill
  <1>5. CASE EspSaved(i)
    <2>1. \A j \in Slot : slots'[j] # NoTask <=> j < a
      BY <1>1, <1>3, <1>4, <1>5 DEF EspSaved, TaskAttivo
    <2> QED
      BY <1>1, <1>3, <1>4, <2>1 DEF SlotsFill
  <1>6. CASE TaskCreated(i)
    <2>1. i = a
      <3>1. ~(i < a) /\ \A j \in Slot : j < i => j < a
        BY <1>1, <1>6 DEF TaskCreated
      <3>2. ~(a < i)
        <4> SUFFICES ASSUME a < i PROVE FALSE
          OBVIOUS
        <4>1. a \in Slot
          BY <1>3 DEF Slot
        <4> QED
          BY <1>3, <3>1, <4>1
      <3> QED
        BY <1>3, <3>1, <3>2
    <2>2. \A j \in Slot : slots'[j] # NoTask <=> j < a + 1
      <3> SUFFICES ASSUME NEW j \in Slot PROVE slots'[j] # NoTask <=> j < a + 1
        OBVIOUS
      <3>1. CASE j = i
        BY <1>3, <1>4, <2>1, <3>1
      <3>2. CASE j # i
        BY <1>1, <1>3, <1>4, <2>1, <3>2
      <3> QED
        BY <3>1, <3>2
    <2>3. a + 1 \in 0 .. MAX_TASKS
      BY <1>3, <2>1
    <2> QED
      BY <1>1, <1>3, <1>4, <2>1, <2>2, <2>3 DEF SlotsFill
  <1> QED
    BY <1>5, <1>6


(* What was seen of the registry and of the table stays so.                  *)
LEMMA RegistryKept ==
  ASSUME DInv, DInv', Grows
  PROVE  /\ DevCount <= DevCount' /\ DevCount' \in Nat
         /\ \A i \in Nat : i < DevCount => Entry(i)' = Entry(i) /\ (Servable(i)' <=> Servable(i))
         /\ \A i \in Nat : Servable(i) => i < DevCount
         /\ \A i \in Places : Ready(i) => Ready(i)' /\ pool'[i] = pool[i]
  <1>1. DevCount \in Nat /\ DevCount' \in Nat /\ DevCount <= DevCount' /\ DOMAIN entries = 1 .. DevCount
    BY DevfsFacts DEF Grows, DevCount, DInv, DTypeOK
  <1>2. ASSUME NEW i \in Nat, i < DevCount
        PROVE  Entry(i)' = Entry(i) /\ (Servable(i)' <=> Servable(i))
    <2>1. i + 1 \in DOMAIN entries
      BY <1>1, <1>2
    <2>2. Entry(i)' = Entry(i)
      BY <2>1 DEF Grows, Entry
    <2>3. i < DevCount'
      BY <1>1, <1>2
    <2> QED
      BY <1>2, <2>2, <2>3 DEF Servable
  <1>3. \A i \in Places : Ready(i) => Ready(i)' /\ pool'[i] = pool[i]
    BY DEF Grows, Ready
  <1> QED
    BY <1>1, <1>2, <1>3 DEF Servable

LEMMA TasksKept ==
  ASSUME Grows
  PROVE  /\ \A i : TaskAttivo(i) => TaskAttivo(i)'
         /\ \A n : WereThere(n) => WereThere(n)'
  <1>1. \A i : TaskAttivo(i) => TaskAttivo(i)'
    BY DEF Grows, TaskAttivo
  <1> QED
    BY <1>1 DEF WereThere

LEMMA FitsKept ==
  ASSUME DInv, DInv', Grows, NEW c, NEW node, Fits(c, node)
  PROVE  Fits(c, node)'
  BY RegistryKept, TasksKept DEF Fits

LEMMA DueKept ==
  ASSUME DInv, DInv', Grows, NEW c, NEW due, DueFits(c, due)
  PROVE  DueFits(c, due)'
  <1>1. \A p \in Places : Servable(p) => Servable(p)'
    BY RegistryKept, DevfsFacts
  <1>2. \A n : WereThere(n) => WereThere(n)'
    BY TasksKept
  <1> QED
    BY <1>1, <1>2 DEF DueFits

LEMMA PassedKept ==
  ASSUME DInv, DInv', Grows, NEW out, NEW p \in Places, p < DevCount, Passed(out, p)
  PROVE  Passed(out, p)'
  <1>1. Servable(p)' => Servable(p)
    BY RegistryKept, DevfsFacts
  <1>2. Ready(p)' => Ready(p) \/ Servable(p)
    BY DEF Grows
  <1>3. Ready(p) => Ready(p)'
    BY RegistryKept
  <1> QED
    BY <1>1, <1>2, <1>3 DEF Passed

LEMMA LineKept ==
  ASSUME DInv, DInv', Grows, NEW node, NEW p, node.is = "devdir" => p \in Places /\ Ready(p)
  PROVE  Line(node, p)' = Line(node, p)
  <1>1. CASE node.is = "devdir"
    <2>1. Entry(p)' = Entry(p) /\ pool'[p] = pool[p]
      BY <1>1, RegistryKept, DevfsFacts
    <2> QED
      BY <1>1, <2>1 DEF Line, Truncated
  <1>2. CASE node.is # "devdir"
    BY <1>2 DEF Line
  <1> QED
    BY <1>1, <1>2

LEMMA DevLinesIno ==
  ASSUME DInv, NEW node, node.is = "devdir", NEW out, DevLines(node, out), NEW k \in DOMAIN out
  PROVE  \E p \in Places : Ready(p) /\ p < DevCount /\ out[k] = Line(node, p) /\ out[k].ino = 3 + p
  <1>1. PICK p \in Places : Ready(p) /\ out[k] = Line(node, p)
    BY DEF DevLines
  <1>2. p < DevCount /\ pool[p]["ino"] = 3 + p
    BY <1>1, DevfsFacts
  <1>3. out[k].ino = 3 + p
    BY <1>1, <1>2 DEF Line
  <1> QED
    BY <1>1, <1>2, <1>3

LEMMA DevLinesKept ==
  ASSUME DInv, DInv', Grows, NEW node, node.is = "devdir", NEW out, DevLines(node, out)
  PROVE  DevLines(node, out)'
  <1>1. ASSUME NEW k \in DOMAIN out
        PROVE  \E p \in Places : Ready(p)' /\ out[k] = Line(node, p)'
    <2>1. PICK p \in Places : Ready(p) /\ out[k] = Line(node, p)
      BY DEF DevLines
    <2>2. Line(node, p)' = Line(node, p)
      BY <2>1, LineKept
    <2>3. Ready(p)'
      BY <2>1, RegistryKept
    <2> QED
      BY <2>1, <2>2, <2>3
  <1>2. ASSUME NEW p \in Places, NEW k \in DOMAIN out, 3 + p <= out[k].ino
        PROVE  Passed(out, p)'
    <2>1. PICK q \in Places : q < DevCount /\ out[k].ino = 3 + q
      BY DevLinesIno
    <2>2. p < DevCount
      BY <1>2, <2>1, DevfsFacts
    <2>3. Passed(out, p)
      BY <1>2 DEF DevLines
    <2> QED
      BY <2>2, <2>3, PassedKept
  <1> QED
    BY <1>1, <1>2 DEF DevLines

LEMMA DevScanKept ==
  ASSUME DInv, DInv', Grows, NEW d, d.i \in Nat, DevScan(d)
  PROVE  DevScan(d)'
  <1>1. d.i <= DevCount'
    BY RegistryKept, DevfsFacts DEF DevScan
  <1>2. ASSUME NEW p \in Places, p < d.i PROVE Passed(d.out, p)'
    <2>1. p < DevCount /\ Passed(d.out, p)
      BY <1>2, DevfsFacts DEF DevScan
    <2>2. PICK out : out = d.out
      OBVIOUS
    <2>3. Passed(out, p)'
      BY <2>1, <2>2, PassedKept
    <2> QED
      BY <2>2, <2>3
  <1> QED
    BY <1>1, <1>2 DEF DevScan

LEMMA ProcLinesKept ==
  ASSUME DInv, DInv', Grows, NEW node, node.is = "procdir", NEW out, NEW n, ProcLines(node, out, n)
  PROVE  ProcLines(node, out, n)'
  <1>1. ASSUME NEW k \in DOMAIN out
        PROVE  \E p \in Slot : TaskAttivo(p)' /\ out[k] = Line(node, p)' /\ p >= k - 1 /\ (k <= n => p = k - 1)
    <2>1. PICK p \in Slot : TaskAttivo(p) /\ out[k] = Line(node, p) /\ p >= k - 1 /\ (k <= n => p = k - 1)
      BY DEF ProcLines
    <2>2. Line(node, p)' = Line(node, p)
      BY LineKept
    <2>3. TaskAttivo(p)'
      BY <2>1, TasksKept
    <2> QED
      BY <2>1, <2>2, <2>3
  <1> QED
    BY <1>1 DEF ProcLines

LEMMA ListingKept ==
  ASSUME DInv, DInv', Grows, NEW d, IsCall(d), Listing(d)
  PROVE  Listing(d)'
  <1>1. PICK node, out : node = d.node /\ out = d.out
    OBVIOUS
  <1>2. ASSUME node.is = "devdir" PROVE DevLines(node, out)' /\ DevScan(d)'
    <2>1. DevLines(node, out) /\ DevScan(d) /\ d.i \in Nat
      BY <1>1, <1>2 DEF Listing, IsCall
    <2> QED
      BY <1>2, <2>1, DevLinesKept, DevScanKept
  <1>3. ASSUME node.is = "procdir"
        PROVE  \E n \in 0 .. MAX_TASKS : /\ WereThere(n)' /\ d.due = FirstTasks(n)
                                         /\ ProcLines(node, out, n)' /\ ProcScan(d, n)
    <2>1. PICK n \in 0 .. MAX_TASKS : /\ WereThere(n) /\ d.due = FirstTasks(n)
                                      /\ ProcLines(node, out, n) /\ ProcScan(d, n)
      BY <1>1, <1>3 DEF Listing
    <2>2. WereThere(n)' /\ ProcLines(node, out, n)'
      BY <1>3, <2>1, TasksKept, ProcLinesKept
    <2> QED
      BY <2>1, <2>2
  <1>4. ASSUME node.is = "taskdir" PROVE TaskLines(d)'
    BY <1>1, <1>4 DEF Listing, TaskLines, Line
  <1>5. d.idx = Len(d.out)
    BY DEF Listing
  <1> HIDE DEF DevLines, DevScan, ProcLines, TaskLines
  <1> QED
    BY <1>1, <1>2, <1>3, <1>4, <1>5 DEF Listing, ProcScan, FirstTasks, PROC_INO_TASK

LEMMA ListedKept ==
  ASSUME DInv, DInv', Grows, NEW d, Listed(d)
  PROVE  Listed(d)'
  <1>1. PICK node, out : node = d.node /\ out = d.out
    OBVIOUS
  <1>2. ASSUME node.is = "devdir" PROVE DevLines(node, out)'
    BY <1>1, <1>2, DevLinesKept DEF Listed
  <1>3. ASSUME node.is = "procdir"
        PROVE  \E n \in 0 .. MAX_TASKS : WereThere(n)' /\ d.due = FirstTasks(n) /\ ProcLines(node, out, n)'
    <2>1. PICK n \in 0 .. MAX_TASKS : WereThere(n) /\ d.due = FirstTasks(n) /\ ProcLines(node, out, n)
      BY <1>1, <1>3 DEF Listed
    <2>2. WereThere(n)' /\ ProcLines(node, out, n)'
      BY <1>3, <2>1, TasksKept, ProcLinesKept
    <2> QED
      BY <2>1, <2>2
  <1>4. /\ d.due \subseteq {d.out[k].ino : k \in DOMAIN d.out}
        /\ d.node.is \in {"taskdir", "device", "status"} => DOMAIN d.out = {1}
    BY DEF Listed
  <1> QED
    BY <1>1, <1>2, <1>3, <1>4 DEF Listed, FirstTasks, PROC_INO_TASK

(* What cat reads of a device does not change either.                        *)
LEMMA ContentKept ==
  ASSUME DInv, DInv', Grows, NEW c, NEW node, Fits(c, node)
  PROVE  TypeOf(node)' = TypeOf(node) /\ (node.is = "device" => Content(node.i)' = Content(node.i)
                                             /\ Entry(node.i)' = Entry(node.i))
  <1>1. CASE node.is = "device"
    <2>1. node.i \in Places /\ Ready(node.i)
      BY <1>1 DEF Fits
    <2>2. pool'[node.i] = pool[node.i] /\ Entry(node.i)' = Entry(node.i)
      BY <2>1, RegistryKept, DevfsFacts
    <2> QED
      BY <2>2 DEF TypeOf, IsDir, Content
  <1>2. CASE node.is # "device"
    BY <1>2 DEF TypeOf, IsDir, Fits
  <1> QED
    BY <1>1, <1>2

LEMMA PrintingKept ==
  ASSUME DInv, DInv', Grows, NEW t, NEW d, Fits(d.c, d.node), Printing(d, t)
  PROVE  Printing(d, t)'
  <1>1. PICK node : node = d.node
    OBVIOUS
  <1>2. TypeOf(node)' = TypeOf(node) /\ (node.is = "device" => Content(node.i)' = Content(node.i))
    BY <1>1, ContentKept
  <1> QED
    BY <1>1, <1>2 DEF Printing, Below, StatusText

LEMMA PrintedKept ==
  ASSUME DInv, DInv', Grows, NEW t, NEW d, Fits(d.c, d.node), Printed(d, t)
  PROVE  Printed(d, t)'
  <1>1. PICK node : node = d.node
    OBVIOUS
  <1>2. TypeOf(node)' = TypeOf(node) /\ (node.is = "device" => Content(node.i)' = Content(node.i))
    BY <1>1, ContentKept
  <1> QED
    BY <1>1, <1>2 DEF Printed, CutTo, StatusText

(* A command stands where it stood, whatever happens around it.              *)
LEMMA CallKept ==
  ASSUME DInv, DInv', Grows, NEW t, NEW d, CallFits(t, d)
  PROVE  CallFits(t, d)'
  <1>1. PICK c, node, due : c = d.c /\ node = d.node /\ due = d.due
    OBVIOUS
  <1>2. IsCall(d)
    BY DEF CallFits
  <1>3. IsCall(d)'
    BY <1>2 DEF IsCall
  <1>4. DueFits(c, due) => DueFits(c, due)'
    BY DueKept
  <1>5. Fits(c, node) => Fits(c, node)'
    BY FitsKept
  <1>6. Listing(d) => Listing(d)'
    BY <1>2, ListingKept
  <1>7. Listed(d) => Listed(d)'
    BY ListedKept
  <1>8. Fits(d.c, d.node) /\ Printing(d, t) => Printing(d, t)'
    BY PrintingKept
  <1>9. Fits(d.c, d.node) /\ Printed(d, t) => Printed(d, t)'
    BY PrintedKept
  <1>10. ASSUME Fits(d.c, d.node), d.node.is = "device", Refused(d, t) PROVE Refused(d, t)'
    <2>1. TypeOf(node)' = TypeOf(node) /\ Content(node.i)' = Content(node.i) /\ Entry(node.i)' = Entry(node.i)
      BY <1>1, <1>10, ContentKept
    <2>2. Printing(d, t) => Printing(d, t)'
      BY <1>8, <1>10
    <2>3. CASE "read" \notin Entry(node.i).caps
      BY <1>1, <2>1, <2>3 DEF Refused
    <2>4. CASE "read" \in Entry(node.i).caps
      <3>1. /\ TypeOf(node) = "block" /\ Printing(d, t) /\ d.off < Len(Content(node.i))
            /\ StartsIn(d.off, d.refused)
        BY <1>1, <1>10, <2>4 DEF Refused
      <3>2. /\ TypeOf(d.node)' = "block" /\ Printing(d, t)' /\ (d.off < Len(Content(d.node.i)))'
            /\ StartsIn(d.off, d.refused)'
        BY <1>1, <2>1, <2>2, <3>1 DEF StartsIn
      <3> QED
        BY <3>2 DEF Refused
    <2> QED
      BY <2>3, <2>4
  <1> QED
    BY <1>1, <1>3, <1>4, <1>5, <1>6, <1>7, <1>8, <1>9, <1>10 DEF CallFits, IsDir, WantsDir, Idle, Nothing


-----------------------------------------------------------------------------
(* What a path leads to, once what it wants filled is filled.                *)
Command(c) ==
  /\ c = [cmd |-> c.cmd, fs |-> c.fs, name |-> c.name, n |-> c.n]
  /\ c.cmd \in {"ls", "cat"} /\ c.fs \in {"dev", "proc", "status"} /\ c.n \in Nat

NoneWanted(i) == ~(i < DevCount /\ ~Ready(i) /\ Servable(i))

PathFilled(c) == c.fs = "dev" /\ c.name # <<>> => NoneWanted(DevLookupIndex(c.name))

LeadsTo(c, node) == node = Nothing \/ (Fits(c, node) /\ node # Nothing /\ (IsDir(node) <=> WantsDir(c)))

LEMMA LookupIs ==
  ASSUME DInv, NEW name
  PROVE  \/ DevLookupIndex(name) = DEV_MAX
         \/ /\ DevLookupIndex(name) \in Places /\ DevLookupIndex(name) < DevCount
            /\ DevLookupIndex(name) # DEV_MAX
            /\ Entry(DevLookupIndex(name)).name = name
  <1>1. CASE \E i \in DOMAIN entries : entries[i].name = name
    <2>1. PICK k : k = CHOOSE i \in DOMAIN entries : entries[i].name = name
      OBVIOUS
    <2>2. k \in DOMAIN entries /\ entries[k].name = name
      BY <1>1, <2>1
    <2>3. DevLookupIndex(name) = k - 1
      BY <1>1, <2>1 DEF DevLookupIndex
    <2>4. k \in 1 .. DevCount /\ DevCount \in Nat /\ DevCount <= DEV_MAX /\ DEV_MAX \in Nat
      BY <2>2, DevfsFacts
    <2>5. k - 1 + 1 = k /\ k - 1 \in Places /\ k - 1 < DevCount /\ k - 1 # DEV_MAX
      BY <2>4 DEF Places
    <2> QED
      BY <2>2, <2>3, <2>5 DEF Entry
  <1>2. CASE ~\E i \in DOMAIN entries : entries[i].name = name
    BY <1>2 DEF DevLookupIndex
  <1> QED
    BY <1>1, <1>2

LEMMA RootLookupIs ==
  ASSUME NEW name
  PROVE  \/ RootLookup(name) = MAX_TASKS
         \/ RootLookup(name) = IndiceDaNome(name) /\ TaskAttivo(IndiceDaNome(name))
            /\ RootLookup(name) # MAX_TASKS
  BY ProcfsAssumption DEF RootLookup, TaskAttivo, Slot

LEMMA NodeIs ==
  ASSUME DInv, NEW c, Command(c), PathFilled(c)
  PROVE  LeadsTo(c, NodeOf(c))
  <1>1. CASE c.fs = "dev" /\ c.name = <<>>
    BY <1>1 DEF NodeOf, DevLookup, LeadsTo, Fits, IsDir, WantsDir, Nothing
  <1>2. CASE c.fs = "dev" /\ c.name # <<>>
    <2>1. PICK i : i = DevLookupIndex(c.name)
      OBVIOUS
    <2>2. NodeOf(c) = IF i # DEV_MAX /\ (Ready(i) \/ Servable(i)) THEN [is |-> "device", i |-> i] ELSE Nothing
      BY <1>2, <2>1 DEF NodeOf, DevLookup
    <2>3. i # DEV_MAX /\ (Ready(i) \/ Servable(i)) => i \in Places /\ Ready(i)
      BY <1>2, <2>1, LookupIs DEF PathFilled, NoneWanted
    <2> QED
      BY <1>2, <2>2, <2>3 DEF LeadsTo, Fits, IsDir, WantsDir, Nothing
  <1>3. CASE c.fs = "proc" /\ c.name = <<>>
    BY <1>3 DEF NodeOf, DevLookup, LeadsTo, Fits, IsDir, WantsDir, Nothing
  <1>4. CASE c.fs = "status" \/ (c.fs = "proc" /\ c.name # <<>>)
    <2>1. PICK i : i = RootLookup(c.name)
      OBVIOUS
    <2>2. NodeOf(c) = IF i = MAX_TASKS THEN Nothing
                      ELSE [is |-> IF c.fs = "proc" THEN "taskdir" ELSE "status", i |-> i]
      BY <1>4, <2>1 DEF NodeOf, DevLookup
    <2>3. i = MAX_TASKS \/ (i = IndiceDaNome(c.name) /\ TaskAttivo(i) /\ i # MAX_TASKS)
      BY <2>1, RootLookupIs
    <2> QED
      BY <1>4, <2>2, <2>3 DEF LeadsTo, Fits, IsDir, WantsDir, Nothing
  <1> QED
    BY <1>1, <1>2, <1>3, <1>4 DEF Command

LEMMA DueIs ==
  ASSUME DInv, SlotsFill, NEW c, Command(c)
  PROVE  DueFits(c, DueOf(c))
  <1>1. WereThere(0) /\ FirstTasks(0) = {} /\ 0 \in 0 .. MAX_TASKS
    BY ProcfsAssumption DEF WereThere, FirstTasks
  <1>2. CASE c.cmd # "ls"
    BY <1>1, <1>2 DEF DueOf, DueFits
  <1>3. CASE c.cmd = "ls" /\ c.fs = "dev" /\ c.name = <<>>
    <2>1. DueOf(c) = {3 + i : i \in {j \in Places : Servable(j)}}
      BY <1>3 DEF DueOf, NodeOf, DevLookup
    <2> QED
      BY <1>3, <2>1 DEF DueFits
  <1>4. CASE c.cmd = "ls" /\ c.fs = "dev" /\ c.name # <<>>
    <2>1. NodeOf(c).is \in {"device", "nothing"}
      BY <1>4 DEF NodeOf, DevLookup, Nothing
    <2>2. DueOf(c) = {}
      BY <1>4, <2>1 DEF DueOf
    <2> QED
      BY <1>4, <2>2 DEF DueFits
  <1>5. CASE c.cmd = "ls" /\ c.fs = "proc" /\ c.name = <<>>
    <2>1. DueOf(c) = {PROC_INO_TASK(i) : i \in {j \in Slot : TaskAttivo(j)}}
      BY <1>5 DEF DueOf, NodeOf, DevLookup
    <2>2. PICK a \in 0 .. MAX_TASKS : \A i \in Slot : slots[i] # NoTask <=> i < a
      BY DEF SlotsFill
    <2>3. {j \in Slot : TaskAttivo(j)} = 0 .. a - 1
      BY <2>2, ProcfsAssumption DEF Slot, TaskAttivo
    <2>4. WereThere(a)
      BY <2>3 DEF WereThere
    <2>5. DueOf(c) = FirstTasks(a)
      BY <2>1, <2>3 DEF FirstTasks
    <2> QED
      BY <1>5, <2>4, <2>5 DEF DueFits
  <1>6. CASE c.cmd = "ls" /\ (c.fs = "status" \/ (c.fs = "proc" /\ c.name # <<>>))
    <2>1. PICK i : i = RootLookup(c.name)
      OBVIOUS
    <2>2. NodeOf(c) = IF i = MAX_TASKS THEN Nothing
                      ELSE [is |-> IF c.fs = "proc" THEN "taskdir" ELSE "status", i |-> i]
      BY <1>6, <2>1 DEF NodeOf, DevLookup
    <2>3. i = MAX_TASKS \/ i = IndiceDaNome(c.name)
      BY <2>1, RootLookupIs
    <2>4. c.fs = "status" => DueOf(c) = {}
      BY <1>6, <2>2 DEF DueOf, Nothing
    <2>5. c.fs = "proc" => DueOf(c) \subseteq {PROC_INO_STATUS(IndiceDaNome(c.name))}
      BY <1>6, <2>2, <2>3 DEF DueOf, Nothing
    <2> QED
      BY <1>6, <2>4, <2>5 DEF DueFits
  <1> QED
    BY <1>2, <1>3, <1>4, <1>5, <1>6 DEF Command

LEMMA CommandIs == \A t \in Task : \A c \in Commands[t] : Command(c)
  BY ShellAssumption DEF Command


-----------------------------------------------------------------------------
(* Each thing a command does leaves it where it fits.                        *)
LEMMA IdleFits == \A t : CallFits(t, Idle)
  <1>1. IsCall(Idle)
    <2>1. Idle.out \in Seq({})
      BY DEF Idle
    <2>2. Idle = [pc |-> Idle.pc, c |-> Idle.c, node |-> Idle.node, idx |-> Idle.idx, i |-> Idle.i, pos |-> Idle.pos,
                  off |-> Idle.off, out |-> Idle.out, end |-> Idle.end, due |-> Idle.due,
                  refused |-> Idle.refused]
      BY DEF Idle
    <2>3. Idle.pc = "idle" /\ Idle.idx = 0 /\ Idle.i = 0 /\ Idle.pos = 0 /\ Idle.off = 0 /\ Idle.refused = 0
      BY DEF Idle
    <2> QED
      BY <2>1, <2>2, <2>3 DEF IsCall
  <1>2. Idle.pc = "idle" /\ Idle.end = "none"
    BY DEF Idle
  <1> QED
    BY <1>1, <1>2 DEF CallFits

LEMMA BegunIs ==
  ASSUME NEW pc, NEW x, NEW due
  PROVE  Begun(pc, x, due) =
           [pc |-> pc, c |-> x, node |-> Nothing, idx |-> 0, i |-> 0, pos |-> 0,
            off |-> 0, out |-> <<>>, end |-> "none", due |-> due,
            refused |-> 0]
  <1>1. ASSUME NEW p, NEW none, NEW nil, NEW z, NEW nought, NEW end, NEW empty, NEW d, NEW e,
               d = [pc |-> p, c |-> none, node |-> nil, idx |-> z, i |-> z, pos |-> z,
                    off |-> z, out |-> nought, end |-> end, due |-> empty,
                    refused |-> z],
               e = [d EXCEPT !.pc = pc, !.c = x, !.due = due]
        PROVE  e = [pc |-> pc, c |-> x, node |-> nil, idx |-> z, i |-> z, pos |-> z,
                    off |-> z, out |-> nought, end |-> end, due |-> due,
                    refused |-> z]
    BY <1>1
  <1>2. PICK p, none, nil, z, nought, end, empty, d, e :
          /\ p = "idle" /\ none = [cmd |-> "none"] /\ nil = Nothing /\ z = 0 /\ nought = <<>> /\ end = "none"
          /\ empty = {} /\ d = Idle /\ e = Begun(pc, x, due)
    OBVIOUS
  <1>3. d = [pc |-> p, c |-> none, node |-> nil, idx |-> z, i |-> z, pos |-> z,
             off |-> z, out |-> nought, end |-> end, due |-> empty,
             refused |-> z]
    BY <1>2, Zenon DEF Idle
  <1>4. e = [d EXCEPT !.pc = pc, !.c = x, !.due = due]
    BY <1>2, Zenon DEF Begun
  <1>5. e = [pc |-> pc, c |-> x, node |-> nil, idx |-> z, i |-> z, pos |-> z,
             off |-> z, out |-> nought, end |-> end, due |-> due,
             refused |-> z]
    BY <1>1, <1>3, <1>4, Zenon
  <1> QED
    BY <1>2, <1>5, Zenon

LEMMA AskFits ==
  ASSUME DInv, SlotsFill, NEW t \in Task, NEW c \in Commands[t]
  PROVE  CallFits(t, Begun("resolve", c, DueOf(c)))
  <1>1. PICK due, e : due = DueOf(c) /\ e = Begun("resolve", c, due)
    OBVIOUS
  <1>2. DueFits(c, due)
    BY <1>1, CommandIs, DueIs
  <1>3. e = [pc |-> "resolve", c |-> c, node |-> Nothing, idx |-> 0, i |-> 0, pos |-> 0,
             off |-> 0, out |-> <<>>, end |-> "none", due |-> due,
             refused |-> 0]
    BY <1>1, BegunIs
  <1>4. IsCall(e)
    <2>1. e.out \in Seq({})
      BY <1>3
    <2> QED
      BY <1>3, <2>1 DEF IsCall
  <1>6. e.pc = "resolve" /\ e.c = c /\ e.due = due /\ e.end = "none"
    BY <1>3
  <1>5. e = Begun(e.pc, e.c, e.due)
    BY <1>1, <1>6
  <1>7. CallFits(t, e)
    BY <1>2, <1>4, <1>5, <1>6 DEF CallFits
  <1> QED
    BY <1>1, <1>7

(* What ends with something said, and nothing listed nor printed.            *)
LEMMA SaidFits ==
  ASSUME NEW t, NEW d, CallFits(t, d), d.pc # "idle", NEW how \in {"missing", "directory", "noopen"}
  PROVE  CallFits(t, [d EXCEPT !.pc = "done", !.end = how])
  <1>1. IsCall(d) /\ d.c \in Commands[t] /\ DueFits(d.c, d.due)
    BY DEF CallFits
  <1>0. PICK e : e = [d EXCEPT !.pc = "done", !.end = how]
    OBVIOUS
  <1>2. e = [pc |-> "done", c |-> d.c, node |-> d.node, idx |-> d.idx, i |-> d.i, pos |-> d.pos,
             off |-> d.off, out |-> d.out, end |-> how, due |-> d.due,
             refused |-> d.refused]
    BY <1>0, <1>1 DEF IsCall
  <1>3. IsCall(e)
    BY <1>1, <1>2 DEF IsCall
  <1>4. e.pc = "done" /\ e.c = d.c /\ e.due = d.due /\ e.end = how
    BY <1>2
  <1>5. CallFits(t, e)
    BY <1>1, <1>3, <1>4 DEF CallFits
  <1> QED
    BY <1>0, <1>5

LEMMA WantsNone ==
  ASSUME NEW t \in Task, Wanted(t) = {}
  PROVE  /\ call[t].pc \in {"resolve", "open"} => PathFilled(call[t].c)
         /\ call[t].pc = "list" /\ call[t].node.is = "devdir" => NoneWanted(call[t].i)
  BY DEF Wanted, PathFilled, NoneWanted

LEMMA ResolveFits ==
  ASSUME DInv, NEW t \in Task, CallFits(t, call[t]), ResolvePath(t)
  PROVE  \E e : Goes(t, e) /\ CallFits(t, e)
  <1>1. PICK d, c, node : d = call[t] /\ c = d.c /\ node = NodeOf(c)
    OBVIOUS
  <1>2. /\ d.pc = "resolve" /\ IsCall(d) /\ c \in Commands[t] /\ DueFits(c, d.due)
        /\ d = Begun(d.pc, d.c, d.due)
    BY <1>1 DEF ResolvePath, At, CallFits
  <1>3. Command(c) /\ PathFilled(c)
    BY <1>1, <1>2, CommandIs, WantsNone DEF ResolvePath, At
  <1>4. LeadsTo(c, node)
    BY <1>1, <1>3, NodeIs
  <1>5. CASE node = Nothing
    <2>1. Goes(t, [d EXCEPT !.pc = "done", !.end = "missing"])
      BY <1>1, <1>5 DEF ResolvePath, Ends
    <2> QED
      BY <1>1, <1>2, <2>1, SaidFits
  <1>6. CASE node # Nothing /\ c.cmd = "ls" /\ ~IsDir(node)
    <2>1. PICK line : line = [name |-> c.name, ino |-> InoOf(node)]
      OBVIOUS
    <2>2. PICK e : e = [d EXCEPT !.pc = "done", !.end = "ok", !.node = node, !.out = <<line>>]
      OBVIOUS
    <2>3. Goes(t, e)
      BY <1>1, <1>6, <2>1, <2>2 DEF ResolvePath
    <2>4. e = [pc |-> "done", c |-> c, node |-> node, idx |-> d.idx, i |-> d.i, pos |-> d.pos,
               off |-> d.off, out |-> <<line>>, end |-> "ok", due |-> d.due,
               refused |-> d.refused]
      BY <1>1, <1>2, <2>2 DEF IsCall
    <2>5. IsCall(e)
      <3>1. <<line>> \in Seq({line})
        OBVIOUS
      <3> QED
        BY <1>2, <2>4, <3>1 DEF IsCall
    <2>6. Fits(c, node) /\ node.is \in {"device", "status"} /\ d.due = {}
      BY <1>2, <1>4, <1>6 DEF LeadsTo, Fits, IsDir, DueFits
    <2>7. Listed(e)
      BY <2>4, <2>6 DEF Listed
    <2>8. e.pc = "done" /\ e.c = c /\ e.end = "ok" /\ e.node = node /\ e.due = d.due
      BY <2>4
    <2>9. CallFits(t, e)
      BY <1>2, <1>6, <2>5, <2>6, <2>7, <2>8 DEF CallFits
    <2> QED
      BY <2>3, <2>9
  <1>7. CASE node # Nothing /\ c.cmd = "cat" /\ IsDir(node)
    <2>1. Goes(t, [d EXCEPT !.pc = "done", !.end = "directory"])
      BY <1>1, <1>7 DEF ResolvePath, Ends
    <2> QED
      BY <1>1, <1>2, <2>1, SaidFits
  <1>8. CASE node # Nothing /\ ~(c.cmd = "ls" /\ ~IsDir(node)) /\ ~(c.cmd = "cat" /\ IsDir(node))
    <2>1. PICK e : e = [d EXCEPT !.pc = "open"]
      OBVIOUS
    <2>2. Goes(t, e)
      BY <1>1, <1>8, <2>1 DEF ResolvePath
    <2>3. e = [pc |-> "open", c |-> c, node |-> d.node, idx |-> d.idx, i |-> d.i, pos |-> d.pos,
               off |-> d.off, out |-> d.out, end |-> d.end, due |-> d.due,
               refused |-> d.refused]
      BY <1>1, <1>2, <2>1 DEF IsCall
    <2>4. IsCall(e)
      BY <1>2, <2>3 DEF IsCall
    <2>5. d = [pc |-> "resolve", c |-> c, node |-> Nothing, idx |-> 0, i |-> 0, pos |-> 0,
               off |-> 0, out |-> <<>>, end |-> "none", due |-> d.due,
               refused |-> 0]
      BY <1>1, <1>2, BegunIs
    <2>6. e.pc = "open" /\ e.c = c /\ e.due = d.due
      BY <2>3
    <2>7. e = Begun(e.pc, e.c, e.due) /\ e.end = "none"
      <3>1. PICK due : due = d.due
        OBVIOUS
      <3>2. d.idx = 0 /\ d.i = 0 /\ d.pos = 0 /\ d.off = 0 /\ d.out = <<>> /\ d.end = "none" /\ d.node = Nothing
            /\ d.refused = 0
        BY <2>5
      <3>3. e = [pc |-> "open", c |-> c, node |-> Nothing, idx |-> 0, i |-> 0, pos |-> 0,
                 off |-> 0, out |-> <<>>, end |-> "none", due |-> due,
                 refused |-> 0]
        BY <2>3, <3>1, <3>2
      <3>4. e.pc = "open" /\ e.c = c /\ e.due = due /\ e.end = "none"
        BY <3>3
      <3>5. e = Begun("open", c, due)
        BY <3>3, BegunIs
      <3> QED
        BY <3>4, <3>5
    <2>8. c.cmd = "ls" <=> WantsDir(c)
      BY <1>3, <1>4, <1>8 DEF LeadsTo, Command
    <2>9. CallFits(t, e)
      BY <1>2, <2>4, <2>6, <2>7, <2>8 DEF CallFits
    <2> QED
      BY <2>2, <2>9
  <1> QED
    BY <1>5, <1>6, <1>7, <1>8


LEMMA SizeIs ==
  ASSUME DInv, PoolServes, NEW i \in Places, Ready(i)
  PROVE  /\ pool[i]["size"] \in Nat /\ Entry(i).kind \in {"char", "block"} /\ pool[i]["type"] = Entry(i).kind
         /\ pool[i]["ops"] = IF Entry(i).kind = "char" THEN "chr" ELSE "blk"
         /\ DOMAIN Content(i) = 1 .. pool[i]["size"] /\ Len(Content(i)) = pool[i]["size"]
         /\ Content(i) \in Seq({<<pool[i]["priv"], k>> : k \in 1 .. pool[i]["size"]})
  <1>1. i < DevCount /\ pool[i] = Filled(i) /\ i \in Nat
    BY DevfsFacts
  <1>2. Entry(i) \in Drivers /\ i + 1 \in DOMAIN entries
    BY <1>1, DevfsFacts
  <1>3. Entry(i).sectors \in Nat /\ SECTOR_SIZE \in Nat
    BY <1>2, DevfsAssumption
  <1>4. \A a, b \in Nat : a * b \in Nat
    OBVIOUS
  <1>5. Entry(i).kind \in {"char", "block"}
    BY <1>2 DEF PoolServes, Entry
  <1>6. /\ pool[i]["type"] = Entry(i).kind
        /\ pool[i]["ops"] = IF Entry(i).kind = "char" THEN "chr" ELSE "blk"
        /\ pool[i]["size"] = IF Entry(i).kind = "char" THEN 0 ELSE Entry(i).sectors * SECTOR_SIZE
    BY <1>1 DEF Filled, Fields
  <1>7. PICK s : s = pool[i]["size"]
    OBVIOUS
  <1>8. s \in Nat
    BY <1>3, <1>4, <1>6, <1>7
  <1>9. DOMAIN Content(i) = 1 .. s /\ Len(Content(i)) = s
        /\ Content(i) \in Seq({<<pool[i]["priv"], k>> : k \in 1 .. s})
    BY <1>7, <1>8 DEF Content
  <1> QED
    BY <1>5, <1>6, <1>7, <1>8, <1>9

LEMMA ListingBegins ==
  ASSUME DInv, NEW d, Fits(d.c, d.node), DueFits(d.c, d.due),
         d.idx = 0, d.i = 0, d.pos = 0, d.out = <<>>
  PROVE  Listing(d)
  <1>1. d.idx = Len(d.out)
    OBVIOUS
  <1>2. d.node.is = "devdir" => DevLines(d.node, d.out) /\ DevScan(d)
    <2>1. DevCount \in Nat /\ Places \subseteq Nat
      BY DevfsFacts
    <2> QED
      BY <2>1 DEF DevLines, DevScan
  <1>3. ASSUME d.node.is = "procdir"
        PROVE  \E n \in 0 .. MAX_TASKS : /\ WereThere(n) /\ d.due = FirstTasks(n)
                                         /\ ProcLines(d.node, d.out, n) /\ ProcScan(d, n)
    <2>1. d.c.fs = "proc" /\ d.c.name = <<>>
      BY <1>3 DEF Fits
    <2>2. PICK n \in 0 .. MAX_TASKS : WereThere(n) /\ d.due = FirstTasks(n)
      BY <2>1 DEF DueFits
    <2>3. ProcLines(d.node, d.out, n)
      BY DEF ProcLines
    <2>4. ProcScan(d, n)
      BY ProcfsAssumption DEF ProcScan
    <2> QED
      BY <2>2, <2>3, <2>4
  <1>4. TaskLines(d)
    BY DEF TaskLines
  <1> QED
    BY <1>1, <1>2, <1>3, <1>4 DEF Listing

LEMMA PrintingBegins ==
  ASSUME DInv, PoolServes, NEW t, NEW d, Fits(d.c, d.node), d.c.n \in Nat, d.off = 0, d.out = <<>>
  PROVE  Printing(d, t)
  <1>1. Below(d)
    BY DEF Below
  <1>2. ASSUME d.node.is = "device"
        PROVE  d.off <= Len(Content(d.node.i)) /\ d.out = SubSeq(Content(d.node.i), 1, d.off)
    <2>1. PICK i : i = d.node.i
      OBVIOUS
    <2>2. i \in Places /\ Ready(i)
      BY <1>2, <2>1 DEF Fits
    <2>3. PICK s, S : s = Content(i) /\ s \in Seq(S) /\ Len(s) \in Nat
      BY <2>2, SizeIs
    <2>4. SubSeq(s, 1, 0) = <<>>
      BY <2>3
    <2> QED
      BY <2>1, <2>3, <2>4
  <1>3. d.out \in Seq(Keys) /\ DOMAIN d.out = {}
    OBVIOUS
  <1> QED
    BY <1>1, <1>2, <1>3 DEF Printing

LEMMA OpenFits ==
  ASSUME DInv, PoolServes, NEW t \in Task, CallFits(t, call[t]), Open(t)
  PROVE  \E e : Goes(t, e) /\ CallFits(t, e)
  <1>1. PICK d, c, node : d = call[t] /\ c = d.c /\ node = NodeOf(c)
    OBVIOUS
  <1>2. /\ d.pc = "open" /\ IsCall(d) /\ c \in Commands[t] /\ DueFits(c, d.due)
        /\ d = Begun(d.pc, d.c, d.due) /\ (c.cmd = "ls" <=> WantsDir(c))
    BY <1>1 DEF Open, At, CallFits
  <1>3. Command(c) /\ PathFilled(c)
    BY <1>1, <1>2, CommandIs, WantsNone DEF Open, At
  <1>4. LeadsTo(c, node)
    BY <1>1, <1>3, NodeIs
  <1>5. CASE Ends(t, "noopen")
    <2>1. Goes(t, [d EXCEPT !.pc = "done", !.end = "noopen"])
      BY <1>1, <1>5 DEF Ends
    <2> QED
      BY <1>1, <1>2, <2>1, SaidFits
  <1>6. CASE node # Nothing /\ Goes(t, [d EXCEPT !.node = node, !.pc = IF IsDir(node) THEN "list" ELSE "read"])
    <2>1. PICK pc : pc = IF IsDir(node) THEN "list" ELSE "read"
      OBVIOUS
    <2>2. PICK e : e = [d EXCEPT !.node = node, !.pc = pc]
      OBVIOUS
    <2>3. Goes(t, e)
      BY <1>6, <2>1, <2>2
    <2>4. e = [pc |-> pc, c |-> c, node |-> node, idx |-> d.idx, i |-> d.i, pos |-> d.pos,
               off |-> d.off, out |-> d.out, end |-> d.end, due |-> d.due,
               refused |-> d.refused]
      BY <1>1, <1>2, <2>2 DEF IsCall
    <2>5. IsCall(e)
      BY <1>2, <2>1, <2>4 DEF IsCall
    <2>6. d.idx = 0 /\ d.i = 0 /\ d.pos = 0 /\ d.off = 0 /\ d.out = <<>> /\ d.end = "none"
      <3>1. d = [pc |-> d.pc, c |-> d.c, node |-> Nothing, idx |-> 0, i |-> 0, pos |-> 0,
                 off |-> 0, out |-> <<>>, end |-> "none", due |-> d.due,
                 refused |-> 0]
        BY <1>2, BegunIs
      <3> QED
        BY <3>1
    <2>7. /\ e.pc = pc /\ e.c = c /\ e.node = node /\ e.due = d.due /\ e.end = "none"
          /\ e.idx = 0 /\ e.i = 0 /\ e.pos = 0 /\ e.off = 0 /\ e.out = <<>>
      BY <2>4, <2>6
    <2>8. Fits(c, node) /\ (IsDir(node) <=> WantsDir(c))
      BY <1>4, <1>6 DEF LeadsTo
    <2>9. CASE IsDir(node)
      <3>1. Listing(e)
        BY <1>2, <2>7, <2>8, ListingBegins
      <3>2. pc = "list" /\ c.cmd = "ls"
        BY <1>2, <2>1, <2>8, <2>9
      <3>3. CallFits(t, e)
        BY <1>2, <2>5, <2>7, <2>8, <2>9, <3>1, <3>2 DEF CallFits
      <3> QED
        BY <2>3, <3>3
    <2>10. CASE ~IsDir(node)
      <3>1. Printing(e, t)
        BY <1>3, <2>7, <2>8, PrintingBegins DEF Command
      <3>2. pc = "read" /\ c.cmd = "cat"
        BY <1>2, <1>3, <2>1, <2>8, <2>10 DEF Command
      <3>3. CallFits(t, e)
        BY <1>2, <2>5, <2>7, <2>8, <2>10, <3>1, <3>2 DEF CallFits
      <3> QED
        BY <2>3, <3>3
    <2> QED
      BY <2>9, <2>10
  <1> QED
    BY <1>1, <1>5, <1>6 DEF Open


-----------------------------------------------------------------------------
(* A step of a listing of /dev.  The lines are a part of the places in order, *)
(* so the pos-th line is of the pos-th place that is shown: what is asked for *)
(* is the first place with no line.                                           *)
LEMMA PassedMore ==
  ASSUME NEW S, NEW out \in Seq(S), NEW line, NEW p, Passed(out, p)
  PROVE  Passed(Append(out, line), p)
  <1>1. \A k \in DOMAIN out : k \in DOMAIN Append(out, line) /\ Append(out, line)[k] = out[k]
    OBVIOUS
  <1>2. PICK more : more = Append(out, line)
    OBVIOUS
  <1> QED
    BY <1>1, <1>2 DEF Passed

LEMMA DevSkip ==
  ASSUME DInv, NEW d, IsCall(d), d.node.is = "devdir", DevLines(d.node, d.out), DevScan(d),
         d.i < DevCount, NoneWanted(d.i), ~Ready(d.i),
         NEW e, e.i = d.i + 1, e.pos = d.pos, e.idx = d.idx, e.out = d.out
  PROVE  DevScan(e)
  <1>1. PICK i : i = d.i
    OBVIOUS
  <1>2. i \in Nat /\ i < DevCount /\ DevCount \in Nat /\ i + 1 <= DevCount /\ Places \subseteq Nat
    BY <1>1, DevfsFacts DEF IsCall
  <1>3. \A p \in Places : p < i + 1 => Passed(d.out, p)
    <2> SUFFICES ASSUME NEW p \in Places, p < i + 1 PROVE Passed(d.out, p)
      OBVIOUS
    <2>1. CASE p = i
      BY <1>1, <1>2, <2>1 DEF NoneWanted, Passed
    <2>2. CASE p # i
      <3>1. p < i
        BY <1>2, <2>2
      <3> QED
        BY <1>1, <3>1 DEF DevScan
    <2> QED
      BY <2>1, <2>2
  <1>4. ASSUME NEW k \in DOMAIN d.out PROVE d.out[k].ino < 3 + (i + 1) <=> d.out[k].ino < 3 + i
    <2>1. PICK p \in Places : Ready(p) /\ d.out[k].ino = 3 + p
      BY DevLinesIno
    <2>2. p # i
      BY <1>1, <2>1
    <2> QED
      BY <1>2, <2>1, <2>2
  <1> QED
    BY <1>1, <1>2, <1>3, <1>4 DEF DevScan

LEMMA DevPass ==
  ASSUME DInv, NEW d, IsCall(d), d.idx = Len(d.out), d.node.is = "devdir", DevLines(d.node, d.out), DevScan(d),
         d.i < DevCount, Ready(d.i), d.pos # d.idx,
         NEW e, e.i = d.i + 1, e.pos = d.pos + 1, e.idx = d.idx, e.out = d.out
  PROVE  DevScan(e)
  <1>1. PICK i, pos, out, n : i = d.i /\ pos = d.pos /\ out = d.out /\ n = Len(d.out)
    OBVIOUS
  <1>2. /\ i \in Nat /\ i < DevCount /\ DevCount \in Nat /\ i + 1 <= DevCount /\ Places \subseteq Nat
        /\ i \in Places /\ pos \in Nat /\ n \in Nat /\ DOMAIN out = 1 .. n /\ pos < n
    BY <1>1, DevfsFacts DEF IsCall, DevScan
  <1>3. \A k \in DOMAIN out : k <= pos <=> out[k].ino < 3 + i
    BY <1>1 DEF DevScan
  <1>4. \A j, k \in DOMAIN out : j < k => out[j].ino < out[k].ino
    BY <1>1 DEF DevLines
  <1>5. \A k \in DOMAIN out : out[k].ino \in Nat
    <2> SUFFICES ASSUME NEW k \in DOMAIN out PROVE out[k].ino \in Nat
      OBVIOUS
    <2>1. PICK p \in Places : out[k].ino = 3 + p
      BY <1>1, DevLinesIno
    <2> QED
      BY <1>2, <2>1
  <1>6. pos + 1 \in DOMAIN out /\ ~(pos + 1 <= pos)
    BY <1>2
  <1>7. 3 + i <= out[pos + 1].ino
    BY <1>2, <1>3, <1>5, <1>6
  <1>8. Passed(out, i)
    BY <1>1, <1>2, <1>6, <1>7 DEF DevLines
  <1>9. PICK k \in DOMAIN out : out[k].ino = 3 + i
    BY <1>1, <1>8 DEF Passed
  <1>10. ~(k <= pos)
    BY <1>2, <1>3, <1>9
  <1>11. k = pos + 1
    <2>1. k \in Nat /\ k > pos
      BY <1>2, <1>9, <1>10
    <2>2. ASSUME pos + 1 < k PROVE FALSE
      <3>1. out[pos + 1].ino < out[k].ino
        BY <1>4, <1>6, <1>9, <2>2
      <3> QED
        BY <1>2, <1>5, <1>6, <1>7, <1>9, <3>1
    <2> QED
      BY <1>2, <2>1, <2>2
  <1>12. \A m \in DOMAIN out : m <= pos + 1 <=> out[m].ino < 3 + (i + 1)
    <2> SUFFICES ASSUME NEW m \in DOMAIN out PROVE m <= pos + 1 <=> out[m].ino < 3 + (i + 1)
      OBVIOUS
    <2>1. CASE m <= pos
      BY <1>2, <1>3, <1>5, <2>1
    <2>2. CASE m = pos + 1
      BY <1>2, <1>9, <1>11, <2>2
    <2>3. CASE m > pos + 1
      <3>1. out[pos + 1].ino < out[m].ino
        BY <1>4, <1>6, <2>3
      <3> QED
        BY <1>2, <1>5, <1>9, <1>11, <2>3, <3>1
    <2> QED
      BY <1>2, <2>1, <2>2, <2>3
  <1>13. \A p \in Places : p < i + 1 => Passed(out, p)
    <2> SUFFICES ASSUME NEW p \in Places, p < i + 1 PROVE Passed(out, p)
      OBVIOUS
    <2>1. CASE p = i
      BY <1>8, <2>1
    <2>2. CASE p # i
      <3>1. p < i
        BY <1>2, <2>2
      <3> QED
        BY <1>1, <3>1 DEF DevScan
    <2> QED
      BY <2>1, <2>2
  <1>14. pos + 1 <= n
    BY <1>2
  <1> QED
    BY <1>1, <1>2, <1>12, <1>13, <1>14 DEF DevScan

LEMMA DevShow ==
  ASSUME DInv, NEW d, IsCall(d), d.idx = Len(d.out), d.node.is = "devdir", DevLines(d.node, d.out), DevScan(d),
         d.i < DevCount, Ready(d.i), d.pos = d.idx,
         NEW e, e.i = 0, e.pos = 0, e.idx = d.idx + 1, e.out = Append(d.out, Line(d.node, d.i)), e.node = d.node
  PROVE  DevLines(e.node, e.out) /\ DevScan(e)
  <1>1. PICK i, out, n, line, more, node :
          i = d.i /\ out = d.out /\ n = Len(d.out) /\ line = Line(d.node, d.i) /\ more = e.out /\ node = d.node
    OBVIOUS
  <1>2. /\ i \in Nat /\ i < DevCount /\ DevCount \in Nat /\ Places \subseteq Nat
        /\ i \in Places /\ n \in Nat /\ DOMAIN out = 1 .. n /\ \A p \in Places : p < DevCount => p + 0 \in Nat
    BY <1>1, DevfsFacts DEF IsCall, DevScan
  <1>3. line.ino = 3 + i
    BY <1>1, <1>2, DevfsFacts DEF Line
  <1>4. PICK S : out \in Seq(S)
    BY <1>1 DEF IsCall
  <1>5. /\ DOMAIN more = 1 .. n + 1 /\ more[n + 1] = line
        /\ \A k \in DOMAIN out : more[k] = out[k]
    BY <1>1, <1>2, <1>4
  <1>6. \A k \in DOMAIN out : out[k].ino < 3 + i /\ out[k].ino \in Nat
    <2> SUFFICES ASSUME NEW k \in DOMAIN out PROVE out[k].ino < 3 + i /\ out[k].ino \in Nat
      OBVIOUS
    <2>1. k <= d.pos
      BY <1>1, <1>2
    <2>2. PICK p \in Places : out[k].ino = 3 + p
      BY <1>1, DevLinesIno
    <2> QED
      BY <1>1, <1>2, <2>1, <2>2 DEF DevScan
  <1>7. ASSUME NEW k \in DOMAIN more PROVE \E p \in Places : Ready(p) /\ more[k] = Line(node, p)
    <2>1. CASE k = n + 1
      BY <1>1, <1>2, <1>5, <2>1
    <2>2. CASE k # n + 1
      <3>1. k \in DOMAIN out
        BY <1>2, <1>5, <2>2
      <3> QED
        BY <1>1, <1>5, <3>1 DEF DevLines
    <2> QED
      BY <2>1, <2>2
  <1>8. ASSUME NEW j \in DOMAIN more, NEW k \in DOMAIN more, j < k PROVE more[j].ino < more[k].ino
    <2>1. j \in DOMAIN out
      BY <1>2, <1>5, <1>8
    <2>2. CASE k = n + 1
      BY <1>3, <1>5, <1>6, <2>1, <2>2
    <2>3. CASE k # n + 1
      <3>1. k \in DOMAIN out
        BY <1>2, <1>5, <2>3
      <3> QED
        BY <1>1, <1>5, <1>8, <2>1, <3>1 DEF DevLines
    <2> QED
      BY <2>2, <2>3
  <1>9. \A p \in Places : Passed(out, p) => Passed(more, p)
    BY <1>1, <1>4, PassedMore
  <1>10. ASSUME NEW p \in Places, NEW k \in DOMAIN more, 3 + p <= more[k].ino PROVE Passed(more, p)
    <2>1. p <= i
      <3>1. CASE k = n + 1
        BY <1>2, <1>3, <1>5, <1>10, <3>1
      <3>2. CASE k # n + 1
        <4>1. k \in DOMAIN out
          BY <1>2, <1>5, <3>2
        <4> QED
          BY <1>2, <1>5, <1>6, <1>10, <4>1
      <3> QED
        BY <3>1, <3>2
    <2>2. CASE p = i
      <3>1. n + 1 \in DOMAIN more
        BY <1>2, <1>5
      <3> QED
        BY <1>1, <1>3, <1>5, <2>2, <3>1 DEF Passed
    <2>3. CASE p # i
      <3>1. p < i
        BY <1>2, <2>1, <2>3
      <3> QED
        BY <1>1, <1>9, <3>1 DEF DevScan
    <2> QED
      BY <2>2, <2>3
  <1>11. DevLines(node, more)
    BY <1>7, <1>8, <1>10 DEF DevLines
  <1>12. \A k \in DOMAIN more : ~(k <= 0) /\ ~(more[k].ino < 3)
    <2> SUFFICES ASSUME NEW k \in DOMAIN more PROVE ~(k <= 0) /\ ~(more[k].ino < 3)
      OBVIOUS
    <2>0. node.is = "devdir"
      BY <1>1
    <2>1. PICK p \in Places : more[k].ino = 3 + p
      BY <1>11, <2>0, DevLinesIno
    <2> QED
      BY <1>2, <1>5, <2>1
  <1>13. DevScan(e)
    BY <1>1, <1>2, <1>12 DEF DevScan
  <1> QED
    BY <1>1, <1>11, <1>13


(* A step of a listing of /proc.                                             *)
LEMMA ProcSkip ==
  ASSUME NEW d, IsCall(d), NEW n \in 0 .. MAX_TASKS, WereThere(n), ProcScan(d, n),
         d.i < MAX_TASKS, ~TaskAttivo(d.i),
         NEW e, e.i = d.i + 1, e.pos = d.pos, e.idx = d.idx
  PROVE  ProcScan(e, n)
  <1>1. PICK i, pos, idx : i = d.i /\ pos = d.pos /\ idx = d.idx
    OBVIOUS
  <1>2. i \in Nat /\ pos \in Nat /\ idx \in Nat /\ MAX_TASKS \in Nat /\ n \in Nat
    BY <1>1, ProcfsAssumption DEF IsCall
  <1>3. n <= i
    BY <1>1, <1>2 DEF WereThere
  <1>4. i + 1 <= MAX_TASKS /\ pos <= i + 1 /\ pos <= idx /\ ~(i + 1 <= n) /\ pos >= n
    BY <1>1, <1>2, <1>3 DEF ProcScan
  <1> QED
    BY <1>1, <1>4 DEF ProcScan

LEMMA ProcPass ==
  ASSUME NEW d, IsCall(d), NEW n \in 0 .. MAX_TASKS, ProcScan(d, n),
         d.i < MAX_TASKS, d.pos # d.idx,
         NEW e, e.i = d.i + 1, e.pos = d.pos + 1, e.idx = d.idx
  PROVE  ProcScan(e, n)
  <1>1. PICK i, pos, idx : i = d.i /\ pos = d.pos /\ idx = d.idx
    OBVIOUS
  <1>2. i \in Nat /\ pos \in Nat /\ idx \in Nat /\ MAX_TASKS \in Nat /\ n \in Nat
    BY <1>1, ProcfsAssumption DEF IsCall
  <1>3. pos <= i /\ pos <= idx /\ (i <= n => pos = i) /\ (i >= n => pos >= n) /\ pos # idx /\ i < MAX_TASKS
    BY <1>1 DEF ProcScan
  <1>4. /\ i + 1 <= MAX_TASKS /\ pos + 1 <= i + 1 /\ pos + 1 <= idx
        /\ (i + 1 <= n => pos + 1 = i + 1) /\ (i + 1 >= n => pos + 1 >= n)
    BY <1>2, <1>3
  <1> QED
    BY <1>1, <1>4 DEF ProcScan

LEMMA ProcShow ==
  ASSUME NEW d, IsCall(d), d.idx = Len(d.out), d.node.is = "procdir",
         NEW n \in 0 .. MAX_TASKS, ProcLines(d.node, d.out, n), ProcScan(d, n),
         d.i < MAX_TASKS, TaskAttivo(d.i), d.pos = d.idx,
         NEW e, e.i = 0, e.pos = 0, e.idx = d.idx + 1, e.out = Append(d.out, Line(d.node, d.i)), e.node = d.node
  PROVE  ProcLines(e.node, e.out, n) /\ ProcScan(e, n)
  <1>1. PICK i, pos, idx, out, line, more, node :
          /\ i = d.i /\ pos = d.pos /\ idx = d.idx /\ out = d.out /\ node = d.node
          /\ line = Line(node, i) /\ more = e.out
    OBVIOUS
  <1>2. /\ i \in Nat /\ pos \in Nat /\ idx \in Nat /\ MAX_TASKS \in Nat /\ n \in Nat /\ idx = Len(out)
        /\ pos = idx /\ i < MAX_TASKS /\ n <= MAX_TASKS
    BY <1>1, ProcfsAssumption DEF IsCall
  <1>3. pos <= i /\ (i <= n => pos = i) /\ (i >= n => pos >= n)
    BY <1>1 DEF ProcScan
  <1>4. PICK S : out \in Seq(S)
    BY <1>1 DEF IsCall
  <1>5. /\ DOMAIN more = 1 .. idx + 1 /\ more[idx + 1] = line /\ DOMAIN out = 1 .. idx
        /\ \A k \in DOMAIN out : more[k] = out[k]
    BY <1>1, <1>2, <1>4
  <1>6. i \in Slot /\ i >= idx /\ (idx + 1 <= n => i = idx)
    BY <1>2, <1>3 DEF Slot
  <1>7. ASSUME NEW k \in DOMAIN more
        PROVE  \E p \in Slot : TaskAttivo(p) /\ more[k] = Line(node, p) /\ p >= k - 1 /\ (k <= n => p = k - 1)
    <2>1. CASE k = idx + 1
      <3>1. more[k] = Line(node, i) /\ k - 1 = idx /\ TaskAttivo(i)
        BY <1>1, <1>2, <1>5, <2>1
      <3>2. i >= k - 1 /\ (k <= n => i = k - 1)
        BY <1>6, <2>1, <3>1
      <3> QED
        BY <1>6, <3>1, <3>2
    <2>2. CASE k # idx + 1
      <3>1. k \in DOMAIN out
        BY <1>2, <1>5, <2>2
      <3> QED
        BY <1>1, <1>5, <3>1 DEF ProcLines
    <2> QED
      BY <2>1, <2>2
  <1>8. ProcLines(node, more, n)
    BY <1>7 DEF ProcLines
  <1>9. ProcScan(e, n)
    BY <1>1, <1>2 DEF ProcScan
  <1> QED
    BY <1>1, <1>8, <1>9

(* Whatever is listed, one place looked at leaves the listing where it fits. *)
ListTurn(d) ==
  IF ~Shows(d.node, d.i) THEN [d EXCEPT !.i = @ + 1]
  ELSE IF IsEntry(d)
    THEN [d EXCEPT !.out = Append(@, Line(d.node, d.i)), !.idx = @ + 1, !.i = 0, !.pos = 0]
    ELSE [d EXCEPT !.i = @ + 1, !.pos = @ + 1]

Turned(d, e) ==
  /\ IsCall(e) /\ e.pc = d.pc /\ e.c = d.c /\ e.node = d.node /\ e.due = d.due /\ e.end = d.end
  /\ \/ ~Shows(d.node, d.i) /\ e.i = d.i + 1 /\ e.pos = d.pos /\ e.idx = d.idx /\ e.out = d.out
     \/ /\ Shows(d.node, d.i) /\ d.pos = d.idx
        /\ e.i = 0 /\ e.pos = 0 /\ e.idx = d.idx + 1 /\ e.out = Append(d.out, Line(d.node, d.i))
     \/ /\ Shows(d.node, d.i) /\ d.pos # d.idx
        /\ e.i = d.i + 1 /\ e.pos = d.pos + 1 /\ e.idx = d.idx /\ e.out = d.out

LEMMA TurnIs ==
  ASSUME NEW d, IsCall(d)
  PROVE  Turned(d, ListTurn(d))
  <1>1. PICK e, line : e = ListTurn(d) /\ line = Line(d.node, d.i)
    OBVIOUS
  <1>2. PICK S : d.out \in Seq(S)
    BY DEF IsCall
  <1>3. d.i \in Nat /\ d.pos \in Nat /\ d.idx \in Nat /\ d.off \in Nat
        /\ d.pc \in {"idle", "resolve", "open", "list", "read", "done"}
    BY DEF IsCall
  <1>4. CASE ~Shows(d.node, d.i)
    <2>1. e = [d EXCEPT !.i = d.i + 1]
      BY <1>1, <1>4 DEF ListTurn
    <2>2. e = [pc |-> d.pc, c |-> d.c, node |-> d.node, idx |-> d.idx, i |-> d.i + 1, pos |-> d.pos,
               off |-> d.off, out |-> d.out, end |-> d.end, due |-> d.due,
               refused |-> d.refused]
      BY <2>1 DEF IsCall
    <2>3. IsCall(e)
      BY <1>2, <1>3, <2>2 DEF IsCall
    <2> QED
      BY <1>1, <1>4, <2>2, <2>3 DEF Turned
  <1>5. CASE Shows(d.node, d.i) /\ IsEntry(d)
    <2>1. PICK out : out = Append(d.out, line)
      OBVIOUS
    <2>2. e = [d EXCEPT !.out = out, !.idx = d.idx + 1, !.i = 0, !.pos = 0]
      BY <1>1, <1>5, <2>1 DEF ListTurn
    <2>3. e = [pc |-> d.pc, c |-> d.c, node |-> d.node, idx |-> d.idx + 1, i |-> 0, pos |-> 0,
               off |-> d.off, out |-> out, end |-> d.end, due |-> d.due,
               refused |-> d.refused]
      BY <2>2 DEF IsCall
    <2>4. out \in Seq(S \cup {line})
      BY <1>2, <2>1
    <2>5. IsCall(e)
      BY <1>3, <2>3, <2>4 DEF IsCall
    <2> QED
      BY <1>1, <1>5, <2>1, <2>3, <2>5 DEF Turned, IsEntry
  <1>6. CASE Shows(d.node, d.i) /\ ~IsEntry(d)
    <2>1. e = [d EXCEPT !.i = d.i + 1, !.pos = d.pos + 1]
      BY <1>1, <1>6 DEF ListTurn
    <2>2. e = [pc |-> d.pc, c |-> d.c, node |-> d.node, idx |-> d.idx, i |-> d.i + 1, pos |-> d.pos + 1,
               off |-> d.off, out |-> d.out, end |-> d.end, due |-> d.due,
               refused |-> d.refused]
      BY <2>1 DEF IsCall
    <2>3. IsCall(e)
      BY <1>2, <1>3, <2>2 DEF IsCall
    <2> QED
      BY <1>1, <1>6, <2>2, <2>3 DEF Turned, IsEntry
  <1> QED
    BY <1>4, <1>5, <1>6

LEMMA ListingGoesOn ==
  ASSUME DInv, NEW d, IsCall(d), IsDir(d.node), Listing(d), d.i < Limit(d.node),
         d.node.is = "devdir" => NoneWanted(d.i),
         NEW e, Turned(d, e)
  PROVE  Listing(e)
  <1>1. d.idx = Len(d.out) /\ d.i \in Nat /\ (\E S : d.out \in Seq(S))
    BY DEF Listing, IsCall
  <1>2. PICK S : d.out \in Seq(S)
    BY <1>1
  <1>3. e.idx = Len(e.out)
    <2>1. PICK line : line = Line(d.node, d.i)
      OBVIOUS
    <2>2. Len(Append(d.out, line)) = Len(d.out) + 1
      BY <1>2
    <2> QED
      BY <1>1, <2>1, <2>2 DEF Turned
  <1>4. CASE d.node.is = "devdir"
    <2>1. DevLines(d.node, d.out) /\ DevScan(d) /\ d.i < DevCount /\ NoneWanted(d.i)
          /\ (Shows(d.node, d.i) <=> Ready(d.i)) /\ e.node = d.node
      BY <1>4 DEF Listing, Limit, Shows, Turned
    <2>2. CASE ~Ready(d.i)
      <3>1. e.i = d.i + 1 /\ e.pos = d.pos /\ e.idx = d.idx /\ e.out = d.out
        BY <2>1, <2>2 DEF Turned
      <3>2. DevScan(e)
        BY <1>4, <2>1, <2>2, <3>1, DevSkip
      <3> QED
        BY <1>3, <1>4, <2>1, <3>1, <3>2 DEF Listing
    <2>3. CASE Ready(d.i) /\ d.pos = d.idx
      <3>1. e.i = 0 /\ e.pos = 0 /\ e.idx = d.idx + 1 /\ e.out = Append(d.out, Line(d.node, d.i))
        BY <2>1, <2>3 DEF Turned
      <3>2. DevLines(e.node, e.out) /\ DevScan(e)
        BY <1>1, <1>4, <2>1, <2>3, <3>1, DevShow
      <3> QED
        BY <1>3, <1>4, <2>1, <3>2 DEF Listing
    <2>4. CASE Ready(d.i) /\ d.pos # d.idx
      <3>1. e.i = d.i + 1 /\ e.pos = d.pos + 1 /\ e.idx = d.idx /\ e.out = d.out
        BY <2>1, <2>4 DEF Turned
      <3>2. DevScan(e)
        BY <1>1, <1>4, <2>1, <2>4, <3>1, DevPass
      <3> QED
        BY <1>3, <1>4, <2>1, <3>1, <3>2 DEF Listing
    <2> QED
      BY <2>2, <2>3, <2>4
  <1>5. CASE d.node.is = "procdir"
    <2>1. PICK n \in 0 .. MAX_TASKS : /\ WereThere(n) /\ d.due = FirstTasks(n)
                                      /\ ProcLines(d.node, d.out, n) /\ ProcScan(d, n)
      BY <1>5 DEF Listing
    <2>2. d.i < MAX_TASKS /\ (Shows(d.node, d.i) <=> TaskAttivo(d.i)) /\ e.node = d.node /\ e.due = d.due
      BY <1>5 DEF Limit, Shows, Turned
    <2>3. ProcLines(e.node, e.out, n) /\ ProcScan(e, n)
      <3>1. CASE ~TaskAttivo(d.i)
        <4>1. e.i = d.i + 1 /\ e.pos = d.pos /\ e.idx = d.idx /\ e.out = d.out
          BY <2>2, <3>1 DEF Turned
        <4>2. ProcScan(e, n)
          BY <2>1, <2>2, <3>1, <4>1, ProcSkip
        <4> QED
          BY <2>1, <2>2, <4>1, <4>2
      <3>2. CASE TaskAttivo(d.i) /\ d.pos = d.idx
        <4>1. e.i = 0 /\ e.pos = 0 /\ e.idx = d.idx + 1 /\ e.out = Append(d.out, Line(d.node, d.i))
          BY <2>2, <3>2 DEF Turned
        <4> QED
          BY <1>1, <1>5, <2>1, <2>2, <3>2, <4>1, ProcShow
      <3>3. CASE TaskAttivo(d.i) /\ d.pos # d.idx
        <4>1. e.i = d.i + 1 /\ e.pos = d.pos + 1 /\ e.idx = d.idx /\ e.out = d.out
          BY <2>2, <3>3 DEF Turned
        <4>2. ProcScan(e, n)
          BY <2>1, <2>2, <3>3, <4>1, ProcPass
        <4> QED
          BY <2>1, <2>2, <4>1, <4>2
      <3> QED
        BY <3>1, <3>2, <3>3
    <2> QED
      BY <1>3, <1>5, <2>1, <2>2, <2>3 DEF Listing
  <1>6. CASE d.node.is = "taskdir"
    <2>1. d.i < 1 /\ Shows(d.node, d.i) /\ TaskLines(d) /\ e.node = d.node
      BY <1>6 DEF Listing, Limit, Shows, Turned
    <2>2. Line(d.node, d.i) = Line(d.node, 0)
      BY <1>6 DEF Line
    <2>3. d.i = 0 /\ d.pos = 0
      BY <1>1, <2>1 DEF TaskLines
    <2>4. TaskLines(e)
      <3>1. PICK line : line = Line(d.node, 0)
        OBVIOUS
      <3>2. CASE d.out = <<>> /\ d.idx = 0
        <4>1. e.i = 0 /\ e.pos = 0 /\ e.idx = 1 /\ e.out = Append(<<>>, line)
          BY <2>1, <2>2, <2>3, <3>1, <3>2 DEF Turned
        <4>2. e.out = <<line>>
          BY <4>1
        <4> QED
          BY <2>1, <3>1, <4>1, <4>2 DEF TaskLines
      <3>3. CASE d.out = <<line>> /\ d.idx = 1
        <4>1. e.i = 1 /\ e.pos = 1 /\ e.idx = 1 /\ e.out = <<line>>
          BY <2>1, <2>3, <3>1, <3>3 DEF Turned
        <4> QED
          BY <2>1, <3>1, <4>1 DEF TaskLines
      <3> QED
        BY <2>1, <3>1, <3>2, <3>3 DEF TaskLines
    <2> QED
      BY <1>3, <1>6, <2>1, <2>4 DEF Listing
  <1> QED
    BY <1>4, <1>5, <1>6 DEF IsDir


LEMMA ListFits ==
  ASSUME DInv, NEW t \in Task, CallFits(t, call[t]), ListStep(t)
  PROVE  \E e : Goes(t, e) /\ CallFits(t, e)
  <1>1. PICK d, e : d = call[t] /\ e = ListTurn(d)
    OBVIOUS
  <1>2. /\ d.pc = "list" /\ IsCall(d) /\ d.c \in Commands[t] /\ DueFits(d.c, d.due) /\ d.c.cmd = "ls"
        /\ d.end = "none" /\ IsDir(d.node) /\ Fits(d.c, d.node) /\ Listing(d)
    BY <1>1 DEF ListStep, At, CallFits
  <1>3. d.node.is = "devdir" => NoneWanted(d.i)
    BY <1>1, <1>2, WantsNone DEF ListStep, At
  <1>4. d.i < Limit(d.node) /\ Goes(t, e)
    BY <1>1 DEF ListStep, ListTurn
  <1>5. Turned(d, e)
    BY <1>1, <1>2, TurnIs
  <1>6. Listing(e)
    BY <1>2, <1>3, <1>4, <1>5, ListingGoesOn
  <1>7. IsCall(e) /\ e.pc = d.pc /\ e.c = d.c /\ e.node = d.node /\ e.due = d.due /\ e.end = d.end
    BY <1>5 DEF Turned
  <1>8. CallFits(t, e)
    BY <1>2, <1>6, <1>7 DEF CallFits
  <1> QED
    BY <1>4, <1>8

(* A listing that ends has a line for all that was due.                      *)
LEMMA ListingEnds ==
  ASSUME DInv, NEW d, IsCall(d), Fits(d.c, d.node), DueFits(d.c, d.due), Listing(d), IsDir(d.node),
         ~(d.i < Limit(d.node))
  PROVE  Listed(d)
  <1>1. d.idx = Len(d.out) /\ d.i \in Nat /\ d.pos \in Nat /\ d.idx \in Nat
    BY DEF Listing, IsCall
  <1>2. PICK S : d.out \in Seq(S)
    BY DEF IsCall
  <1>3. CASE d.node.is = "devdir"
    <2>1. DevLines(d.node, d.out) /\ DevScan(d) /\ d.c.fs = "dev" /\ ~(d.i < DevCount)
      BY <1>3 DEF Listing, Fits, Limit
    <2>2. ASSUME NEW x \in d.due PROVE x \in {d.out[k].ino : k \in DOMAIN d.out}
      <3>1. PICK p \in Places : Servable(p) /\ x = 3 + p
        BY <2>1 DEF DueFits
      <3>2. p < d.i
        BY <1>1, <2>1, <3>1, DevfsFacts DEF Servable
      <3>3. Passed(d.out, p)
        BY <2>1, <3>2 DEF DevScan
      <3>4. PICK k \in DOMAIN d.out : d.out[k].ino = 3 + p
        BY <3>1, <3>3 DEF Passed
      <3> QED
        BY <3>1, <3>4
    <2> QED
      BY <1>3, <2>1, <2>2 DEF Listed
  <1>4. CASE d.node.is = "procdir"
    <2>1. PICK n \in 0 .. MAX_TASKS : /\ WereThere(n) /\ d.due = FirstTasks(n)
                                      /\ ProcLines(d.node, d.out, n) /\ ProcScan(d, n)
      BY <1>4 DEF Listing
    <2>2. n <= Len(d.out) /\ n \in Nat
      BY <1>1, <1>4, <2>1, ProcfsAssumption DEF Limit, ProcScan
    <2>3. ASSUME NEW x \in d.due PROVE x \in {d.out[k].ino : k \in DOMAIN d.out}
      <3>1. PICK p \in 0 .. n - 1 : x = PROC_INO_TASK(p)
        BY <2>1 DEF FirstTasks
      <3>2. p + 1 \in DOMAIN d.out /\ p + 1 <= n /\ p + 1 - 1 = p
        BY <1>2, <2>2
      <3>3. d.out[p + 1] = Line(d.node, p)
        BY <2>1, <3>2 DEF ProcLines
      <3>4. d.out[p + 1].ino = x
        BY <1>4, <3>1, <3>3 DEF Line
      <3> QED
        BY <3>2, <3>4
    <2> QED
      BY <1>4, <2>1, <2>3 DEF Listed
  <1>5. CASE d.node.is = "taskdir"
    <2>1. d.out = <<Line(d.node, 0)>>
      BY <1>1, <1>5 DEF Listing, TaskLines, Limit
    <2>2. DOMAIN d.out = {1} /\ d.out[1].ino = PROC_INO_STATUS(d.node.i)
      <3>1. PICK line : line = Line(d.node, 0)
        OBVIOUS
      <3>2. line.ino = PROC_INO_STATUS(d.node.i)
        BY <1>5, <3>1 DEF Line
      <3>3. DOMAIN <<line>> = {1} /\ <<line>>[1] = line
        OBVIOUS
      <3> QED
        BY <2>1, <3>1, <3>2, <3>3
    <2>3. d.due \subseteq {PROC_INO_STATUS(d.node.i)}
      BY <1>5 DEF Fits, DueFits
    <2> QED
      BY <1>5, <2>2, <2>3 DEF Listed
  <1> QED
    BY <1>3, <1>4, <1>5 DEF IsDir

LEMMA ListEndFits ==
  ASSUME DInv, NEW t \in Task, CallFits(t, call[t]), ListEnd(t)
  PROVE  \E e : Goes(t, e) /\ CallFits(t, e)
  <1>1. PICK d, e : d = call[t] /\ e = [d EXCEPT !.pc = "done", !.end = "ok"]
    OBVIOUS
  <1>2. /\ d.pc = "list" /\ IsCall(d) /\ d.c \in Commands[t] /\ DueFits(d.c, d.due) /\ d.c.cmd = "ls"
        /\ d.end = "none" /\ IsDir(d.node) /\ Fits(d.c, d.node) /\ Listing(d)
    BY <1>1 DEF ListEnd, At, CallFits
  <1>3. d.i >= Limit(d.node) /\ Goes(t, e)
    BY <1>1 DEF ListEnd, Ends
  <1>4. ~(d.i < Limit(d.node))
    <2>1. Limit(d.node) \in Nat /\ d.i \in Nat
      BY <1>2, DevfsFacts, ProcfsAssumption DEF Limit, IsCall
    <2> QED
      BY <1>3, <2>1
  <1>5. Listed(d)
    BY <1>2, <1>4, ListingEnds
  <1>6. e = [pc |-> "done", c |-> d.c, node |-> d.node, idx |-> d.idx, i |-> d.i, pos |-> d.pos,
             off |-> d.off, out |-> d.out, end |-> "ok", due |-> d.due,
             refused |-> d.refused]
    BY <1>1, <1>2 DEF IsCall
  <1>7. IsCall(e)
    BY <1>2, <1>6 DEF IsCall
  <1>8. e.pc = "done" /\ e.c = d.c /\ e.due = d.due /\ e.end = "ok" /\ e.node = d.node /\ e.out = d.out
    BY <1>6
  <1>9. Listed(e)
    BY <1>5, <1>8 DEF Listed
  <1>10. CallFits(t, e)
    BY <1>2, <1>7, <1>8, <1>9 DEF CallFits
  <1> QED
    BY <1>3, <1>10


-----------------------------------------------------------------------------
(* Sequences cut and put together.                                           *)
LEMMA CutIs ==
  ASSUME NEW S, NEW s \in Seq(S), NEW m \in 1 .. Len(s) + 1, NEW n \in m - 1 .. Len(s)
  PROVE  /\ SubSeq(s, m, n) \in Seq(S) /\ Len(SubSeq(s, m, n)) = n - m + 1
         /\ \A k \in 1 .. n - m + 1 : SubSeq(s, m, n)[k] = s[m + k - 1]
  BY SubSeqProperties

LEMMA SameSeq ==
  ASSUME NEW S, NEW s \in Seq(S), NEW T, NEW r \in Seq(T), Len(s) = Len(r), \A k \in 1 .. Len(s) : s[k] = r[k]
  PROVE  s = r
  <1>1. DOMAIN s = 1 .. Len(s) /\ DOMAIN r = 1 .. Len(r)
    OBVIOUS
  <1>2. s = [k \in 1 .. Len(s) |-> s[k]] /\ r = [k \in 1 .. Len(r) |-> r[k]]
    OBVIOUS
  <1> QED
    BY <1>1, <1>2

LEMMA WholeCut ==
  ASSUME NEW S, NEW s \in Seq(S)
  PROVE  SubSeq(s, 1, Len(s)) = s
  <1>1. PICK n, m : n = Len(s) /\ m = 1
    OBVIOUS
  <1>2. n \in Nat /\ m \in 1 .. Len(s) + 1 /\ n \in m - 1 .. Len(s)
    BY <1>1
  <1>3. PICK r : r = SubSeq(s, m, n)
    OBVIOUS
  <1>4. r \in Seq(S) /\ Len(r) = n - m + 1 /\ \A k \in 1 .. n - m + 1 : r[k] = s[m + k - 1]
    BY <1>2, <1>3, CutIs
  <1>5. Len(r) = n /\ \A k \in 1 .. Len(r) : r[k] = s[k]
    BY <1>1, <1>2, <1>4
  <1>6. r = s
    BY <1>1, <1>4, <1>5, SameSeq
  <1> QED
    BY <1>1, <1>3, <1>6

(* A cut, and the cut that follows on.                                       *)
LEMMA CutsJoin ==
  ASSUME NEW S, NEW s \in Seq(S), NEW a \in Nat, NEW b \in Nat, a <= b, b <= Len(s)
  PROVE  SubSeq(s, 1, a) \o SubSeq(s, a + 1, b) = SubSeq(s, 1, b)
  <1>1. PICK one, m, p, q, r : one = 1 /\ m = a + 1 /\ p = SubSeq(s, one, a) /\ q = SubSeq(s, m, b) /\ r = SubSeq(s, one, b)
    OBVIOUS
  <1>2. /\ one \in 1 .. Len(s) + 1 /\ a \in one - 1 .. Len(s) /\ b \in one - 1 .. Len(s)
        /\ m \in 1 .. Len(s) + 1 /\ b \in m - 1 .. Len(s) /\ Len(s) \in Nat
    BY <1>1
  <1>3. p \in Seq(S) /\ Len(p) = a - one + 1 /\ \A k \in 1 .. a - one + 1 : p[k] = s[one + k - 1]
    BY <1>1, <1>2, CutIs
  <1>4. q \in Seq(S) /\ Len(q) = b - m + 1 /\ \A k \in 1 .. b - m + 1 : q[k] = s[m + k - 1]
    BY <1>1, <1>2, CutIs
  <1>5. r \in Seq(S) /\ Len(r) = b - one + 1 /\ \A k \in 1 .. b - one + 1 : r[k] = s[one + k - 1]
    BY <1>1, <1>2, CutIs
  <1>6. Len(p) = a /\ Len(q) = b - a /\ Len(r) = b
    BY <1>1, <1>3, <1>4, <1>5
  <1>7. PICK j : j = p \o q
    OBVIOUS
  <1>8. /\ j \in Seq(S) /\ Len(j) = b
        /\ \A k \in 1 .. b : j[k] = IF k <= a THEN p[k] ELSE q[k - a]
    BY <1>3, <1>4, <1>6, <1>7
  <1>9. ASSUME NEW k \in 1 .. b PROVE j[k] = r[k]
    <2>1. r[k] = s[k]
      BY <1>1, <1>5, <1>6
    <2>2. CASE k <= a
      <3>1. k \in 1 .. a - one + 1 /\ one + k - 1 = k
        BY <1>1, <2>2
      <3> QED
        BY <1>3, <1>8, <2>1, <2>2, <3>1
    <2>3. CASE ~(k <= a)
      <3>1. k - a \in 1 .. b - m + 1 /\ m + (k - a) - 1 = k
        BY <1>1, <2>3
      <3> QED
        BY <1>4, <1>8, <2>1, <2>3, <3>1
    <2> QED
      BY <2>2, <2>3
  <1>10. j = r
    BY <1>5, <1>6, <1>8, <1>9, SameSeq
  <1> QED
    BY <1>1, <1>7, <1>10

(* A cut of the beginning of a cut.                                          *)
LEMMA CutOfCut ==
  ASSUME NEW S, NEW s \in Seq(S), NEW a \in Nat, NEW b \in Nat, a <= b, b <= Len(s), NEW k \in 1 .. b - a
  PROVE  SubSeq(SubSeq(s, a + 1, b), 1, k) = SubSeq(s, a + 1, a + k)
  <1>1. PICK one, m, c, q, r, x :
          one = 1 /\ m = a + 1 /\ c = a + k /\ q = SubSeq(s, m, b) /\ r = SubSeq(s, m, c) /\ x = SubSeq(q, one, k)
    OBVIOUS
  <1>2. /\ m \in 1 .. Len(s) + 1 /\ b \in m - 1 .. Len(s) /\ c \in m - 1 .. Len(s) /\ Len(s) \in Nat
    BY <1>1
  <1>3. q \in Seq(S) /\ Len(q) = b - m + 1 /\ \A h \in 1 .. b - m + 1 : q[h] = s[m + h - 1]
    BY <1>1, <1>2, CutIs
  <1>4. r \in Seq(S) /\ Len(r) = c - m + 1 /\ \A h \in 1 .. c - m + 1 : r[h] = s[m + h - 1]
    BY <1>1, <1>2, CutIs
  <1>5. Len(q) = b - a /\ Len(r) = k
    BY <1>1, <1>3, <1>4
  <1>6. one \in 1 .. Len(q) + 1 /\ k \in one - 1 .. Len(q)
    BY <1>1, <1>5
  <1>7. x \in Seq(S) /\ Len(x) = k - one + 1 /\ \A h \in 1 .. k - one + 1 : x[h] = q[one + h - 1]
    BY <1>1, <1>3, <1>6, CutIs
  <1>8. Len(x) = k
    BY <1>1, <1>7
  <1>9. ASSUME NEW h \in 1 .. k PROVE x[h] = r[h]
    <2>1. h \in 1 .. k - one + 1 /\ one + h - 1 = h /\ h \in 1 .. b - m + 1 /\ h \in 1 .. c - m + 1
      BY <1>1
    <2> QED
      BY <1>3, <1>4, <1>7, <2>1
  <1>10. x = r
    BY <1>4, <1>5, <1>7, <1>8, <1>9, SameSeq
  <1> QED
    BY <1>1, <1>10


-----------------------------------------------------------------------------
(* Where a read ends what cat prints.                                        *)
GoesOn(d, disp, got) ==
  /\ d.c.n = 0 \/ Len(d.out) + Len(got) < d.c.n
  /\ disp => \A j \in DOMAIN got : got[j] # "nl"

EndsAt(d, disp, got, k) ==
  /\ k \in 1 .. Len(got) /\ (d.c.n # 0 => Len(d.out) + k <= d.c.n)
  /\ disp => \A j \in 1 .. k - 1 : got[j] # "nl"
  /\ (d.c.n # 0 /\ Len(d.out) + k = d.c.n) \/ (disp /\ got[k] = "nl")

LEMMA EndingIs ==
  ASSUME NEW d, Below(d), d.c.n \in Nat, NEW S, d.out \in Seq(S), NEW Q, NEW got \in Seq(Q), NEW disp \in BOOLEAN
  PROVE  /\ Ending(d, disp, got) = {} => GoesOn(d, disp, got)
         /\ \A k \in Ending(d, disp, got) : (\A j \in Ending(d, disp, got) : k <= j) => EndsAt(d, disp, got, k)
  <1>1. PICK n, m, l, E : n = d.c.n /\ m = Len(d.out) /\ l = Len(got) /\ E = Ending(d, disp, got)
    OBVIOUS
  <1>2. n \in Nat /\ m \in Nat /\ l \in Nat /\ DOMAIN got = 1 .. l /\ (n = 0 \/ m < n)
    BY <1>1 DEF Below
  <1>3. \A k : k \in E <=> k \in 1 .. l /\ ((n # 0 /\ m + k >= n) \/ (disp /\ got[k] = "nl"))
    BY <1>1, <1>2 DEF Ending
  <1>4. ASSUME E = {} PROVE GoesOn(d, disp, got)
    <2>1. n = 0 \/ m + l < n
      <3>1. CASE l = 0
        BY <1>2, <3>1
      <3>2. CASE l # 0
        <4>1. l \in 1 .. l
          BY <1>2, <3>2
        <4>2. ~(n # 0 /\ m + l >= n)
          BY <1>3, <1>4, <4>1
        <4> QED
          BY <1>2, <4>2
      <3> QED
        BY <3>1, <3>2
    <2> QED
      BY <1>1, <1>2, <1>3, <1>4, <2>1 DEF GoesOn
  <1>5. ASSUME NEW k \in E, \A j \in E : k <= j PROVE EndsAt(d, disp, got, k)
    <2>1. k \in 1 .. l /\ ((n # 0 /\ m + k >= n) \/ (disp /\ got[k] = "nl"))
      BY <1>3
    <2>2. \A j \in 1 .. k - 1 : j \in 1 .. l /\ ~(k <= j)
      BY <1>2, <2>1
    <2>3. \A j \in 1 .. k - 1 : ~(n # 0 /\ m + j >= n) /\ ~(disp /\ got[j] = "nl")
      BY <1>3, <1>5, <2>2
    <2>4. n # 0 => m + k <= n
      <3>1. CASE k = 1
        BY <1>2, <3>1
      <3>2. CASE k # 1
        <4>1. k - 1 \in 1 .. k - 1
          BY <2>1, <3>2
        <4>2. ~(n # 0 /\ m + (k - 1) >= n)
          BY <2>3, <4>1
        <4> QED
          BY <1>2, <2>1, <4>2
      <3> QED
        BY <3>1, <3>2
    <2>5. (n # 0 /\ m + k = n) \/ (disp /\ got[k] = "nl")
      BY <1>2, <2>1, <2>4
    <2> QED
      BY <1>1, <2>1, <2>3, <2>4, <2>5 DEF EndsAt
  <1> QED
    BY <1>1, <1>4, <1>5

(* What a read returns lets cat end, go on, or end within it.                *)
PrintsRight(d, t, e, got, disp) ==
  /\ \E Q : got \in Seq(Q)
  /\ got = <<>> /\ ~disp /\ e.out = d.out => Printed(e, t)
  /\ got # <<>> /\ GoesOn(d, disp, got) /\ e.out = d.out \o got /\ e.off = d.off + Len(got) => Printing(e, t)
  /\ \A k : EndsAt(d, disp, got, k) /\ e.out = d.out \o SubSeq(got, 1, k) => Printed(e, t)

TextLength(i, t) == IF i = t THEN 7 ELSE 6

LEMMA TextLengthIs == \A i, t : TextLength(i, t) \in Nat /\ TextLength(i, t) # 0
  BY DEF TextLength

LEMMA StatusTextIs ==
  ASSUME NEW i, NEW t, NEW x, NEW s, s = StatusText(i, t, x)
  PROVE  \E S : s \in Seq(S) /\ Len(s) = TextLength(i, t)
  <1>1. PICK pid, state, run, ning, ready, esp :
          pid = "pid" /\ state = "state" /\ run = "run" /\ ning = "ning" /\ ready = "ready" /\ esp = "esp"
    OBVIOUS
  <1>2. PICK S : S = {pid, state, run, ning, ready, esp, i, x}
    OBVIOUS
  <1>3. PICK a, b, c : a = <<pid, i, state>> /\ b = (IF i = t THEN <<run, ning>> ELSE <<ready>>) /\ c = <<esp, x>>
    OBVIOUS
  <1>4. a \in Seq(S) /\ Len(a) = 3
    BY <1>2, <1>3
  <1>5. PICK l, m : l = Len(b) /\ m = IF i = t THEN 2 ELSE 1
    OBVIOUS
  <1>11. b \in Seq(S) /\ l = m /\ m \in Nat
    <2>1. CASE i = t
      BY <1>2, <1>3, <1>5, <2>1
    <2>2. CASE i # t
      BY <1>2, <1>3, <1>5, <2>2
    <2> QED
      BY <2>1, <2>2
  <1>6. c \in Seq(S) /\ Len(c) = 2
    BY <1>2, <1>3
  <1>7. PICK ab, abc : ab = a \o b /\ abc = ab \o c
    OBVIOUS
  <1>8. PICK u, v, w : u = 3 /\ v = 2 /\ w = u + m
    OBVIOUS
  <1>13. u = Len(a) /\ m = Len(b) /\ v = Len(c)
    BY <1>4, <1>5, <1>6, <1>8, <1>11
  <1>14. ab \in Seq(S) /\ Len(ab) = u + m
    <2>1. a \in Seq(S) /\ b \in Seq(S)
      BY <1>4, <1>11
    <2>2. a \o b \in Seq(S) /\ Len(a \o b) = Len(a) + Len(b)
      BY <2>1, ConcatProperties, Zenon
    <2> QED
      BY <1>7, <1>13, <2>2, Zenon
  <1>15. w = Len(ab)
    BY <1>8, <1>14
  <1>12. abc \in Seq(S) /\ Len(abc) = w + v
    <2>1. ab \in Seq(S) /\ c \in Seq(S)
      BY <1>6, <1>14
    <2>2. ab \o c \in Seq(S) /\ Len(ab \o c) = Len(ab) + Len(c)
      BY <2>1, ConcatProperties, Zenon
    <2> QED
      BY <1>7, <1>13, <1>15, <2>2, Zenon
  <1>9. abc \in Seq(S) /\ Len(abc) = TextLength(i, t)
    BY <1>5, <1>8, <1>12 DEF TextLength
  <1>10. s = abc
    BY <1>1, <1>3, <1>7, Zenon DEF StatusText
  <1> QED
    BY <1>9, <1>10

StatusReadIs(i, t, off) ==
  \E x \in Esps : \E s : /\ s = StatusText(i, t, x)
                         /\ StatusRead(i, t, off, BUF).ok
                         /\ off = 0 => StatusRead(i, t, off, BUF).got = s
                         /\ off = Len(s) => StatusRead(i, t, off, BUF).got = <<>>

LEMMA StatusReads ==
  ASSUME SlotsFill, NEW t \in Task, NEW i, TaskAttivo(i), NEW off \in Nat
  PROVE  StatusReadIs(i, t, off)
  <1>1. PICK x, s, r : x = slots[i] /\ s = StatusText(i, t, x) /\ r = StatusRead(i, t, off, BUF)
    OBVIOUS
  <1>2. i \in Slot /\ x \in Esps
    BY <1>1 DEF TaskAttivo, SlotsFill
  <1>3. t \in Slot
    BY ShellAssumption, ProcfsAssumption DEF Slot
  <1>4. Len(s) < PROC_STATUS_MAX /\ Len(s) <= BUF /\ BUF \in Nat \ {0} /\ PROC_STATUS_MAX \in Nat
    BY <1>1, <1>2, <1>3, ShellAssumption, ProcfsAssumption
  <1>5. PICK S : s \in Seq(S) /\ Len(s) \in Nat /\ Len(s) # 0
    BY <1>1, StatusTextIs, TextLengthIs
  <1>6. SubSeq(s, 1, Len(s)) = s
    BY <1>5, WholeCut
  <1>7. GeneraStatus(i, t) = [ok |-> TRUE, text |-> s]
    <2>1. ~(Len(s) >= PROC_STATUS_MAX)
      BY <1>4, <1>5
    <2>2. Snprintf(PROC_STATUS_MAX, s) = [text |-> s, wanted |-> Len(s)]
      BY <1>4, <1>6 DEF Snprintf
    <2>3. StatusText(i, t, slots[i]) = s
      BY <1>1
    <2>4. PICK g : g = Snprintf(PROC_STATUS_MAX, StatusText(i, t, slots[i]))
      OBVIOUS
    <2>5. g = [text |-> s, wanted |-> Len(s)]
      BY <2>2, <2>3, <2>4, Zenon
    <2>6. g.text = s /\ ~(g.wanted >= PROC_STATUS_MAX)
      BY <2>1, <2>5
    <2> QED
      BY <2>4, <2>6 DEF GeneraStatus
  <1>8. r = [ok |-> TRUE, got |-> IF off >= Len(s) THEN <<>>
                                  ELSE SubSeq(s, off + 1, IF BUF > Len(s) - off THEN Len(s) ELSE off + BUF)]
    BY <1>1, <1>4, <1>7 DEF StatusRead
  <1>9. off = 0 => r.got = s
    <2> SUFFICES ASSUME off = 0 PROVE r.got = s
      OBVIOUS
    <2>1. (IF BUF > Len(s) - off THEN Len(s) ELSE off + BUF) = Len(s) /\ off + 1 = 1 /\ ~(off >= Len(s))
      BY <1>4, <1>5
    <2> QED
      BY <1>6, <1>8, <2>1
  <1>10. off = Len(s) => r.got = <<>>
    BY <1>5, <1>8
  <1> QED
    <2>1. r.ok
      BY <1>8
    <2> QED
      BY <1>1, <1>2, <1>9, <1>10, <2>1, Zenon DEF StatusReadIs

LEMMA StatusPrints ==
  ASSUME SlotsFill, NEW t \in Task, NEW d, IsCall(d), d.c.n \in Nat, Fits(d.c, d.node), d.node.is = "status",
         Printing(d, t), NEW e, e.c = d.c, e.node = d.node, NEW refused
  PROVE  /\ VfsRead(t, d.node, d.off, refused).ok
         /\ PrintsRight(d, t, e, VfsRead(t, d.node, d.off, refused).got, FALSE)
  <1>1. PICK i, off, r, got, n : i = d.node.i /\ off = d.off /\ r = VfsRead(t, d.node, d.off, refused) /\ got = r.got /\ n = d.c.n
    OBVIOUS
  <1>2. TaskAttivo(i) /\ off \in Nat /\ r = StatusRead(i, t, off, BUF) /\ n \in Nat
    BY <1>1 DEF Fits, IsCall, VfsRead
  <1>3. PICK x, s : x \in Esps /\ s = StatusText(i, t, x) /\ r.ok /\ (off = 0 => got = s) /\ (off = Len(s) => got = <<>>)
    BY <1>1, <1>2, StatusReads DEF StatusReadIs
  <1>4. PICK S : s \in Seq(S) /\ Len(s) = TextLength(i, t)
    BY <1>3, StatusTextIs, Zenon
  <1>5. Below(d) /\ (n = 0 \/ Len(d.out) < n)
    BY <1>1 DEF Printing, Below
  <1>6. CASE d.out = <<>> /\ off = 0
    <2>1. got = s /\ got # <<>> /\ Len(s) \in Nat
      BY <1>3, <1>4, <1>6, TextLengthIs
    <2>2. ASSUME GoesOn(d, FALSE, got), e.out = d.out \o got, e.off = d.off + Len(got)
          PROVE  Printing(e, t)
      <3>1. e.out = s /\ e.off = Len(s)
        <4>1. PICK j : j = d.out \o got
          OBVIOUS
        <4>2. j = s
          BY <1>4, <1>6, <2>1, <4>1
        <4>3. 0 + Len(s) = Len(s)
          BY <2>1
        <4> QED
          BY <1>1, <1>6, <2>1, <2>2, <4>1, <4>2, <4>3
      <3>2. Below(e)
        BY <1>1, <1>4, <1>6, <2>1, <2>2, <3>1 DEF GoesOn, Below
      <3> QED
        BY <1>1, <1>3, <3>1, <3>2 DEF Printing
    <2>3. ASSUME NEW k, EndsAt(d, FALSE, got, k), e.out = d.out \o SubSeq(got, 1, k)
          PROVE  Printed(e, t)
      <3>1. k \in 1 .. Len(s) /\ n # 0 /\ k = n
        BY <1>1, <1>2, <1>6, <2>1, <2>3 DEF EndsAt
      <3>2. PICK p : p = SubSeq(s, 1, n)
        OBVIOUS
      <3>3. p \in Seq(S)
        BY <1>4, <2>1, <3>1, <3>2, CutIs
      <3>4. e.out = p
        BY <1>6, <2>1, <2>3, <3>1, <3>2, <3>3
      <3>5. CutTo(e, s) = p
        <4>1. (IF n = 0 \/ Len(s) < n THEN Len(s) ELSE n) = n
          BY <2>1, <3>1
        <4> QED
          BY <1>1, <3>2, <4>1 DEF CutTo
      <3> QED
        BY <1>1, <1>3, <3>4, <3>5 DEF Printed
    <2> QED
      BY <1>1, <1>3, <1>4, <2>1, <2>2, <2>3 DEF PrintsRight
  <1>7. CASE (\E y \in Esps : d.out = StatusText(i, t, y)) /\ off = Len(d.out)
    <2>1. PICK y \in Esps : d.out = StatusText(i, t, y)
      BY <1>7
    <2>2. PICK Q : d.out \in Seq(Q) /\ Len(d.out) = TextLength(i, t)
      BY <2>1, StatusTextIs, Zenon
    <2>3. got = <<>>
      BY <1>3, <1>4, <1>7, <2>2
    <2>4. ASSUME e.out = d.out PROVE Printed(e, t)
      <3>1. CutTo(e, d.out) = d.out
        <4>1. (IF n = 0 \/ Len(d.out) < n THEN Len(d.out) ELSE n) = Len(d.out)
          BY <1>5
        <4>2. SubSeq(d.out, 1, Len(d.out)) = d.out
          BY <2>2, WholeCut
        <4> QED
          BY <1>1, <4>1, <4>2 DEF CutTo
      <3> QED
        BY <1>1, <2>1, <2>4, <3>1 DEF Printed
    <2>5. \A k : ~EndsAt(d, FALSE, got, k)
      BY <2>3 DEF EndsAt
    <2>6. got \in Seq({})
      BY <2>3
    <2> QED
      BY <1>1, <1>3, <2>3, <2>4, <2>5, <2>6 DEF PrintsRight
  <1> QED
    BY <1>1, <1>6, <1>7 DEF Printing


(* A read of a disk goes on, to its end at most, or begins in the bad sector. *)
LEMMA ReachesIs ==
  ASSUME NEW off \in Nat, NEW end \in Nat, off < end, NEW refused \in Nat, NEW to, to = Reaches(off, end, refused)
  PROVE  to \in Nat /\ off <= to /\ to <= end /\ (to = off => StartsIn(off, refused))
  <1>1. SECTOR_SIZE \in Nat /\ refused * SECTOR_SIZE \in Nat
    BY DevfsAssumption
  <1>2. PICK bad : bad = refused * SECTOR_SIZE
    OBVIOUS
  <1>3. to = IF end <= bad \/ bad + SECTOR_SIZE <= off THEN end ELSE IF bad < off THEN off ELSE bad
    BY <1>2 DEF Reaches
  <1>4. StartsIn(off, refused) <=> bad <= off /\ off < bad + SECTOR_SIZE
    BY <1>2 DEF StartsIn
  <1> QED
    BY <1>1, <1>2, <1>3, <1>4

LEMMA BlkReadIs ==
  ASSUME NEW i, "read" \in Entry(i).caps, NEW off, NEW n, NEW refused, NEW size, size = pool[i]["size"],
         NEW end, end = (IF n > size - off THEN size ELSE off + n), NEW to, to = Reaches(off, end, refused),
         NEW r, r = BlkRead(i, off, n, refused)
  PROVE  /\ off >= size => r.ok /\ r.got = <<>>
         /\ ~(off >= size) => (r.ok <=> to > off \/ to = end) /\ r.got = SubSeq(Content(i), off + 1, to)
  <1>1. CASE off >= size
    <2>1. r = [ok |-> TRUE, got |-> <<>>]
      BY <1>1 DEF BlkRead
    <2> QED
      BY <1>1, <2>1
  <1>2. CASE ~(off >= size)
    <2>1. PICK got : got = SubSeq(Content(i), off + 1, to)
      OBVIOUS
    <2>2. CASE to > off \/ to = end
      <3>1. r = [ok |-> TRUE, got |-> got]
        BY <1>2, <2>1, <2>2 DEF BlkRead
      <3>2. r.ok /\ r.got = got
        BY <3>1
      <3> QED
        BY <1>2, <2>1, <2>2, <3>2
    <2>3. CASE ~(to > off \/ to = end)
      <3>1. r = [ok |-> FALSE, got |-> got]
        BY <1>2, <2>1, <2>3 DEF BlkRead
      <3>2. ~r.ok /\ r.got = got
        BY <3>1
      <3> QED
        BY <1>2, <2>1, <2>3, <3>2
    <2> QED
      BY <2>2, <2>3
  <1> QED
    BY <1>1, <1>2

LEMMA BlockPrints ==
  ASSUME DInv, PoolServes, NEW t, NEW d, IsCall(d), d.c.n \in Nat, Fits(d.c, d.node),
         d.node.is = "device", TypeOf(d.node) = "block", Printing(d, t), NEW e, e.c = d.c, e.node = d.node,
         NEW refused \in Nat,
         VfsRead(t, d.node, d.off, refused).ok
  PROVE  PrintsRight(d, t, e, VfsRead(t, d.node, d.off, refused).got, FALSE)
  <1>1. PICK i, off, r, got, n, C, size, out :
          /\ i = d.node.i /\ off = d.off /\ r = VfsRead(t, d.node, d.off, refused) /\ got = r.got /\ n = d.c.n
          /\ C = Content(i) /\ size = pool[i]["size"] /\ out = d.out
    OBVIOUS
  <1>2. i \in Places /\ Ready(i)
    BY <1>1 DEF Fits
  <1>3. pool[i]["type"] = "block"
    BY <1>1 DEF TypeOf, IsDir
  <1>4. PICK S : size \in Nat /\ C \in Seq(S) /\ Len(C) = size /\ pool[i]["ops"] = "blk"
    BY <1>1, <1>2, <1>3, SizeIs
  <1>5. r = BlkRead(i, off, BUF, refused) /\ BUF \in Nat \ {0} /\ off \in Nat /\ n \in Nat
    BY <1>1, <1>4, ShellAssumption DEF VfsRead, IsCall
  <1>6. off <= size /\ out = SubSeq(C, 1, off)
    BY <1>1, <1>3, <1>4 DEF Printing
  <1>7. (n = 0 \/ Len(d.out) < n) /\ out \in Seq(S) /\ Len(out) = off
    <2>1. PICK one : one = 1
      OBVIOUS
    <2>2. one \in 1 .. Len(C) + 1 /\ off \in one - 1 .. Len(C) /\ off - one + 1 = off
      BY <1>4, <1>5, <1>6, <2>1
    <2>3. SubSeq(C, one, off) \in Seq(S) /\ Len(SubSeq(C, one, off)) = off - one + 1
      BY <1>4, <2>2, CutIs
    <2> QED
      BY <1>1, <1>6, <2>1, <2>2, <2>3 DEF Printing, Below
  <1>8. PICK end, to : end = (IF BUF > size - off THEN size ELSE off + BUF) /\ to = Reaches(off, end, refused)
    OBVIOUS
  <1>9. got = (IF off >= size THEN <<>> ELSE SubSeq(C, off + 1, to)) /\ (off >= size \/ to > off \/ to = end)
    <2>1. "read" \in Entry(i).caps
      BY <1>1, <1>5 DEF BlkRead
    <2>2. r.ok
      BY <1>1
    <2>3. /\ off >= size => r.got = <<>>
          /\ ~(off >= size) => (r.ok <=> to > off \/ to = end) /\ r.got = SubSeq(Content(i), off + 1, to)
      BY <1>1, <1>5, <1>8, <2>1, BlkReadIs
    <2>4. got = r.got /\ C = Content(i)
      BY <1>1
    <2> QED
      BY <2>2, <2>3, <2>4
  <1>10. CASE off >= size
    <2>1. off = size /\ got = <<>> /\ got \in Seq({})
      BY <1>4, <1>5, <1>6, <1>10, <1>9
    <2>2. ASSUME e.out = d.out PROVE Printed(e, t)
      <3>1. e.out = C
        <4>1. SubSeq(C, 1, Len(C)) = C
          BY <1>4, WholeCut
        <4>2. off = Len(C)
          BY <1>4, <2>1
        <4> QED
          BY <1>1, <1>6, <2>2, <4>1, <4>2
      <3>2. CutTo(e, C) = C
        <4>1. (IF n = 0 \/ Len(C) < n THEN Len(C) ELSE n) = Len(C)
          BY <1>1, <1>4, <1>7, <2>1
        <4>2. SubSeq(C, 1, Len(C)) = C
          BY <1>4, WholeCut
        <4> QED
          BY <1>1, <4>1, <4>2 DEF CutTo
      <3> QED
        BY <1>1, <3>1, <3>2 DEF Printed
    <2>3. \A k : ~EndsAt(d, FALSE, got, k)
      BY <2>1 DEF EndsAt
    <2> QED
      BY <1>1, <2>1, <2>2, <2>3 DEF PrintsRight
  <1>11. CASE ~(off >= size)
    <2>1. PICK b, m : b = to /\ m = off + 1
      OBVIOUS
    <2>2. b \in Nat /\ off < b /\ b <= size /\ m \in 1 .. Len(C) + 1 /\ b \in m - 1 .. Len(C) /\ b - m + 1 = b - off
      <3>1. end \in Nat /\ off < end /\ end <= size
        BY <1>4, <1>5, <1>6, <1>8, <1>11
      <3>2. to \in Nat /\ off <= to /\ to <= end
        BY <1>5, <1>8, <3>1, ReachesIs
      <3>3. off < to
        BY <1>5, <1>11, <1>9, <3>1, <3>2
      <3> QED
        BY <1>4, <1>5, <2>1, <3>1, <3>2, <3>3
    <2>3. got = SubSeq(C, m, b)
      BY <1>11, <1>9, <2>1
    <2>4. got \in Seq(S) /\ Len(got) = b - off
      BY <1>4, <2>2, <2>3, CutIs
    <2>5. got # <<>>
      BY <2>2, <2>4, <1>5
    <2>6. ASSUME GoesOn(d, FALSE, got), e.out = d.out \o got, e.off = d.off + Len(got)
          PROVE  Printing(e, t)
      <3>1. e.off = b
        BY <1>1, <1>5, <2>2, <2>4, <2>6
      <3>2. e.out = SubSeq(C, 1, b)
        <4>1. SubSeq(C, 1, off) \o SubSeq(C, off + 1, b) = SubSeq(C, 1, b)
          BY <1>4, <1>5, <2>2, CutsJoin
        <4> QED
          BY <1>1, <1>6, <2>1, <2>3, <2>6, <4>1
      <3>3. Len(e.out) = Len(d.out) + Len(got)
        <4>1. PICK j : j = out \o got
          OBVIOUS
        <4>2. out \in Seq(S) /\ got \in Seq(S)
          BY <1>7, <2>4
        <4>3. Len(out \o got) = Len(out) + Len(got)
          BY <4>2, ConcatProperties, Zenon
        <4> QED
          BY <1>1, <2>6, <4>3
      <3>4. Below(e)
        BY <1>1, <2>6, <3>3 DEF GoesOn, Below
      <3> QED
        BY <1>1, <1>3, <1>4, <2>2, <3>1, <3>2, <3>4 DEF Printing, TypeOf, IsDir
    <2>7. ASSUME NEW k, EndsAt(d, FALSE, got, k), e.out = d.out \o SubSeq(got, 1, k)
          PROVE  Printed(e, t)
      <3>1. k \in 1 .. b - off /\ n # 0 /\ off + k = n
        BY <1>1, <1>7, <2>4, <2>7 DEF EndsAt
      <3>2. n <= size /\ off <= n
        BY <1>4, <1>5, <2>2, <3>1
      <3>3. SubSeq(got, 1, k) = SubSeq(C, off + 1, off + k)
        BY <1>4, <1>5, <2>1, <2>2, <2>3, <3>1, CutOfCut
      <3>4. SubSeq(C, 1, off) \o SubSeq(C, off + 1, n) = SubSeq(C, 1, n)
        BY <1>4, <1>5, <3>2, CutsJoin
      <3>5. e.out = SubSeq(C, 1, n)
        BY <1>1, <1>6, <2>7, <3>1, <3>3, <3>4
      <3>6. CutTo(e, C) = SubSeq(C, 1, n)
        <4>1. (IF n = 0 \/ Len(C) < n THEN Len(C) ELSE n) = n
          BY <1>4, <1>5, <3>1, <3>2
        <4> QED
          BY <1>1, <4>1 DEF CutTo
      <3> QED
        BY <1>1, <3>5, <3>6 DEF Printed
    <2> QED
      BY <2>4, <2>5, <1>1, <2>6, <2>7 DEF PrintsRight
  <1> QED
    BY <1>10, <1>11

LEMMA CharPrints ==
  ASSUME DInv, PoolServes, keys \in Seq(Keys), NEW t, NEW d, IsCall(d), d.c.n \in Nat, Fits(d.c, d.node),
         d.node.is = "device", TypeOf(d.node) = "char", Printing(d, t), NEW e, e.c = d.c, e.node = d.node,
         NEW refused, VfsRead(t, d.node, d.off, refused).ok
  PROVE  PrintsRight(d, t, e, VfsRead(t, d.node, d.off, refused).got, TRUE)
  <1>1. PICK i, r, got, n, out, l :
          /\ i = d.node.i /\ r = VfsRead(t, d.node, d.off, refused) /\ got = r.got /\ n = d.c.n /\ out = d.out
          /\ l = IF BUF < Len(keys) THEN BUF ELSE Len(keys)
    OBVIOUS
  <1>2. i \in Places /\ Ready(i)
    BY <1>1 DEF Fits
  <1>3. pool[i]["type"] = "char"
    BY <1>1 DEF TypeOf, IsDir
  <1>4. pool[i]["ops"] = "chr"
    BY <1>2, <1>3, SizeIs
  <1>5. r = ChrRead(i, BUF) /\ BUF \in Nat \ {0} /\ n \in Nat
    BY <1>1, <1>4, ShellAssumption DEF VfsRead
  <1>6. got = SubSeq(keys, 1, l)
    BY <1>1, <1>5 DEF ChrRead
  <1>7. got \in Seq(Keys)
    <2>1. PICK one : one = 1
      OBVIOUS
    <2>2. one \in 1 .. Len(keys) + 1 /\ l \in one - 1 .. Len(keys)
      BY <1>1, <1>5, <2>1
    <2> QED
      BY <1>6, <2>1, <2>2, CutIs
  <1>8. (n = 0 \/ Len(d.out) < n) /\ out \in Seq(Keys) /\ \A k \in DOMAIN out : out[k] # "nl"
    BY <1>1 DEF Printing, Below
  <1>9. ASSUME GoesOn(d, TRUE, got), e.out = d.out \o got, e.off = d.off + Len(got)
        PROVE  Printing(e, t)
    <2>1. PICK j : j = out \o got
      OBVIOUS
    <2>2. j \in Seq(Keys) /\ Len(j) = Len(out) + Len(got) /\ DOMAIN j = 1 .. Len(out) + Len(got)
          /\ \A k \in 1 .. Len(out) + Len(got) : j[k] = IF k <= Len(out) THEN out[k] ELSE got[k - Len(out)]
      BY <1>7, <1>8, <2>1
    <2>3. \A k \in DOMAIN j : j[k] # "nl"
      <3> SUFFICES ASSUME NEW k \in DOMAIN j PROVE j[k] # "nl"
        OBVIOUS
      <3>1. CASE k <= Len(out)
        BY <1>8, <2>2, <3>1
      <3>2. CASE ~(k <= Len(out))
        <4>1. k - Len(out) \in DOMAIN got
          BY <1>7, <1>8, <2>2, <3>2
        <4> QED
          BY <1>9, <2>2, <3>2, <4>1 DEF GoesOn
      <3> QED
        BY <3>1, <3>2
    <2>4. Below(e)
      BY <1>1, <1>9, <2>1, <2>2 DEF GoesOn, Below
    <2>5. e.out = j /\ e.node.is = "device" /\ TypeOf(e.node) = "char"
      BY <1>1, <1>9, <2>1
    <2> QED
      BY <2>2, <2>3, <2>4, <2>5 DEF Printing
  <1>10. ASSUME NEW k, EndsAt(d, TRUE, got, k), e.out = d.out \o SubSeq(got, 1, k)
         PROVE  Printed(e, t)
    <2>1. PICK m, p, j : m = Len(out) /\ p = SubSeq(got, 1, k) /\ j = out \o p
      OBVIOUS
    <2>2. k \in 1 .. Len(got) /\ (\A h \in 1 .. k - 1 : got[h] # "nl")
          /\ ((n # 0 /\ m + k = n) \/ got[k] = "nl")
      BY <1>1, <1>10, <2>1 DEF EndsAt
    <2>3. p \in Seq(Keys) /\ Len(p) = k /\ \A h \in 1 .. k : p[h] = got[h]
      <3>1. PICK one : one = 1
        OBVIOUS
      <3>2. one \in 1 .. Len(got) + 1 /\ k \in one - 1 .. Len(got)
        BY <2>2, <3>1
      <3>3. p \in Seq(Keys) /\ Len(p) = k - one + 1 /\ \A h \in 1 .. k - one + 1 : p[h] = got[one + h - 1]
        BY <1>7, <2>1, <3>1, <3>2, CutIs
      <3> QED
        BY <2>2, <3>1, <3>3
    <2>4. /\ j \in Seq(Keys) /\ Len(j) = m + k /\ DOMAIN j = 1 .. m + k /\ m \in Nat
          /\ \A h \in 1 .. m + k : j[h] = IF h <= m THEN out[h] ELSE p[h - m]
      BY <1>8, <2>1, <2>3
    <2>5. j[Len(j)] = got[k] /\ j # <<>>
      <3>1. m + k \in 1 .. m + k /\ ~(m + k <= m) /\ m + k - m = k /\ k \in 1 .. k /\ m + k # 0
        BY <2>2, <2>4
      <3> QED
        BY <2>3, <2>4, <3>1
    <2>6. \A h \in DOMAIN j : j[h] = "nl" => h = Len(j)
      <3> SUFFICES ASSUME NEW h \in DOMAIN j, j[h] = "nl", h # Len(j) PROVE FALSE
        OBVIOUS
      <3>1. CASE h <= m
        <4>1. h \in DOMAIN out
          BY <1>8, <2>1, <2>4, <3>1
        <4> QED
          BY <1>8, <2>4, <3>1, <4>1
      <3>2. CASE ~(h <= m)
        <4>1. h - m \in 1 .. k - 1
          BY <2>2, <2>4, <3>2
        <4>2. h - m \in 1 .. k
          BY <2>2, <4>1
        <4> QED
          BY <2>2, <2>3, <2>4, <3>2, <4>1, <4>2
      <3> QED
        BY <3>1, <3>2
    <2>7. e.out = j /\ (j[Len(j)] = "nl" \/ Len(j) = n)
      BY <1>1, <1>10, <2>1, <2>2, <2>4, <2>5
    <2> QED
      BY <1>1, <1>3, <2>5, <2>6, <2>7 DEF Printed, TypeOf, IsDir
  <1> QED
    BY <1>1, <1>7, <1>9, <1>10 DEF PrintsRight

(* What a read is refused, and that nothing came with it.                    *)
NotRead(d, refused) ==
  \/ "read" \notin Entry(d.node.i).caps
  \/ TypeOf(d.node) = "block" /\ d.off < Len(Content(d.node.i)) /\ StartsIn(d.off, refused)

LEMMA ReadRefused ==
  ASSUME SlotsFill, DInv, PoolServes, NEW t \in Task, NEW d, IsCall(d), d.c.n \in Nat, Fits(d.c, d.node), ~IsDir(d.node),
         Printing(d, t), NEW refused \in Nat, ~VfsRead(t, d.node, d.off, refused).ok
  PROVE  /\ d.node.is = "device" /\ NotRead(d, refused)
         /\ \E Q : VfsRead(t, d.node, d.off, refused).got \in Seq(Q)
  <1>1. d.node.is \in {"device", "status"}
    BY DEF Fits, IsDir
  <1>2. d.node.is # "status"
    BY StatusPrints
  <1>3. d.node.is = "device"
    BY <1>1, <1>2
  <1>4. PICK i, off, r, C, size :
          /\ i = d.node.i /\ off = d.off /\ r = VfsRead(t, d.node, d.off, refused)
          /\ C = Content(i) /\ size = pool[i]["size"]
    OBVIOUS
  <1>5. i \in Places /\ Ready(i) /\ off \in Nat /\ BUF \in Nat \ {0}
    BY <1>3, <1>4, ShellAssumption DEF Fits, IsCall
  <1>6. PICK S : size \in Nat /\ C \in Seq(S) /\ Len(C) = size
    BY <1>4, <1>5, SizeIs
  <1>7. CASE "read" \notin Entry(i).caps
    <2>1. r.got = <<>>
      BY <1>3, <1>4, <1>7 DEF VfsRead, ChrRead, BlkRead
    <2>2. r.got \in Seq({})
      BY <2>1
    <2> QED
      BY <1>3, <1>4, <1>7, <2>2 DEF NotRead
  <1>8. CASE "read" \in Entry(i).caps
    <2>1. pool[i]["ops"] # "chr" /\ r = BlkRead(i, off, BUF, refused)
      BY <1>3, <1>4, <1>8 DEF VfsRead, ChrRead
    <2>2. TypeOf(d.node) = "block"
      BY <1>3, <1>4, <1>5, <2>1, SizeIs DEF TypeOf, IsDir
    <2>3. PICK end, to, m :
            /\ end = (IF BUF > size - off THEN size ELSE off + BUF) /\ to = Reaches(off, end, refused)
            /\ m = off + 1
      OBVIOUS
    <2>4. ~(off >= size) /\ ~(to > off \/ to = end) /\ r.got = SubSeq(C, m, to)
      BY <1>4, <1>8, <2>1, <2>3, BlkReadIs
    <2>5. end \in Nat /\ off < end /\ off < size
      BY <1>5, <1>6, <2>3, <2>4
    <2>6. to = off /\ StartsIn(off, refused)
      <3>1. to \in Nat /\ off <= to /\ (to = off => StartsIn(off, refused))
        BY <1>5, <2>3, <2>5, ReachesIs
      <3> QED
        BY <1>5, <2>4, <3>1
    <2>7. m \in 1 .. Len(C) + 1 /\ to \in m - 1 .. Len(C)
      BY <1>5, <1>6, <2>3, <2>5, <2>6
    <2>8. r.got \in Seq(S)
      BY <1>6, <2>4, <2>7, CutIs
    <2> QED
      BY <1>3, <1>4, <1>6, <2>2, <2>5, <2>6, <2>8 DEF NotRead
  <1> QED
    BY <1>7, <1>8


(* What is left of the line of the keyboard.                                 *)
LEMMA KeysLeft ==
  ASSUME keys \in Seq(Keys), NEW Q, NEW got \in Seq(Q)
  PROVE  SubSeq(keys, Len(got) + 1, Len(keys)) \in Seq(Keys)
  <1>1. PICK m, n : m = Len(got) + 1 /\ n = Len(keys)
    OBVIOUS
  <1>2. m \in Int /\ n \in Int /\ \A k \in m .. n : k \in 1 .. Len(keys)
    BY <1>1
  <1>3. \A k \in m .. n : keys[k] \in Keys
    BY <1>2
  <1>4. SubSeq(keys, m, n) \in Seq(Keys)
    BY <1>2, <1>3, SubSeqProperties
  <1> QED
    BY <1>1, <1>4

Reading(t, d) ==
  /\ d.pc = "read" /\ IsCall(d) /\ d.c \in Commands[t] /\ DueFits(d.c, d.due) /\ d.c.cmd = "cat"
  /\ d.end = "none" /\ ~IsDir(d.node) /\ Fits(d.c, d.node) /\ Printing(d, t)

LEMMA ErrorFits ==
  ASSUME NEW t, NEW d, Reading(t, d), d.node.is = "device", NEW refused \in Nat, NotRead(d, refused)
  PROVE  CallFits(t, [d EXCEPT !.pc = "done", !.end = "error", !.refused = refused])
  <1>1. PICK e : e = [d EXCEPT !.pc = "done", !.end = "error", !.refused = refused]
    OBVIOUS
  <1>2. /\ IsCall(d) /\ d.c \in Commands[t] /\ DueFits(d.c, d.due) /\ Fits(d.c, d.node)
        /\ d.c.cmd = "cat" /\ Printing(d, t)
    BY DEF Reading
  <1>3. e = [pc |-> "done", c |-> d.c, node |-> d.node, idx |-> d.idx, i |-> d.i, pos |-> d.pos,
             off |-> d.off, out |-> d.out, end |-> "error", due |-> d.due,
             refused |-> refused]
    BY <1>1, <1>2 DEF IsCall
  <1>4. IsCall(e)
    BY <1>2, <1>3 DEF IsCall
  <1>5. /\ e.pc = "done" /\ e.c = d.c /\ e.due = d.due /\ e.end = "error" /\ e.node = d.node
        /\ e.off = d.off /\ e.out = d.out /\ e.refused = refused
    BY <1>3
  <1>6. Printing(e, t)
    BY <1>2, <1>5 DEF Printing, Below
  <1>7. Refused(e, t)
    BY <1>5, <1>6 DEF NotRead, Refused
  <1>8. CallFits(t, e)
    BY <1>2, <1>4, <1>5, <1>7 DEF CallFits
  <1> QED
    BY <1>1, <1>8

LEMMA PrintedFits ==
  ASSUME NEW t, NEW d, Reading(t, d), NEW off \in Nat, NEW Q, NEW out \in Seq(Q),
         NEW e, e = [d EXCEPT !.off = off, !.out = out, !.pc = "done", !.end = "ok"], Printed(e, t)
  PROVE  CallFits(t, e)
  <1>1. /\ IsCall(d) /\ d.c \in Commands[t] /\ DueFits(d.c, d.due) /\ Fits(d.c, d.node) /\ d.c.cmd = "cat"
        /\ ~IsDir(d.node)
    BY DEF Reading
  <1>2. e = [pc |-> "done", c |-> d.c, node |-> d.node, idx |-> d.idx, i |-> d.i, pos |-> d.pos,
             off |-> off, out |-> out, end |-> "ok", due |-> d.due,
             refused |-> d.refused]
    BY <1>1 DEF IsCall
  <1>3. IsCall(e)
    <2>1. /\ e.pc = "done" /\ e.c = d.c /\ e.node = d.node /\ e.idx = d.idx /\ e.i = d.i /\ e.pos = d.pos
          /\ e.off = off /\ e.out = out /\ e.end = "ok" /\ e.due = d.due
      BY <1>2
    <2>2. \E S : e.out \in Seq(S)
      BY <2>1
    <2>3. e.idx \in Nat /\ e.i \in Nat /\ e.pos \in Nat /\ e.off \in Nat /\ e.refused \in Nat
      BY <1>1, <1>2, <2>1 DEF IsCall
    <2>4. e = [pc |-> e.pc, c |-> e.c, node |-> e.node, idx |-> e.idx, i |-> e.i, pos |-> e.pos,
               off |-> e.off, out |-> e.out, end |-> e.end, due |-> e.due,
               refused |-> e.refused]
      BY <1>2, <2>1
    <2> QED
      BY <2>1, <2>2, <2>3, <2>4 DEF IsCall
  <1>4. e.pc = "done" /\ e.c = d.c /\ e.due = d.due /\ e.end = "ok" /\ e.node = d.node
    BY <1>2
  <1> QED
    BY <1>1, <1>3, <1>4 DEF CallFits

LEMMA PrintingFits ==
  ASSUME NEW t, NEW d, Reading(t, d), NEW off \in Nat, NEW Q, NEW out \in Seq(Q),
         NEW e, e = [d EXCEPT !.off = off, !.out = out], Printing(e, t)
  PROVE  CallFits(t, e)
  <1>1. /\ IsCall(d) /\ d.c \in Commands[t] /\ DueFits(d.c, d.due) /\ Fits(d.c, d.node) /\ d.c.cmd = "cat"
        /\ ~IsDir(d.node) /\ d.pc = "read" /\ d.end = "none"
    BY DEF Reading
  <1>2. e = [pc |-> d.pc, c |-> d.c, node |-> d.node, idx |-> d.idx, i |-> d.i, pos |-> d.pos,
             off |-> off, out |-> out, end |-> d.end, due |-> d.due,
             refused |-> d.refused]
    BY <1>1 DEF IsCall
  <1>3. IsCall(e)
    BY <1>1, <1>2 DEF IsCall
  <1>4. e.pc = d.pc /\ e.c = d.c /\ e.due = d.due /\ e.end = d.end /\ e.node = d.node
    BY <1>2
  <1> QED
    BY <1>1, <1>3, <1>4 DEF CallFits

(* Whatever is read prints right.                                            *)
LEMMA ReadsRight ==
  ASSUME DInv, PoolServes, SlotsFill, keys \in Seq(Keys), NEW t \in Task, NEW d, Reading(t, d), d.c.n \in Nat,
         NEW refused \in Nat, VfsRead(t, d.node, d.off, refused).ok, NEW e, e.c = d.c, e.node = d.node
  PROVE  PrintsRight(d, t, e, VfsRead(t, d.node, d.off, refused).got, TypeOf(d.node) = "char")
  <1>1. /\ IsCall(d) /\ d.c \in Commands[t] /\ Fits(d.c, d.node) /\ ~IsDir(d.node) /\ Printing(d, t)
    BY DEF Reading
  <1>2. CASE d.node.is = "status"
    <2>1. PrintsRight(d, t, e, VfsRead(t, d.node, d.off, refused).got, FALSE)
      BY <1>1, <1>2, StatusPrints
    <2>2. (TypeOf(d.node) = "char") = FALSE
      BY <1>2 DEF TypeOf, IsDir
    <2> QED
      BY <2>1, <2>2, Zenon
  <1>3. CASE d.node.is = "device"
    <2>1. PICK i : i = d.node.i
      OBVIOUS
    <2>2. i \in Places /\ Ready(i)
      BY <1>1, <1>3, <2>1 DEF Fits
    <2>3. TypeOf(d.node) \in {"char", "block"}
      BY <1>3, <2>1, <2>2, SizeIs DEF TypeOf, IsDir
    <2>4. CASE TypeOf(d.node) = "block"
      <3>1. PrintsRight(d, t, e, VfsRead(t, d.node, d.off, refused).got, FALSE)
        BY <1>1, <1>3, <2>4, BlockPrints
      <3>2. (TypeOf(d.node) = "char") = FALSE
        BY <2>4
      <3> QED
        BY <3>1, <3>2, Zenon
    <2>5. CASE TypeOf(d.node) = "char"
      <3>1. PrintsRight(d, t, e, VfsRead(t, d.node, d.off, refused).got, TRUE)
        BY <1>1, <1>3, <2>5, CharPrints
      <3>2. (TypeOf(d.node) = "char") = TRUE
        BY <2>5
      <3> QED
        BY <3>1, <3>2, Zenon
    <2> QED
      BY <2>3, <2>4, <2>5
  <1> QED
    BY <1>1, <1>2, <1>3 DEF Fits, IsDir

LEMMA PrintsFit ==
  ASSUME DInv, PoolServes, SlotsFill, keys \in Seq(Keys), NEW t \in Task, Reading(t, call[t]), call[t].c.n \in Nat,
         NEW refused \in Nat, VfsRead(t, call[t].node, call[t].off, refused).ok,
         NEW got, got = VfsRead(t, call[t].node, call[t].off, refused).got,
         NEW disp \in BOOLEAN, disp = (TypeOf(call[t].node) = "char"),
         CatPrints(t, got, disp, Ending(call[t], disp, got))
  PROVE  call' = call \/ \E e : Goes(t, e) /\ CallFits(t, e)
  <1>1. PICK d : d = call[t]
    OBVIOUS
  <1>2. Reading(t, d) /\ IsCall(d) /\ Below(d) /\ d.c.n \in Nat /\ d.off \in Nat
    BY <1>1 DEF Reading, Printing, IsCall
  <1>3. \A e : e.c = d.c /\ e.node = d.node => PrintsRight(d, t, e, got, disp)
    BY <1>1, <1>2, ReadsRight
  <1>4. PICK Q : got \in Seq(Q)
    BY <1>3 DEF PrintsRight
  <1>5. PICK S : d.out \in Seq(S)
    BY <1>2 DEF IsCall
  <1>6. /\ Ending(d, disp, got) = {} => GoesOn(d, disp, got)
        /\ \A k \in Ending(d, disp, got) : (\A j \in Ending(d, disp, got) : k <= j) => EndsAt(d, disp, got, k)
    BY <1>2, <1>4, <1>5, EndingIs
  <1>7. CASE UNCHANGED <<call, fds>>
    BY <1>7
  <1>8. CASE got = <<>> /\ ~disp /\ Ends(t, "ok")
    <2>1. PICK e : e = [d EXCEPT !.off = d.off, !.out = d.out, !.pc = "done", !.end = "ok"]
      OBVIOUS
    <2>2. e = [pc |-> "done", c |-> d.c, node |-> d.node, idx |-> d.idx, i |-> d.i, pos |-> d.pos,
               off |-> d.off, out |-> d.out, end |-> "ok", due |-> d.due,
               refused |-> d.refused]
      BY <1>2, <2>1 DEF IsCall
    <2>3. [d EXCEPT !.pc = "done", !.end = "ok"] = e
      <3>1. PICK h : h = [d EXCEPT !.pc = "done", !.end = "ok"]
        OBVIOUS
      <3>2. h = [pc |-> "done", c |-> d.c, node |-> d.node, idx |-> d.idx, i |-> d.i, pos |-> d.pos,
                 off |-> d.off, out |-> d.out, end |-> "ok", due |-> d.due,
                 refused |-> d.refused]
        BY <1>2, <3>1 DEF IsCall
      <3> QED
        BY <2>2, <3>1, <3>2
    <2>4. Goes(t, e)
      BY <1>1, <1>8, <2>3 DEF Ends
    <2>5. e.c = d.c /\ e.node = d.node /\ e.out = d.out
      BY <2>2
    <2>6. Printed(e, t)
      BY <1>3, <1>8, <2>5 DEF PrintsRight
    <2>7. CallFits(t, e)
      BY <1>2, <1>5, <2>1, <2>6, PrintedFits
    <2> QED
      BY <2>4, <2>7
  <1>9. CASE got # <<>> /\ Ending(d, disp, got) = {}
             /\ Goes(t, [d EXCEPT !.off = @ + Len(got), !.out = @ \o got])
    <2>1. PICK off, out : off = d.off + Len(got) /\ out = d.out \o got
      OBVIOUS
    <2>2. PICK e : e = [d EXCEPT !.off = off, !.out = out]
      OBVIOUS
    <2>3. Goes(t, e)
      BY <1>9, <2>1, <2>2
    <2>4. e = [pc |-> d.pc, c |-> d.c, node |-> d.node, idx |-> d.idx, i |-> d.i, pos |-> d.pos,
               off |-> off, out |-> out, end |-> d.end, due |-> d.due,
               refused |-> d.refused]
      BY <1>2, <2>2 DEF IsCall
    <2>5. e.c = d.c /\ e.node = d.node /\ e.out = out /\ e.off = off
      BY <2>4
    <2>6. Printing(e, t)
      BY <1>3, <1>6, <1>9, <2>1, <2>5 DEF PrintsRight
    <2>7. off \in Nat /\ out \in Seq(S \cup Q)
      <3>1. d.out \in Seq(S \cup Q) /\ got \in Seq(S \cup Q)
        BY <1>4, <1>5
      <3> QED
        BY <1>2, <1>4, <2>1, <3>1
    <2>8. CallFits(t, e)
      BY <1>2, <2>2, <2>6, <2>7, PrintingFits
    <2> QED
      BY <2>3, <2>8
  <1>10. ASSUME NEW k \in Ending(d, disp, got), \A j \in Ending(d, disp, got) : k <= j,
                Goes(t, [[d EXCEPT !.off = @ + Len(got), !.out = @ \o got] EXCEPT
                           !.out = d.out \o SubSeq(got, 1, k), !.pc = "done", !.end = "ok"])
         PROVE  \E e : Goes(t, e) /\ CallFits(t, e)
    <2>1. PICK off, mid, out : off = d.off + Len(got) /\ mid = d.out \o got /\ out = d.out \o SubSeq(got, 1, k)
      OBVIOUS
    <2>2. PICK m : m = [d EXCEPT !.off = off, !.out = mid]
      OBVIOUS
    <2>3. PICK e : e = [m EXCEPT !.out = out, !.pc = "done", !.end = "ok"]
      OBVIOUS
    <2>4. Goes(t, e)
      BY <1>10, <2>1, <2>2, <2>3
    <2>5. m = [pc |-> d.pc, c |-> d.c, node |-> d.node, idx |-> d.idx, i |-> d.i, pos |-> d.pos,
               off |-> off, out |-> mid, end |-> d.end, due |-> d.due,
               refused |-> d.refused]
      BY <1>2, <2>2 DEF IsCall
    <2>6. e = [pc |-> "done", c |-> d.c, node |-> d.node, idx |-> d.idx, i |-> d.i, pos |-> d.pos,
               off |-> off, out |-> out, end |-> "ok", due |-> d.due,
               refused |-> d.refused]
      BY <2>3, <2>5
    <2>7. PICK h : h = [d EXCEPT !.off = off, !.out = out, !.pc = "done", !.end = "ok"]
      OBVIOUS
    <2>8. h = [pc |-> "done", c |-> d.c, node |-> d.node, idx |-> d.idx, i |-> d.i, pos |-> d.pos,
               off |-> off, out |-> out, end |-> "ok", due |-> d.due,
               refused |-> d.refused]
      BY <1>2, <2>7 DEF IsCall
    <2>9. e = [d EXCEPT !.off = off, !.out = out, !.pc = "done", !.end = "ok"]
      BY <2>6, <2>7, <2>8
    <2>10. e.c = d.c /\ e.node = d.node /\ e.out = out
      BY <2>6
    <2>11. EndsAt(d, disp, got, k)
      BY <1>6, <1>10
    <2>12. Printed(e, t)
      BY <1>3, <2>1, <2>10, <2>11 DEF PrintsRight
    <2>13. off \in Nat /\ out \in Seq(S \cup Q)
      <3>1. k \in 1 .. Len(got)
        BY <2>11 DEF EndsAt
      <3>2. PICK one : one = 1
        OBVIOUS
      <3>3. one \in 1 .. Len(got) + 1 /\ k \in one - 1 .. Len(got)
        BY <1>4, <3>1, <3>2
      <3>4. PICK p : p = SubSeq(got, 1, k)
        OBVIOUS
      <3>5. p \in Seq(Q)
        BY <1>4, <3>2, <3>3, <3>4, CutIs
      <3>6. d.out \in Seq(S \cup Q) /\ p \in Seq(S \cup Q)
        BY <1>5, <3>5
      <3> QED
        <4>1. d.off \in Nat /\ Len(got) \in Nat
          <5>1. d.off \in Nat
            BY <1>2 DEF IsCall
          <5>2. Len(got) \in Nat
            BY <1>4
          <5> QED
            BY <5>1, <5>2
        <4>2. off \in Nat
          <5>1. off = d.off + Len(got)
            BY <2>1
          <5> QED
            BY <4>1, <5>1
        <4>3. out = d.out \o p
          BY <2>1, <3>4
        <4>4. PICK U : U = S \cup Q
          OBVIOUS
        <4>5. d.out \o p \in Seq(U)
          BY <3>6, <4>4
        <4> QED
          BY <4>2, <4>3, <4>4, <4>5
    <2>14. CallFits(t, e)
      BY <1>2, <2>9, <2>12, <2>13, PrintedFits
    <2> QED
      BY <2>4, <2>14
  <1> QED
    BY <1>1, <1>7, <1>8, <1>9, <1>10 DEF CatPrints


LEMMA ReadFits ==
  ASSUME Surroundings, NEW t \in Task, CallFits(t, call[t]), CatRead(t)
  PROVE  /\ call' = call \/ \E e : Goes(t, e) /\ CallFits(t, e)
         /\ keys' \in Seq(Keys)
  <1>1. PICK refused \in Refusals(call[t].node) :
          \E x \in {VfsRead(t, call[t].node, call[t].off, refused)} :
             LET dispositivo == TypeOf(call[t].node) = "char"
             IN  /\ \/ ~x.ok /\ CatFails(t, refused)
                    \/ x.ok /\ CatPrints(t, x.got, dispositivo, Ending(call[t], dispositivo, x.got))
                 /\ keys' = IF dispositivo THEN SubSeq(keys, Len(x.got) + 1, Len(keys)) ELSE keys
    BY DEF CatRead
  <1>2. refused \in Nat
    BY DEF Refusals
  <1>3. PICK d, r, disp, got : d = call[t] /\ r = VfsRead(t, d.node, d.off, refused) /\ disp = (TypeOf(d.node) = "char")
                               /\ got = r.got
    OBVIOUS
  <1>4. DInv /\ PoolServes /\ SlotsFill /\ keys \in Seq(Keys)
    BY DEF Surroundings
  <1>5. Reading(t, d)
    BY <1>3 DEF CatRead, At, CallFits, Reading
  <1>6. d.c.n \in Nat /\ disp \in BOOLEAN /\ IsCall(d) /\ Fits(d.c, d.node) /\ ~IsDir(d.node) /\ Printing(d, t)
    BY <1>3, <1>5, CommandIs DEF Reading, Command
  <1>7. /\ \/ ~r.ok /\ CatFails(t, refused)
           \/ r.ok /\ CatPrints(t, got, disp, Ending(d, disp, got))
        /\ keys' = IF disp THEN SubSeq(keys, Len(got) + 1, Len(keys)) ELSE keys
    BY <1>1, <1>3
  <1>8. CASE ~r.ok /\ CatFails(t, refused)
    <2>1. d.node.is = "device" /\ NotRead(d, refused) /\ \E Q : got \in Seq(Q)
      BY <1>3, <1>4, <1>6, <1>8, <1>2, ReadRefused
    <2>2. Goes(t, [d EXCEPT !.pc = "done", !.end = "error", !.refused = refused])
      BY <1>3, <1>8 DEF CatFails, Fails
    <2>3. CallFits(t, [d EXCEPT !.pc = "done", !.end = "error", !.refused = refused])
      BY <1>5, <1>2, <2>1, ErrorFits
    <2>4. PICK Q : got \in Seq(Q)
      BY <2>1
    <2>5. SubSeq(keys, Len(got) + 1, Len(keys)) \in Seq(Keys)
      BY <1>4, <2>4, KeysLeft
    <2> QED
      BY <1>4, <1>7, <2>2, <2>3, <2>5
  <1>9. CASE r.ok /\ CatPrints(t, got, disp, Ending(d, disp, got))
    <2>1. call' = call \/ \E e : Goes(t, e) /\ CallFits(t, e)
      BY <1>3, <1>4, <1>5, <1>6, <1>9, <1>2, PrintsFit
    <2>2. PrintsRight(d, t, d, got, disp)
      BY <1>3, <1>4, <1>5, <1>6, <1>9, <1>2, ReadsRight
    <2>3. PICK Q : got \in Seq(Q)
      BY <2>2 DEF PrintsRight
    <2>4. SubSeq(keys, Len(got) + 1, Len(keys)) \in Seq(Keys)
      BY <1>4, <2>3, KeysLeft
    <2> QED
      BY <1>4, <1>7, <2>1, <2>4
  <1> QED
    BY <1>7, <1>8, <1>9

-----------------------------------------------------------------------------
(* The whole: what happens around the commands, and what they do.            *)
LEMMA RestSurrounds ==
  ASSUME Surroundings, Rest, keys' \in Seq(Keys)
  PROVE  Surroundings' /\ Grows
  <1>1. DInv /\ PoolServes /\ SlotsFill /\ UNCHANGED devVars /\ slots' = slots
    BY DEF Surroundings, Rest
  <1>2. DInv' /\ PoolServes' /\ Grows
    BY <1>1, RegistryRests
  <1>3. SlotsFill'
    BY <1>1 DEF SlotsFill
  <1> QED
    BY <1>2, <1>3 DEF Surroundings

LEMMA AroundSurrounds ==
  ASSUME Surroundings, Around
  PROVE  Surroundings' /\ Grows /\ call' = call
  <1>1. DInv /\ PoolServes /\ SlotsFill /\ keys \in Seq(Keys)
    BY DEF Surroundings
  <1>2. CASE (\E i \in Slot : TaskCreated(i) \/ EspSaved(i)) /\ UNCHANGED <<devVars, call, fds, keys>>
    <2>1. SlotsFill' /\ \A j \in Slot : slots[j] # NoTask => slots'[j] # NoTask
      BY <1>1, <1>2, CreatedFills
    <2>2. UNCHANGED devVars
      BY <1>2
    <2>3. DInv' /\ PoolServes' /\ Grows
      BY <1>1, <2>1, <2>2, RegistryRests
    <2>4. keys' = keys /\ call' = call
      BY <1>2
    <2> QED
      BY <1>1, <2>1, <2>3, <2>4 DEF Surroundings
  <1>3. CASE (\E d \in Drivers : DevRegister(d)) /\ UNCHANGED <<slots, call, fds, keys>>
    <2>1. PICK d \in Drivers : DevRegister(d)
      BY <1>3
    <2>2. slots' = slots /\ keys' = keys /\ call' = call
      BY <1>3
    <2>3. DInv' /\ PoolServes' /\ Grows
      BY <1>1, <2>1, <2>2, RegisterGrows
    <2>4. SlotsFill'
      BY <1>1, <2>2 DEF SlotsFill
    <2> QED
      BY <1>1, <2>2, <2>3, <2>4 DEF Surroundings
  <1>4. CASE \E k \in Keys : Type(k)
    <2>1. PICK k \in Keys : Type(k)
      BY <1>4
    <2>2. keys' = Append(keys, k) /\ Rest /\ call' = call
      BY <2>1 DEF Type
    <2>3. keys' \in Seq(Keys)
      BY <1>1, <2>2
    <2> QED
      BY <2>2, <2>3, RestSurrounds
  <1> QED
    BY <1>2, <1>3, <1>4 DEF Around

LEMMA OwnStep ==
  ASSUME Surroundings, NEW t \in Task, CallFits(t, call[t]), ShellStep(t) \/ \E c \in Commands[t] : Ask(t, c)
  PROVE  /\ Surroundings' /\ Grows
         /\ call' = call \/ \E e : Goes(t, e) /\ CallFits(t, e)
  <1>1. DInv /\ PoolServes /\ SlotsFill /\ keys \in Seq(Keys)
    BY DEF Surroundings
  <1>2. CASE Prepare(t)
    <2>1. slots' = slots /\ call' = call /\ keys' = keys
      BY <1>2 DEF Prepare
    <2>2. DInv' /\ PoolServes' /\ Grows
      <3>1. CASE \E i \in Wanted(t) : PreparaBegin(t, i)
        <4>1. PICK i : PreparaBegin(t, i)
          BY <3>1
        <4>2. i \in Places
          BY <4>1 DEF PreparaBegin
        <4> QED
          BY <1>1, <2>1, <4>1, <4>2, BeginGrows
      <3>2. CASE PreparaStore(t)
        BY <1>1, <2>1, <3>2, StoreGrows
      <3> QED
        BY <1>2, <3>1, <3>2 DEF Prepare
    <2>3. SlotsFill'
      BY <1>1, <2>1 DEF SlotsFill
    <2> QED
      BY <1>1, <2>1, <2>2, <2>3 DEF Surroundings
  <1>3. ASSUME Rest, keys' = keys PROVE Surroundings' /\ Grows
    BY <1>1, <1>3, RestSurrounds
  <1>4. CASE ResolvePath(t)
    <2>1. Rest /\ keys' = keys
      BY <1>4 DEF ResolvePath
    <2> QED
      BY <1>1, <1>3, <1>4, <2>1, ResolveFits
  <1>5. CASE Open(t)
    <2>1. Rest /\ keys' = keys
      BY <1>5 DEF Open
    <2> QED
      BY <1>1, <1>3, <1>5, <2>1, OpenFits
  <1>6. CASE ListStep(t)
    <2>1. Rest /\ keys' = keys
      BY <1>6 DEF ListStep
    <2> QED
      BY <1>1, <1>3, <1>6, <2>1, ListFits
  <1>7. CASE ListEnd(t)
    <2>1. Rest /\ keys' = keys
      BY <1>7 DEF ListEnd
    <2> QED
      BY <1>1, <1>3, <1>7, <2>1, ListEndFits
  <1>8. CASE CatRead(t)
    <2>1. Rest
      BY <1>8 DEF CatRead
    <2>2. (call' = call \/ \E e : Goes(t, e) /\ CallFits(t, e)) /\ keys' \in Seq(Keys)
      BY <1>8, ReadFits
    <2> QED
      BY <2>1, <2>2, RestSurrounds
  <1>9. CASE Return(t)
    <2>1. Rest /\ keys' = keys /\ Goes(t, Idle)
      BY <1>9 DEF Return
    <2> QED
      BY <1>3, <2>1, IdleFits
  <1>10. CASE \E c \in Commands[t] : Ask(t, c)
    <2>1. PICK c \in Commands[t] : Ask(t, c)
      BY <1>10
    <2>2. Rest /\ keys' = keys /\ Goes(t, Begun("resolve", c, DueOf(c)))
      BY <2>1 DEF Ask, Begun
    <2>3. CallFits(t, Begun("resolve", c, DueOf(c)))
      BY <1>1, AskFits
    <2> QED
      BY <1>3, <2>2, <2>3
  <1> QED
    BY <1>2, <1>4, <1>5, <1>6, <1>7, <1>8, <1>9, <1>10 DEF ShellStep

LEMMA ShellBegins == SInit => ShellInv
  <1> SUFFICES ASSUME SInit PROVE ShellInv
    OBVIOUS
  <1>1. DInv /\ entries = Boot
    BY InitHolds DEF SInit, DInit
  <1>2. PoolServes
    <2>1. \A t \in Task : prep[t].k = 0
      BY DEF SInit, DInit
    <2>2. \A i \in Places : ~Ready(i)
      BY DEF SInit, DInit, Ready, Unfilled, Fields
    <2>3. \A i \in DOMAIN entries : entries[i].kind \in {"char", "block"} /\ entries[i].name # <<>>
      BY <1>1, ShellAssumption
    <2> QED
      BY <2>1, <2>2, <2>3 DEF PoolServes
  <1>3. SlotsFill
    <2>1. PICK n \in 1 .. MAX_TASKS : Task = 0 .. n - 1
      BY ShellAssumption
    <2>2. PICK e : e = CHOOSE x \in Esps : TRUE
      OBVIOUS
    <2>3. e \in Esps /\ e # NoTask
      BY <2>2, ProcfsAssumption
    <2>4. slots = [i \in Slot |-> IF i \in Task THEN e ELSE NoTask]
      BY <2>2 DEF SInit
    <2>5. slots \in [Slot -> Esps \cup {NoTask}]
      BY <2>3, <2>4
    <2>6. n \in 0 .. MAX_TASKS /\ \A i \in Slot : slots[i] # NoTask <=> i < n
      BY <2>1, <2>3, <2>4, ProcfsAssumption DEF Slot
    <2> QED
      BY <2>5, <2>6 DEF SlotsFill
  <1>4. keys \in Seq(Keys)
    BY ShellAssumption DEF SInit
  <1>5. call = [t \in Task |-> Idle]
    BY DEF SInit
  <1>6. call = [t \in Task |-> call[t]] /\ \A t \in Task : call[t] = Idle
    BY <1>5
  <1>7. \A t \in Task : CallFits(t, call[t])
    BY <1>6, IdleFits
  <1> QED
    BY <1>1, <1>2, <1>3, <1>4, <1>6, <1>7 DEF ShellInv, Surroundings

LEMMA ShellGoesOn == ShellInv /\ [SNext]_shellVars => ShellInv'
  <1> SUFFICES ASSUME ShellInv, [SNext]_shellVars PROVE ShellInv'
    OBVIOUS
  <1>1. Surroundings /\ call = [t \in Task |-> call[t]] /\ \A t \in Task : CallFits(t, call[t])
    BY DEF ShellInv
  <1>2. ASSUME Surroundings', Grows, call' = call PROVE ShellInv'
    <2>1. ASSUME NEW t \in Task PROVE CallFits(t, call[t])'
      <3>1. PICK d : d = call[t]
        OBVIOUS
      <3>2. CallFits(t, d)'
        BY <1>1, <1>2, <3>1, CallKept DEF Surroundings
      <3>3. (call[t])' = d
        BY <1>2, <3>1
      <3> QED
        BY <3>2, <3>3
    <2> QED
      BY <1>1, <1>2, <2>1 DEF ShellInv
  <1>3. ASSUME Surroundings', Grows, NEW u \in Task, NEW e, Goes(u, e), CallFits(u, e) PROVE ShellInv'
    <2>1. call' = [call EXCEPT ![u] = e]
      BY <1>3 DEF Goes
    <2>2. call' = [t \in Task |-> call'[t]] /\ call'[u] = e /\ \A t \in Task : t # u => call'[t] = call[t]
      BY <1>1, <2>1
    <2>3. ASSUME NEW t \in Task PROVE CallFits(t, call[t])'
      <3>1. PICK d : d = call'[t]
        OBVIOUS
      <3>2. CallFits(t, d)
        BY <1>1, <1>3, <2>2, <3>1
      <3>3. CallFits(t, d)'
        BY <1>1, <1>3, <3>2, CallKept DEF Surroundings
      <3>4. (call[t])' = d
        BY <3>1
      <3> QED
        BY <3>3, <3>4
    <2> QED
      BY <1>3, <2>2, <2>3 DEF ShellInv
  <1>4. CASE Around
    BY <1>1, <1>2, <1>4, AroundSurrounds
  <1>5. ASSUME NEW t \in Task, ShellStep(t) \/ \E c \in Commands[t] : Ask(t, c) PROVE ShellInv'
    <2>1. /\ Surroundings' /\ Grows
          /\ call' = call \/ \E e : Goes(t, e) /\ CallFits(t, e)
      BY <1>1, <1>5, OwnStep
    <2> QED
      BY <1>2, <1>3, <2>1
  <1>6. CASE UNCHANGED shellVars
    <2>1. Rest /\ keys' = keys /\ call' = call
      BY <1>6 DEF shellVars, Rest
    <2>2. Surroundings' /\ Grows
      BY <1>1, <2>1, RestSurrounds DEF Surroundings
    <2> QED
      BY <1>2, <2>1, <2>2
  <1> QED
    BY <1>4, <1>5, <1>6 DEF SNext

(* What every command that is running rests on holds for any tasks, drivers   *)
(* and commands, in any order (shell.c:455-644 over devfs.c and procfs.c).    *)
THEOREM ShellHolds == SSpec => []ShellInv
  <1> QED
    BY ShellBegins, ShellGoesOn, PTL DEF SSpec

(* No inode half filled, while commands look it up and list it (devfs.c:85-111). *)
THEOREM ShellInodeWhole == SSpec => []InodeWhole
  <1>1. ShellInv => InodeWhole
    BY DEF ShellInv, Surroundings, DInv
  <1> QED
    BY <1>1, ShellHolds, PTL

-----------------------------------------------------------------------------
(* What ls shows.                                                            *)
LEMMA NoLineTwice ==
  ASSUME DInv, SlotsFill, NEW d, IsCall(d), Fits(d.c, d.node), Listed(d),
         NEW j \in DOMAIN d.out, NEW k \in DOMAIN d.out, j < k, d.out[j] = d.out[k]
  PROVE  /\ d.node.is = "procdir" /\ d.out[k].ino \notin d.due
         /\ \E p, q \in NewTasks(d) : p # q
  <1>1. PICK out, node : out = d.out /\ node = d.node
    OBVIOUS
  <1>2. PICK S : out \in Seq(S)
    BY <1>1 DEF IsCall
  <1>3. DOMAIN out = 1 .. Len(out) /\ j \in Nat \ {0} /\ k \in Nat \ {0}
    BY <1>1, <1>2
  <1>4. node.is # "devdir"
    <2> SUFFICES ASSUME node.is = "devdir" PROVE FALSE
      OBVIOUS
    <2>1. DevLines(node, out)
      BY <1>1 DEF Listed
    <2>2. PICK p \in Places : out[k].ino = 3 + p
      BY <1>1, <2>1, DevLinesIno
    <2>3. p \in Nat
      BY <2>2, DevfsFacts
    <2>4. out[j].ino < out[k].ino
      BY <1>1, <2>1 DEF DevLines
    <2> QED
      BY <1>1, <2>2, <2>3, <2>4
  <1>5. node.is \notin {"taskdir", "device", "status"}
    <2>1. DOMAIN out # {1}
      BY <1>1, <1>3
    <2> QED
      BY <1>1, <2>1 DEF Listed
  <1>6. node.is = "procdir"
    BY <1>1, <1>4, <1>5 DEF Fits
  <1>7. PICK n \in 0 .. MAX_TASKS : WereThere(n) /\ d.due = FirstTasks(n) /\ ProcLines(node, out, n)
    BY <1>1, <1>6 DEF Listed
  <1>8. MAX_TASKS \in Nat /\ n \in Nat
    BY ProcfsAssumption
  <1>9. PICK p \in Slot : TaskAttivo(p) /\ out[k] = Line(node, p) /\ p >= k - 1 /\ (k <= n => p = k - 1)
    BY <1>1, <1>7 DEF ProcLines
  <1>10. PICK q \in Slot : TaskAttivo(q) /\ out[j] = Line(node, q) /\ q >= j - 1 /\ (j <= n => q = j - 1)
    BY <1>1, <1>7 DEF ProcLines
  <1>11. p \in Nat /\ q \in Nat /\ p < MAX_TASKS /\ q < MAX_TASKS
    BY <1>8 DEF Slot
  <1>12. out[k].ino = 2 + p /\ out[j].ino = 2 + q
    BY <1>6, <1>9, <1>10 DEF Line, PROC_INO_TASK
  <1>13. p = q
    BY <1>1, <1>11, <1>12
  <1>14. p > n
    BY <1>3, <1>8, <1>9, <1>10, <1>11, <1>13
  <1>15. n \in Slot /\ TaskAttivo(n)
    <2>1. n \in Slot
      BY <1>8, <1>11, <1>14 DEF Slot
    <2>2. PICK a \in 0 .. MAX_TASKS : \A i \in Slot : slots[i] # NoTask <=> i < a
      BY DEF SlotsFill
    <2>3. p < a
      BY <1>9, <2>2 DEF TaskAttivo
    <2>4. n < a
      BY <1>8, <1>11, <1>14, <2>3
    <2> QED
      BY <2>1, <2>2, <2>4 DEF TaskAttivo
  <1>16. \A x \in Nat : x >= n => PROC_INO_TASK(x) \notin d.due
    <2> SUFFICES ASSUME NEW x \in Nat, x >= n, PROC_INO_TASK(x) \in d.due PROVE FALSE
      OBVIOUS
    <2>1. PICK y \in 0 .. n - 1 : 2 + x = 2 + y
      BY <1>7 DEF FirstTasks, PROC_INO_TASK
    <2> QED
      BY <1>8, <2>1
  <1>17. p \in NewTasks(d) /\ n \in NewTasks(d) /\ p # n
    BY <1>8, <1>9, <1>11, <1>14, <1>15, <1>16 DEF NewTasks
  <1>18. d.out[k].ino \notin d.due
    BY <1>1, <1>8, <1>11, <1>12, <1>14, <1>16 DEF PROC_INO_TASK
  <1> QED
    BY <1>1, <1>6, <1>17, <1>18

LEMMA DeviceFound ==
  ASSUME DInv, PoolServes, NEW p \in Places, Ready(p), NEW c, c.fs = "dev", c.name = Truncated(Entry(p).name)
  PROVE  NodeOf(c) = [is |-> "device", i |-> p]
  <1>1. p < DevCount /\ p \in Nat /\ p + 1 \in DOMAIN entries /\ Entry(p) \in Drivers /\ p # DEV_MAX
    BY DevfsFacts DEF Places
  <1>2. PICK name : name = Entry(p).name
    OBVIOUS
  <1>3. name # <<>> /\ entries[p + 1].name = name
    BY <1>1, <1>2 DEF PoolServes, Entry
  <1>4. PICK S : name \in Seq(S) /\ Len(name) <= DIRENT_NAME /\ DIRENT_NAME \in Nat
    BY <1>1, <1>2, ShellAssumption
  <1>5. Truncated(name) = name
    <2>1. (IF Len(name) < DIRENT_NAME THEN Len(name) ELSE DIRENT_NAME) = Len(name)
      BY <1>4
    <2>2. SubSeq(name, 1, Len(name)) = name
      BY <1>4, WholeCut
    <2> QED
      BY <2>1, <2>2 DEF Truncated
  <1>6. \A i \in DOMAIN entries : entries[i].name = name => i = p + 1
    BY <1>1, <1>3 DEF DInv, OneNamespace
  <1>7. (CHOOSE i \in DOMAIN entries : entries[i].name = name) = p + 1
    BY <1>1, <1>3, <1>6
  <1>8. DevLookupIndex(name) = p
    <2>1. PICK h : h = CHOOSE i \in DOMAIN entries : entries[i].name = name
      OBVIOUS
    <2>2. DevLookupIndex(name) = h - 1
      BY <1>1, <1>3, <2>1 DEF DevLookupIndex
    <2>3. h = p + 1
      BY <1>7, <2>1, Zenon
    <2> QED
      BY <1>1, <2>2, <2>3
  <1>9. c.name = name /\ c.name # <<>>
    BY <1>2, <1>3, <1>5
  <1> QED
    BY <1>1, <1>8, <1>9 DEF NodeOf, DevLookup

LEMMA TaskFound ==
  ASSUME NEW p \in Slot, TaskAttivo(p), NEW c, c.fs = "proc", c.name = NameOfTask(p)
  PROVE  NodeOf(c) = [is |-> "taskdir", i |-> p]
  <1>1. PICK base, g : base = Len(Digits) /\ g = Digits[p + 1]
    OBVIOUS
  <1>2. p \in Nat /\ p < MAX_TASKS /\ MAX_TASKS \in Nat /\ base \in Nat /\ MAX_TASKS # 0 /\ p + 1 \in DOMAIN Digits
    BY <1>1, ProcfsAssumption DEF Slot
  <1>3. DigitOf(g) = p /\ IsDigit(g)
    <2>1. \A k \in DOMAIN Digits : Digits[k] = g => k = p + 1
      BY <1>1, <1>2, ProcfsAssumption
    <2>2. (CHOOSE k \in DOMAIN Digits : Digits[k] = g) = p + 1
      BY <1>1, <1>2, <2>1
    <2> QED
      <3>1. PICK h : h = CHOOSE k \in DOMAIN Digits : Digits[k] = g
        OBVIOUS
      <3>2. DigitOf(g) = h - 1
        BY <3>1, Zenon DEF DigitOf
      <3>3. h = p + 1
        BY <2>2, <3>1, Zenon
      <3> QED
        BY <1>1, <1>2, <3>2, <3>3 DEF IsDigit
  <1>4. PICK name : name = <<g>>
    OBVIOUS
  <1>5. Len(name) = 1 /\ name[1] = g /\ name # <<>>
    BY <1>4
  <1>6. ValueOf(name) = p
    <2> DEFINE F(v) == [n \in 0 .. Len(name) |->
                         IF n = 0 THEN 0
                         ELSE IF v[n - 1] >= MAX_TASKS \/ ~IsDigit(name[n]) THEN MAX_TASKS
                         ELSE v[n - 1] * Len(Digits) + DigitOf(name[n])]
    <2>1. PICK w : w = [n \in 0 .. 1 |-> IF n = 0 THEN 0 ELSE p]
      OBVIOUS
    <2>2. 0 * base + p = p
      BY <1>2
    <2>3. w = F(w)
      <3>1. \A n \in 0 .. 1 : w[n] = F(w)[n]
        <4> SUFFICES ASSUME NEW n \in 0 .. 1 PROVE w[n] = F(w)[n]
          OBVIOUS
        <4>1. CASE n = 0
          BY <1>5, <2>1, <4>1
        <4>2. CASE n = 1
          <5>1. w[0] = 0 /\ w[1] = p
            BY <2>1
          <5>2. F(w)[1] = IF w[0] >= MAX_TASKS \/ ~IsDigit(name[1]) THEN MAX_TASKS
                          ELSE w[0] * Len(Digits) + DigitOf(name[1])
            BY <1>5
          <5>3. F(w)[1] = 0 * base + p
            BY <1>1, <1>2, <1>3, <1>5, <5>1, <5>2
          <5> QED
            BY <2>2, <4>2, <5>1, <5>3
        <4> QED
          BY <4>1, <4>2
      <3> QED
        BY <1>5, <2>1, <3>1
    <2>4. PICK v : v = CHOOSE u : u = F(u)
      OBVIOUS
    <2>5. v = F(v)
      BY <2>3, <2>4
    <2>6. v[0] = 0
      BY <1>5, <2>5
    <2>7. v[1] = 0 * base + p
      <3>1. F(v)[1] = IF v[0] >= MAX_TASKS \/ ~IsDigit(name[1]) THEN MAX_TASKS
                      ELSE v[0] * Len(Digits) + DigitOf(name[1])
        BY <1>5
      <3> QED
        BY <1>1, <1>2, <1>3, <1>5, <2>5, <2>6, <3>1
    <2>8. ValueOf(name) = v[Len(name)]
      BY <2>4 DEF ValueOf
    <2> QED
      BY <1>5, <2>2, <2>7, <2>8
  <1>7. IndiceDaNome(name) = p
    BY <1>2, <1>5, <1>6 DEF IndiceDaNome
  <1>8. RootLookup(name) = p
    BY <1>7 DEF RootLookup
  <1>9. c.name = name
    BY <1>1, <1>4 DEF NameOfTask
  <1> QED
    BY <1>2, <1>5, <1>8, <1>9 DEF NodeOf, DevLookup


LEMMA NamesLeadBack ==
  ASSUME DInv, PoolServes, NEW d, Command(d.c), Fits(d.c, d.node), Listed(d), d.c.name = <<>>, NEW k \in DOMAIN d.out
  PROVE  InoOf(NodeOf([d.c EXCEPT !.name = d.out[k].name])) = d.out[k].ino
  <1>1. PICK out, node, c, name : out = d.out /\ node = d.node /\ name = out[k].name /\ c = [d.c EXCEPT !.name = name]
    OBVIOUS
  <1>2. c.fs = d.c.fs /\ c.name = name
    BY <1>1 DEF Command
  <1>3. IndiceDaNome(<<>>) = MAX_TASKS /\ ~TaskAttivo(MAX_TASKS)
    BY ProcfsAssumption DEF IndiceDaNome, TaskAttivo, Slot
  <1>4. CASE node.is = "devdir"
    <2>1. DevLines(node, out) /\ c.fs = "dev"
      BY <1>1, <1>2, <1>4 DEF Listed, Fits
    <2>2. PICK p \in Places : Ready(p) /\ out[k] = Line(node, p) /\ out[k].ino = 3 + p
      BY <1>1, <1>4, <2>1, DevLinesIno
    <2>3. name = Truncated(Entry(p).name)
      BY <1>1, <1>4, <2>2 DEF Line
    <2>4. NodeOf(c) = [is |-> "device", i |-> p]
      BY <1>2, <2>1, <2>2, <2>3, DeviceFound
    <2>5. InoOf(NodeOf(c)) = 3 + p
      BY <2>2, <2>4, DevfsFacts DEF InoOf
    <2> QED
      BY <1>1, <2>2, <2>5
  <1>5. CASE node.is = "procdir"
    <2>1. c.fs = "proc"
      BY <1>1, <1>2, <1>5 DEF Fits
    <2>2. PICK p \in Slot : TaskAttivo(p) /\ out[k] = Line(node, p)
      BY <1>1, <1>5 DEF Listed, ProcLines
    <2>3. name = NameOfTask(p) /\ out[k].ino = PROC_INO_TASK(p)
      BY <1>1, <1>5, <2>2 DEF Line
    <2>4. NodeOf(c) = [is |-> "taskdir", i |-> p]
      BY <1>2, <2>1, <2>2, <2>3, TaskFound
    <2>5. InoOf(NodeOf(c)) = PROC_INO_TASK(p)
      BY <2>4 DEF InoOf
    <2> QED
      BY <1>1, <2>3, <2>5
  <1> QED
    BY <1>1, <1>3, <1>4, <1>5 DEF Fits

(* An ls that ends showed each thing once, under a name that leads back to    *)
(* it, and everything that was there when it began; only two tasks created    *)
(* meanwhile may break the first (shell.c:476-549, devfs.c:139-187,           *)
(* procfs.c:198-231).                                                         *)
THEOREM ListingsAreComplete == SSpec => []ListComplete
  <1>1. ShellInv => ListComplete
    <2> SUFFICES ASSUME ShellInv, NEW t \in Task, NEW d, d = call[t],
                        d.pc = "done", d.c.cmd = "ls", d.end = "ok"
                 PROVE  /\ \A j, k \in DOMAIN d.out : j # k /\ d.out[j] = d.out[k] =>
                             /\ d.node.is = "procdir" /\ d.out[k].ino \notin d.due
                             /\ \E p, q \in NewTasks(d) : p # q
                        /\ d.due \subseteq {d.out[k].ino : k \in DOMAIN d.out}
                        /\ d.c.name = <<>> => \A k \in DOMAIN d.out :
                             InoOf(NodeOf([d.c EXCEPT !.name = d.out[k].name])) = d.out[k].ino
      BY DEF ListComplete
    <2>1. DInv /\ PoolServes /\ SlotsFill
      BY DEF ShellInv, Surroundings
    <2>2. IsCall(d) /\ Fits(d.c, d.node) /\ Listed(d) /\ d.c \in Commands[t]
      BY DEF ShellInv, CallFits
    <2>3. ASSUME NEW j \in DOMAIN d.out, NEW k \in DOMAIN d.out, j # k, d.out[j] = d.out[k]
          PROVE  /\ d.node.is = "procdir" /\ d.out[k].ino \notin d.due
                 /\ \E p, q \in NewTasks(d) : p # q
      <3>1. PICK S : d.out \in Seq(S)
        BY <2>2 DEF IsCall
      <3>2. j < k \/ k < j
        BY <2>3, <3>1
      <3> QED
        BY <2>1, <2>2, <2>3, <3>2, NoLineTwice
    <2>4. d.due \subseteq {d.out[k].ino : k \in DOMAIN d.out}
      BY <2>2 DEF Listed
    <2>5. d.c.name = <<>> => \A k \in DOMAIN d.out :
            InoOf(NodeOf([d.c EXCEPT !.name = d.out[k].name])) = d.out[k].ino
      BY <2>1, <2>2, CommandIs, NamesLeadBack
    <2> QED
      BY <2>3, <2>4, <2>5
  <1> QED
    BY <1>1, ShellHolds, PTL

-----------------------------------------------------------------------------
(* What cat prints.                                                          *)
LEMMA NothingIsPrefix ==
  ASSUME NEW S, NEW s \in Seq(S)
  PROVE  Prefix(<<>>, s, FALSE)
  <1>1. SubSeq(s, 1, 0) = <<>> /\ Len(<<>>) = 0 /\ 0 <= Len(s)
    OBVIOUS
  <1> QED
    BY <1>1 DEF Prefix

LEMMA WholeIsPrefix ==
  ASSUME NEW S, NEW s \in Seq(S), NEW ended \in BOOLEAN
  PROVE  Prefix(s, s, ended)
  <1>1. SubSeq(s, 1, Len(s)) = s /\ Len(s) <= Len(s)
    BY WholeCut
  <1> QED
    BY <1>1 DEF Prefix

LEMMA CutToIs ==
  ASSUME NEW d, d.c.n \in Nat, NEW S, NEW s \in Seq(S), NEW m,
         m = IF d.c.n = 0 \/ Len(s) < d.c.n THEN Len(s) ELSE d.c.n
  PROVE  /\ m \in Nat /\ m <= Len(s) /\ CutTo(d, s) = SubSeq(s, 1, m)
         /\ CutTo(d, s) \in Seq(S) /\ Len(CutTo(d, s)) = m
  <1>1. m \in Nat /\ m <= Len(s) /\ CutTo(d, s) = SubSeq(s, 1, m)
    BY DEF CutTo
  <1>2. PICK one : one = 1
    OBVIOUS
  <1>3. one \in 1 .. Len(s) + 1 /\ m \in one - 1 .. Len(s) /\ m - one + 1 = m
    BY <1>1, <1>2
  <1>4. SubSeq(s, one, m) \in Seq(S) /\ Len(SubSeq(s, one, m)) = m - one + 1
    BY <1>3, CutIs
  <1> QED
    BY <1>1, <1>2, <1>3, <1>4

LEMMA StatusExact ==
  ASSUME NEW t \in Task, NEW d, IsCall(d), d.c.n \in Nat, d.node.is = "status",
         (d.pc = "read" /\ Printing(d, t)) \/ (d.pc = "done" /\ Printed(d, t))
  PROVE  \E e \in Esps : Prefix(d.out, CutTo(d, StatusText(d.node.i, t, e)), d.pc = "done")
  <1>1. CASE d.pc = "read" /\ Printing(d, t) /\ d.out = <<>>
    <2>1. PICK e \in Esps : TRUE
      BY ProcfsAssumption
    <2>2. PICK s : s = StatusText(d.node.i, t, e)
      OBVIOUS
    <2>3. PICK S : s \in Seq(S)
      BY <2>2, StatusTextIs, Zenon
    <2>4. CutTo(d, s) \in Seq(S)
      BY <2>3, CutToIs
    <2>5. Prefix(<<>>, CutTo(d, s), FALSE)
      BY <2>4, NothingIsPrefix
    <2>6. (d.pc = "done") = FALSE
      BY <1>1
    <2> QED
      BY <1>1, <2>2, <2>5, <2>6, Zenon
  <1>2. CASE d.pc = "read" /\ Printing(d, t) /\ d.out # <<>>
    <2>1. PICK e \in Esps : d.out = StatusText(d.node.i, t, e)
      BY <1>2 DEF Printing
    <2>2. PICK S : d.out \in Seq(S)
      BY DEF IsCall
    <2>3. CutTo(d, d.out) = d.out
      <3>1. (IF d.c.n = 0 \/ Len(d.out) < d.c.n THEN Len(d.out) ELSE d.c.n) = Len(d.out)
        BY <1>2 DEF Printing, Below
      <3>2. SubSeq(d.out, 1, Len(d.out)) = d.out
        BY <2>2, WholeCut
      <3> QED
        BY <3>1, <3>2 DEF CutTo
    <2>4. Prefix(d.out, d.out, d.pc = "done")
      BY <2>2, WholeIsPrefix
    <2>5. Prefix(d.out, CutTo(d, StatusText(d.node.i, t, e)), d.pc = "done")
      BY <2>1, <2>3, <2>4, Zenon
    <2> QED
      BY <2>5
  <1>3. CASE d.pc = "done" /\ Printed(d, t)
    <2>1. PICK e \in Esps : d.out = CutTo(d, StatusText(d.node.i, t, e))
      BY <1>3 DEF Printed
    <2>2. PICK S : d.out \in Seq(S)
      BY DEF IsCall
    <2>3. Prefix(d.out, d.out, d.pc = "done")
      BY <2>2, WholeIsPrefix
    <2>4. Prefix(d.out, CutTo(d, StatusText(d.node.i, t, e)), d.pc = "done")
      BY <2>1, <2>3, Zenon
    <2> QED
      BY <2>4
  <1> QED
    BY <1>1, <1>2, <1>3

(* What is printed of a disk while it is read.                               *)
LEMMA BlockBegins ==
  ASSUME DInv, PoolServes, NEW t \in Task, NEW d, IsCall(d), d.c.n \in Nat, Fits(d.c, d.node), d.node.is = "device",
         TypeOf(d.node) = "block", Printing(d, t)
  PROVE  /\ Prefix(d.out, CutTo(d, Content(d.node.i)), FALSE) /\ Len(d.out) = d.off
         /\ d.off < Len(Content(d.node.i)) => Len(d.out) < Len(CutTo(d, Content(d.node.i)))
  <1>1. PICK i, C, cut, off, m : /\ i = d.node.i /\ C = Content(i) /\ cut = CutTo(d, C) /\ off = d.off
                                 /\ m = IF d.c.n = 0 \/ Len(C) < d.c.n THEN Len(C) ELSE d.c.n
    OBVIOUS
  <1>2. i \in Places /\ Ready(i)
    BY <1>1 DEF Fits
  <1>3. PICK S : C \in Seq(S)
    BY <1>1, <1>2, SizeIs
  <1>4. m \in Nat /\ m <= Len(C) /\ cut = SubSeq(C, 1, m) /\ cut \in Seq(S) /\ Len(cut) = m
    BY <1>1, <1>3, CutToIs
  <1>5. off <= Len(C) /\ d.out = SubSeq(C, 1, off) /\ Below(d) /\ off \in Nat
    BY <1>1 DEF Printing, IsCall
  <1>6. PICK one, out, p : one = 1 /\ out = d.out /\ p = SubSeq(cut, one, off)
    OBVIOUS
  <1>7. /\ one \in 1 .. Len(C) + 1 /\ off \in one - 1 .. Len(C) /\ m \in one - 1 .. Len(C)
        /\ off - one + 1 = off /\ m - one + 1 = m
    BY <1>3, <1>4, <1>5, <1>6
  <1>8. out \in Seq(S) /\ Len(out) = off - one + 1 /\ \A k \in 1 .. off - one + 1 : out[k] = C[one + k - 1]
    BY <1>3, <1>5, <1>6, <1>7, CutIs
  <1>9. \A k \in 1 .. m - one + 1 : cut[k] = C[one + k - 1]
    BY <1>3, <1>4, <1>6, <1>7, CutIs
  <1>10. Len(out) = off /\ off <= m
    BY <1>1, <1>3, <1>5, <1>6, <1>7, <1>8 DEF Below
  <1>11. one \in 1 .. Len(cut) + 1 /\ off \in one - 1 .. Len(cut)
    BY <1>4, <1>5, <1>6, <1>10
  <1>12. p \in Seq(S) /\ Len(p) = off - one + 1 /\ \A k \in 1 .. off - one + 1 : p[k] = cut[one + k - 1]
    BY <1>4, <1>6, <1>11, CutIs
  <1>13. \A k \in 1 .. Len(out) : out[k] = p[k]
    <2> SUFFICES ASSUME NEW k \in 1 .. off PROVE out[k] = p[k]
      BY <1>10
    <2>1. k \in 1 .. off - one + 1 /\ k \in 1 .. m - one + 1 /\ one + k - 1 = k
      BY <1>4, <1>5, <1>6, <1>7, <1>10
    <2> QED
      BY <1>8, <1>9, <1>12, <2>1
  <1>14. out = p
    BY <1>7, <1>8, <1>12, <1>13, SameSeq
  <1>15. out = SubSeq(cut, 1, Len(out)) /\ Len(out) <= Len(cut)
    BY <1>4, <1>6, <1>10, <1>14
  <1>16. Prefix(d.out, cut, FALSE)
    BY <1>6, <1>15 DEF Prefix
  <1>17. off < Len(C) => off < m
    BY <1>1, <1>3, <1>4, <1>5, <1>6, <1>10 DEF Below
  <1> QED
    BY <1>1, <1>4, <1>6, <1>10, <1>16, <1>17

LEMMA BlockExact ==
  ASSUME DInv, PoolServes, NEW t \in Task, NEW d, IsCall(d), d.c.n \in Nat, Fits(d.c, d.node), d.node.is = "device",
         TypeOf(d.node) = "block",
         (d.pc = "read" /\ Printing(d, t)) \/ (d.pc = "done" /\ Printed(d, t))
  PROVE  Prefix(d.out, CutTo(d, Content(d.node.i)), d.pc = "done")
  <1>1. PICK i, C, cut, off, m : /\ i = d.node.i /\ C = Content(i) /\ cut = CutTo(d, C) /\ off = d.off
                                 /\ m = IF d.c.n = 0 \/ Len(C) < d.c.n THEN Len(C) ELSE d.c.n
    OBVIOUS
  <1>2. i \in Places /\ Ready(i)
    BY <1>1 DEF Fits
  <1>3. PICK S : C \in Seq(S)
    BY <1>1, <1>2, SizeIs
  <1>4. m \in Nat /\ m <= Len(C) /\ cut = SubSeq(C, 1, m) /\ cut \in Seq(S) /\ Len(cut) = m
    BY <1>1, <1>3, CutToIs
  <1>5. CASE d.pc = "read" /\ Printing(d, t)
    <2>1. Prefix(d.out, cut, FALSE)
      BY <1>1, <1>5, BlockBegins
    <2>2. (d.pc = "done") = FALSE
      BY <1>5
    <2> QED
      BY <1>1, <2>1, <2>2, Zenon
  <1>6. CASE d.pc = "done" /\ Printed(d, t)
    <2>1. d.out = cut
      BY <1>1, <1>6 DEF Printed
    <2>2. Prefix(cut, cut, d.pc = "done")
      BY <1>4, WholeIsPrefix
    <2> QED
      BY <1>1, <2>1, <2>2, Zenon
  <1> QED
    BY <1>5, <1>6

ErrorMeans(d) ==
  /\ d.node.is = "device"
  /\ \/ "read" \notin DevioCaps(d.node.i)
     \/ /\ TypeOf(d.node) = "block" /\ Prefix(d.out, CutTo(d, Content(d.node.i)), FALSE)
        /\ Len(d.out) < Len(CutTo(d, Content(d.node.i)))
        /\ Len(d.out) \in d.refused * SECTOR_SIZE .. d.refused * SECTOR_SIZE + SECTOR_SIZE - 1

LEMMA ErrorIs ==
  ASSUME DInv, PoolServes, NEW t \in Task, NEW d, CallFits(t, d), d.end = "error"
  PROVE  ErrorMeans(d)
  <1>1. IsCall(d) /\ Fits(d.c, d.node) /\ d.node.is = "device" /\ Refused(d, t) /\ d.c \in Commands[t]
    <2>1. d.pc # "idle"
      BY DEF CallFits, Idle
    <2> QED
      BY <2>1 DEF CallFits
  <1>2. d.c.n \in Nat
    BY <1>1, CommandIs DEF Command
  <1>3. CASE "read" \notin Entry(d.node.i).caps
    BY <1>1, <1>3 DEF ErrorMeans, DevioCaps
  <1>4. CASE /\ TypeOf(d.node) = "block" /\ Printing(d, t)
             /\ d.off < Len(Content(d.node.i)) /\ StartsIn(d.off, d.refused)
    <2>1. /\ Prefix(d.out, CutTo(d, Content(d.node.i)), FALSE) /\ Len(d.out) = d.off
          /\ Len(d.out) < Len(CutTo(d, Content(d.node.i)))
      BY <1>1, <1>2, <1>4, BlockBegins
    <2>2. PICK bad : bad = d.refused * SECTOR_SIZE
      OBVIOUS
    <2>3. bad \in Nat /\ SECTOR_SIZE \in Nat /\ d.off \in Nat
      BY <1>1, <2>2, DevfsAssumption DEF IsCall
    <2>4. d.off \in bad .. bad + SECTOR_SIZE - 1
      BY <1>4, <2>2, <2>3 DEF StartsIn
    <2> QED
      BY <1>1, <1>4, <2>1, <2>2, <2>4 DEF ErrorMeans
  <1> QED
    BY <1>1, <1>3, <1>4 DEF Refused

(* What cat prints is at every moment the beginning, and at the end the whole *)
(* up to the limit, of one thing; an error is reported only of what cannot be *)
(* read, or of a disk that refuses the sector of the very next byte, all that *)
(* is before it printed (shell.c:551-644, procfs.c:306-351, devio.c:131-137). *)
THEOREM CatsAreExact == SSpec => []CatExact
  <1>1. ShellInv => CatExact
    <2> SUFFICES ASSUME ShellInv, NEW t \in Task, NEW d, d = call[t]
                 PROVE  /\ d.end = "error" => ErrorMeans(d)
                        /\ d.c.cmd = "cat" /\ (d.pc = "read" \/ d.end = "ok") =>
                             CASE d.node.is = "status" ->
                                    \E e \in Esps : Prefix(d.out, CutTo(d, StatusText(d.node.i, t, e)), d.pc = "done")
                               [] TypeOf(d.node) = "block" ->
                                    Prefix(d.out, CutTo(d, Content(d.node.i)), d.pc = "done")
                               [] OTHER ->
                                    /\ \A k \in DOMAIN d.out : d.out[k] = "nl" => k = Len(d.out) /\ d.pc = "done"
                                    /\ d.pc = "done" =>
                                         d.out # <<>> /\ (d.out[Len(d.out)] = "nl" \/ Len(d.out) = d.c.n)
      BY DEF CatExact, CutTo, ErrorMeans
    <2>1. DInv /\ PoolServes /\ CallFits(t, d)
      BY DEF ShellInv, Surroundings
    <2>2. ASSUME d.end = "error" PROVE ErrorMeans(d)
      BY <2>1, <2>2, ErrorIs
    <2>3. SUFFICES ASSUME d.c.cmd = "cat", d.pc = "read" \/ d.end = "ok"
                   PROVE CASE d.node.is = "status" ->
                                \E e \in Esps : Prefix(d.out, CutTo(d, StatusText(d.node.i, t, e)), d.pc = "done")
                           [] TypeOf(d.node) = "block" ->
                                Prefix(d.out, CutTo(d, Content(d.node.i)), d.pc = "done")
                           [] OTHER ->
                                /\ \A k \in DOMAIN d.out : d.out[k] = "nl" => k = Len(d.out) /\ d.pc = "done"
                                /\ d.pc = "done" =>
                                     d.out # <<>> /\ (d.out[Len(d.out)] = "nl" \/ Len(d.out) = d.c.n)
      BY <2>2, Zenon
    <2>4. IsCall(d) /\ d.pc \in {"idle", "resolve", "open", "list", "read", "done"}
      BY <2>1 DEF CallFits, IsCall
    <2>5. d.pc \in {"read", "done"}
      <3>1. d.pc = "idle" => d.end = "none"
        BY <2>1 DEF CallFits, Idle
      <3>2. d.pc \in {"resolve", "open"} => d.end = "none"
        <4> SUFFICES ASSUME d.pc \in {"resolve", "open"} PROVE d.end = "none"
          OBVIOUS
        <4>1. d = Begun(d.pc, d.c, d.due)
          BY <2>1 DEF CallFits
        <4>2. PICK pc, x, due : d = Begun(pc, x, due)
          BY <4>1
        <4>3. d = [pc |-> pc, c |-> x, node |-> Nothing, idx |-> 0, i |-> 0, pos |-> 0,
                   off |-> 0, out |-> <<>>, end |-> "none", due |-> due,
                   refused |-> 0]
          BY <4>2, BegunIs
        <4> QED
          BY <4>3
      <3>3. d.pc = "list" => d.end = "none"
        BY <2>1 DEF CallFits
      <3> QED
        BY <2>3, <2>4, <3>1, <3>2, <3>3
    <2>6. d.c \in Commands[t] /\ ~IsDir(d.node) /\ Fits(d.c, d.node)
          /\ ((d.pc = "read" /\ Printing(d, t)) \/ (d.pc = "done" /\ Printed(d, t)))
      BY <2>1, <2>3, <2>5 DEF CallFits
    <2>7. d.c.n \in Nat
      BY <2>6, CommandIs DEF Command
    <2>8. CASE d.node.is = "status"
      <3>1. \E e \in Esps : Prefix(d.out, CutTo(d, StatusText(d.node.i, t, e)), d.pc = "done")
        BY <2>4, <2>6, <2>7, <2>8, StatusExact
      <3>2. TypeOf(d.node) # "block"
        BY <2>8 DEF TypeOf, IsDir
      <3> QED
        BY <2>8, <3>1, <3>2, Zenon
    <2>9. CASE d.node.is # "status" /\ TypeOf(d.node) = "block"
      <3>1. d.node.is = "device"
        BY <2>6, <2>9 DEF Fits, IsDir
      <3>2. Prefix(d.out, CutTo(d, Content(d.node.i)), d.pc = "done")
        BY <2>1, <2>4, <2>6, <2>7, <2>9, <3>1, BlockExact
      <3> QED
        BY <2>9, <3>2, Zenon
    <2>10. CASE d.node.is # "status" /\ TypeOf(d.node) # "block"
      <3>1. d.node.is = "device"
        BY <2>6, <2>10 DEF Fits, IsDir
      <3>2. TypeOf(d.node) = "char"
        <4>1. PICK i : i = d.node.i
          OBVIOUS
        <4>2. i \in Places /\ Ready(i)
          BY <2>6, <3>1, <4>1 DEF Fits
        <4> QED
          BY <2>1, <2>10, <3>1, <4>1, <4>2, SizeIs DEF TypeOf, IsDir
      <3>3. /\ \A k \in DOMAIN d.out : d.out[k] = "nl" => k = Len(d.out) /\ d.pc = "done"
            /\ d.pc = "done" => d.out # <<>> /\ (d.out[Len(d.out)] = "nl" \/ Len(d.out) = d.c.n)
        <4>1. CASE d.pc = "read" /\ Printing(d, t)
          BY <3>1, <3>2, <4>1 DEF Printing
        <4>2. CASE d.pc = "done" /\ Printed(d, t)
          BY <3>1, <3>2, <4>2 DEF Printed
        <4> QED
          BY <2>6, <4>1, <4>2
      <3> QED
        BY <2>10, <3>3, Zenon
    <2> QED
      BY <2>8, <2>9, <2>10
  <1> QED
    BY <1>1, ShellHolds, PTL
=============================================================================
