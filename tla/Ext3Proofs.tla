----------------------------- MODULE Ext3Proofs ------------------------------
(***************************************************************************)
(* Proofs about the writing side of ext3, for every number of blocks,      *)
(* inodes, names and failing writes.                                       *)
(*                                                                         *)
(* The inductive invariant, Ext3Inv, has one part for each thing the code  *)
(* relies on but does not check: the shape of the disk and of the locals,  *)
(* the chain of directory entries, who owns a block, whose inode is marked *)
(* and what a file holds.  The last three are false in general, and are    *)
(* kept only as long as nothing was freed or no deletion was cut.          *)
(***************************************************************************)
EXTENDS Ext3, SequenceTheorems, WellFoundedInduction, TLAPS

FileInodes == 2 .. NInodes
InodeType == [size : Nat, block : [Index -> 0 .. NBits]]
Slot == [ino : 0 .. NInodes, name : Names \cup {None}, span : Nat \ {0}]

Creating == pc \in {"c_inode", "c_entry", "c_dir"}
Deleting == pc \in {"d_free", "d_entry", "d_dir"}

DiskOK ==
    /\ imap \subseteq 0 .. NInodes - 1 /\ Dir - 1 \in imap
    /\ itab \in [1 .. NInodes -> InodeType] /\ DOMAIN data = 0 .. NBits
    /\ slots \in Seq(Slot) /\ size \in 1 .. Len(slots)
    /\ \A i \in FileInodes : itab[i].size <= Direct
    /\ slots[1].name = None
    /\ \A x \in DOMAIN slots : slots[x].name \in Names => slots[x].ino # Dir

LocalsOK ==
    /\ pc \in {"idle", "c_inode", "c_entry", "c_dir", "w_walk", "w_alloc",
               "d_free", "d_entry", "d_dir"}
    /\ pc # "idle" => name \in Names
    /\ Creating \/ Deleting \/ pc = "w_alloc" => ino \in FileInodes
    /\ Deleting \/ pc = "w_alloc" => inode \in InodeType
    /\ Creating => want \in Contents \cup {None}
    /\ pc \in {"w_walk", "w_alloc"} => want \in Contents
    /\ Deleting => k \in Nat
    /\ pc = "w_alloc" => k \in 0 .. Len(want)
    /\ store \in [Names -> Contents \cup {None, Torn, <<>>}]
    /\ freed \in BOOLEAN /\ cut \in BOOLEAN

\* The chain of entries: every one leads to the next or to the end, and no
\* name is listed twice.
Linked ==
    /\ \A x \in read_dir_inode : x + slots[x].span \in Reached \cup {size + 1}
    /\ \A x, y \in read_dir_inode : slots[x].name = slots[y].name => x = y

\* The operation under way knows its entry: the new one is behind the end and
\* its name is not listed; the old one is where walk found it.
Knows ==
    /\ pc = "c_dir" =>
          /\ Len(slots) = size + 1
          /\ slots[size + 1] = [ino |-> ino, name |-> name, span |-> 1]
    /\ Creating \/ pc = "d_dir" => name \notin Listed
    /\ pc \in {"w_alloc", "d_free", "d_entry"} => name \in Listed /\ walk(name) = ino

\* The inode as the code has it, in memory while its file is written.
Loaded(i) == IF pc = "w_alloc" /\ i = ino THEN inode ELSE itab[i]

\* Until a block is freed, a marked block that no metadata is in has at most
\* one owner, and what is in memory extends what is on the disk.
Owned ==
    ~freed =>
        /\ 0 .. Meta - 1 \subseteq bmap
        /\ \A i \in FileInodes, x \in Index :
              Loaded(i).block[x] # 0 => Loaded(i).block[x] > Meta /\ Loaded(i).block[x] - 1 \in bmap
        /\ \A i, j \in FileInodes, x, y \in Index :
              Loaded(i).block[x] # 0 /\ Loaded(i).block[x] = Loaded(j).block[y] => i = j /\ x = y
        /\ pc = "w_alloc" => \A x \in Index :
              itab[ino].block[x] # 0 => inode.block[x] = itab[ino].block[x]

\* Until a deletion is cut, an inode is listed once and marked, except for the
\* one whose deletion is under way; the inode of a new file is marked and not
\* yet listed.
Marked ==
    ~cut =>
        /\ \A x \in read_dir_inode :
              (pc = "d_entry" /\ slots[x].ino = ino) \/ slots[x].ino - 1 \in imap
        /\ \A x, y \in read_dir_inode : slots[x].ino = slots[y].ino => x = y
        /\ Creating => ino - 1 \in imap /\ \A x \in read_dir_inode : slots[x].ino # ino

\* What is in the files while nothing was freed and no deletion cut.
HoldsStored ==
    ~freed /\ ~cut =>
        /\ pc \in {"c_entry", "c_dir"} => itab[ino] = EmptyInode
        /\ pc # "idle" => store[name] = IF pc = "w_walk" THEN <<>> ELSE Torn
        /\ pc = "w_alloc" /\ k > 0 => Missing = {}
        /\ pc = "w_alloc" => \A x \in 0 .. k - 1 : data[inode.block[x]] = want[x + 1]

Ext3Inv ==
    /\ DiskOK /\ LocalsOK /\ Linked /\ Knows
    /\ Owned /\ Marked /\ HoldsStored /\ ReadBack

-----------------------------------------------------------------------------
(***************************************************************************)
(* Numbers.                                                                *)
(***************************************************************************)

\* The assumptions on the constants, one by one.
LEMMA Constants ==
    /\ NBits \in Nat \ {0} /\ Meta \in Nat \ {0} /\ NInodes \in Nat \ {0}
    /\ Direct \in Nat \ {0} /\ Meta <= NBits /\ MaxFails \in Nat
    /\ None \notin Names /\ None \notin Contents /\ Torn \notin Contents /\ Torn # None
    /\ <<>> # None
BY Ext3Assumption

\* A non-empty set of naturals has a least element, and Min finds it.
LEMMA MinFacts ==
    ASSUME NEW T \in SUBSET Nat, T # {}
    PROVE  Min(T) \in T /\ \A y \in T : Min(T) <= y
<1>. DEFINE LT == {ss \in Nat \X Nat : ss[1] < ss[2]}
<1>1. IsWellFoundedOn(LT, Nat)
  BY NatLessThanWellFounded DEF OpToRel
<1>2. PICK m \in T : \A y \in T : ~(<<y, m>> \in LT)
  <2>. HIDE DEF LT
  <2>. QED BY <1>1, WFMin
<1>3. ASSUME NEW y \in T  PROVE  m <= y
  <2>1. y \in Nat /\ m \in Nat
    OBVIOUS
  <2>2. y < m => <<y, m>> \in LT
    BY <2>1
  <2>. QED BY <1>2, <2>1, <2>2
<1>. QED BY <1>2, <1>3 DEF Min

-----------------------------------------------------------------------------
(***************************************************************************)
(* The walk through the entries.                                           *)
(***************************************************************************)

\* What the walk's function must satisfy on a directory of n entries.
Walks(g, s, n) ==
    g = [x \in 1 .. n |-> x = 1 \/ \E y \in 1 .. x - 1 : /\ g[y] /\ s[y].ino # 0
                                                         /\ y + s[y].span = x]

\* The recursion of the walk is well founded: a function for n - 1 entries is
\* extended to one for n.
LEMMA WalkExtends ==
    ASSUME NEW s, NEW n \in Nat \ {0}, NEW g, Walks(g, s, n - 1)
    PROVE  \E h : Walks(h, s, n)
<1>. DEFINE Arrives(f, x) == x = 1 \/ \E y \in 1 .. x - 1 : /\ f[y] /\ s[y].ino # 0
                                                            /\ y + s[y].span = x
            h == [x \in 1 .. n |-> IF x = n THEN Arrives(g, n) ELSE g[x]]
<1>1. ASSUME NEW x \in 1 .. n  PROVE Arrives(h, x) <=> Arrives(g, x)
  <2>1. ASSUME NEW y \in 1 .. x - 1  PROVE h[y] = g[y]
    <3>1. y \in 1 .. n /\ y # n
      OBVIOUS
    <3>. QED BY <3>1
  <2>. HIDE DEF h
  <2>. QED BY <2>1
<1>2. ASSUME NEW x \in 1 .. n  PROVE h[x] = Arrives(h, x)
  <2>1. CASE x = n
    BY <1>1, <2>1
  <2>2. CASE x # n
    <3>1. x \in 1 .. n - 1 /\ h[x] = g[x]
      BY <2>2
    <3>2. g[x] = Arrives(g, x)
      BY <3>1 DEF Walks
    <3>. QED BY <1>1, <3>1, <3>2
  <2>. QED BY <2>1, <2>2
<1>3. h = [x \in 1 .. n |-> h[x]]
  OBVIOUS
<1>. HIDE DEF h
<1>4. h = [x \in 1 .. n |-> Arrives(h, x)]
  BY <1>2, <1>3
<1>. QED BY <1>4 DEF Walks

\* So the function exists for every size of the directory.
LEMMA WalkExists ==
    ASSUME NEW s, NEW n \in Nat
    PROVE  \E g : Walks(g, s, n)
<1>. DEFINE T == {m \in Nat : ~\E g : Walks(g, s, m)}
<1>1. SUFFICES ASSUME n \in T  PROVE FALSE
  OBVIOUS
<1>2. T \in SUBSET Nat /\ T # {}
  BY <1>1
<1>3. Min(T) \in T /\ \A y \in T : Min(T) <= y
  <2>. HIDE DEF T
  <2>. QED BY <1>2, MinFacts
<1>4. PICK m \in T : \A y \in T : m <= y
  BY <1>3
<1>5. m \in Nat /\ ~\E g : Walks(g, s, m)
  OBVIOUS
<1>6. CASE m = 0
  <2>1. Walks([x \in 1 .. 0 |-> TRUE], s, 0)
    BY DEF Walks
  <2>. QED BY <1>5, <1>6, <2>1
<1>7. CASE m # 0
  <2>1. m - 1 \in Nat /\ m - 1 \notin T
    BY <1>4, <1>5, <1>7
  <2>2. PICK g : Walks(g, s, m - 1)
    BY <2>1
  <2>. QED BY <1>5, <1>7, <2>2, WalkExtends
<1>. QED BY <1>6, <1>7

\* What the walk reaches: the first entry, and behind each entry that has an
\* inode the one its rec_len leads to.
LEMMA ReachedFacts ==
    ASSUME NEW s, NEW n \in Nat
    PROVE  /\ ReachedIn(s, n) \subseteq 1 .. n
           /\ \A x \in 1 .. n : x \in ReachedIn(s, n) <=>
                  x = 1 \/ \E y \in ReachedIn(s, n) : y < x /\ s[y].ino # 0 /\ y + s[y].span = x
<1>. DEFINE f == CHOOSE g : Walks(g, s, n)
<1>1. Walks(f, s, n)
  BY WalkExists
<1>2. ReachedIn(s, n) = {x \in 1 .. n : f[x]}
  BY DEF ReachedIn, Walks
<1>. HIDE DEF f
<1>3. ASSUME NEW x \in 1 .. n
      PROVE  f[x] = (x = 1 \/ \E y \in 1 .. x - 1 : f[y] /\ s[y].ino # 0 /\ y + s[y].span = x)
  BY <1>1 DEF Walks
<1>4. ASSUME NEW x \in 1 .. n, NEW y
      PROVE  y \in 1 .. x - 1 /\ f[y] <=> y \in ReachedIn(s, n) /\ y < x
  BY <1>2
<1>5. ASSUME NEW x \in 1 .. n
      PROVE  x \in ReachedIn(s, n) <=>
                 x = 1 \/ \E y \in ReachedIn(s, n) : y < x /\ s[y].ino # 0 /\ y + s[y].span = x
  <2>1. x \in ReachedIn(s, n) <=> f[x]
    BY <1>2
  <2>2. f[x] <=> x = 1 \/ \E y \in 1 .. x - 1 : f[y] /\ s[y].ino # 0 /\ y + s[y].span = x
    BY <1>3
  <2>. QED BY <2>1, <2>2, <1>4
<1>. QED BY <1>2, <1>5

\* Strong induction over a set of naturals.
LEMMA StrongInduction ==
    ASSUME NEW T \in SUBSET Nat, NEW U,
           \A x \in T : (\A y \in T : y < x => y \in U) => x \in U
    PROVE  T \subseteq U
<1>1. SUFFICES ASSUME T \ U # {}  PROVE FALSE
  OBVIOUS
<1>2. T \ U \in SUBSET Nat
  OBVIOUS
<1>3. PICK m \in T \ U : \A y \in T \ U : m <= y
  BY <1>1, <1>2, MinFacts
<1>4. ASSUME NEW y \in T, y < m  PROVE y \in U
  BY <1>3, <1>4
<1>. QED BY <1>3, <1>4

\* Where two directories agree, the walk goes the same way.
LEMMA ReachedAgree ==
    ASSUME NEW s, NEW t, NEW m \in Nat, NEW n \in Nat, m <= n,
           \A x \in 1 .. m : s[x] = t[x]
    PROVE  \A x \in 1 .. m : x \in ReachedIn(s, m) <=> x \in ReachedIn(t, n)
<1>. DEFINE R == ReachedIn(s, m)
            Q == {x \in ReachedIn(t, n) : x <= m}
<1>1. /\ R \subseteq 1 .. m
      /\ \A x \in 1 .. m : x \in R <=>
             x = 1 \/ \E y \in R : y < x /\ s[y].ino # 0 /\ y + s[y].span = x
  BY ReachedFacts
<1>2. /\ Q \subseteq 1 .. m
      /\ \A x \in 1 .. m : x \in Q <=>
             x = 1 \/ \E y \in Q : y < x /\ t[y].ino # 0 /\ y + t[y].span = x
  <2>1. /\ ReachedIn(t, n) \subseteq 1 .. n
        /\ \A x \in 1 .. n : x \in ReachedIn(t, n) <=>
               x = 1 \/ \E y \in ReachedIn(t, n) : y < x /\ t[y].ino # 0 /\ y + t[y].span = x
    BY ReachedFacts
  <2>2. \A x \in 1 .. m : x \in 1 .. n /\ (x \in Q <=> x \in ReachedIn(t, n))
    OBVIOUS
  <2>3. \A x \in 1 .. m, y \in ReachedIn(t, n) : y < x => y \in Q
    BY <2>1
  <2>4. Q \subseteq 1 .. m
    BY <2>1
  <2>. QED BY <2>1, <2>2, <2>3, <2>4
<1>. HIDE DEF R, Q
<1>3. R \subseteq Q
  <2>1. R \in SUBSET Nat
    BY <1>1
  <2>2. ASSUME NEW x \in R, \A y \in R : y < x => y \in Q  PROVE x \in Q
    BY <1>1, <1>2, <2>2
  <2>. QED BY <2>1, <2>2, StrongInduction
<1>4. Q \subseteq R
  <2>1. Q \in SUBSET Nat
    BY <1>2
  <2>2. ASSUME NEW x \in Q, \A y \in Q : y < x => y \in R  PROVE x \in R
    BY <1>1, <1>2, <2>2
  <2>. QED BY <2>1, <2>2, StrongInduction
<1>. QED BY <1>3, <1>4 DEF R, Q

\* The directory t is s with the entry at deleted.
Removed(s, t, n, at) ==
    LET last == at + s[at].span > n
    IN  \A x \in 1 .. n :
            /\ t[x].ino = IF x = at THEN 0 ELSE s[x].ino
            /\ t[x].span = IF x # at /\ ~last /\ x \in ReachedIn(s, n) /\ x + s[x].span = at
                           THEN s[x].span + s[at].span ELSE s[x].span

\* A deletion leaves every other entry on the walk, and the deleted one only if
\* it was the last.
LEMMA ReachedRemoved ==
    ASSUME NEW s, NEW t, NEW n \in Nat, NEW at \in ReachedIn(s, n), at # 1, s[at].ino # 0,
           \A x \in 1 .. n : s[x].span \in Nat \ {0}, Removed(s, t, n, at)
    PROVE  /\ ReachedIn(t, n) \subseteq ReachedIn(s, n)
           /\ ReachedIn(s, n) \ {at} \subseteq ReachedIn(t, n)
           /\ at + s[at].span > n => at \in ReachedIn(t, n)
<1>. DEFINE R == ReachedIn(s, n)
            Q == ReachedIn(t, n)
<1>1. /\ R \subseteq 1 .. n
      /\ \A x \in 1 .. n : x \in R <=>
             x = 1 \/ \E y \in R : y < x /\ s[y].ino # 0 /\ y + s[y].span = x
  BY ReachedFacts
<1>2. /\ Q \subseteq 1 .. n
      /\ \A x \in 1 .. n : x \in Q <=>
             x = 1 \/ \E y \in Q : y < x /\ t[y].ino # 0 /\ y + t[y].span = x
  BY ReachedFacts
<1>3. ASSUME NEW x \in 1 .. n
      PROVE  /\ t[x].ino = IF x = at THEN 0 ELSE s[x].ino
             /\ t[x].span = IF x # at /\ at + s[at].span <= n /\ x \in R /\ x + s[x].span = at
                            THEN s[x].span + s[at].span ELSE s[x].span
  BY <1>1 DEF Removed
<1>. HIDE DEF R, Q
<1>4. at \in R /\ at \in 1 .. n
  BY <1>1 DEF R
<1>5. Q \subseteq R
  <2>1. Q \in SUBSET Nat
    BY <1>2
  <2>2. ASSUME NEW x \in Q, \A y \in Q : y < x => y \in R  PROVE x \in R
    <3>1. CASE x = 1
      BY <1>1, <1>2, <3>1
    <3>2. CASE x # 1
      <4>1. PICK y \in Q : y < x /\ t[y].ino # 0 /\ y + t[y].span = x
        BY <1>2, <3>2
      <4>2. y \in R /\ y \in 1 .. n /\ y # at /\ s[y].ino # 0
        BY <1>2, <1>3, <2>2, <4>1
      <4>3. CASE t[y].span = s[y].span
        BY <1>1, <1>2, <4>1, <4>2, <4>3
      <4>4. CASE at + s[at].span <= n /\ y + s[y].span = at /\ t[y].span = s[y].span + s[at].span
        <5>1. at < x /\ at + s[at].span = x
          BY <1>4, <4>1, <4>2, <4>4
        <5>. QED BY <1>1, <1>2, <1>4, <5>1
      <4>. QED BY <1>3, <4>2, <4>3, <4>4
    <3>. QED BY <3>1, <3>2
  <2>. QED BY <2>1, <2>2, StrongInduction
<1>6. R \subseteq IF at + s[at].span > n THEN Q ELSE Q \cup {at}
  <2>. DEFINE U == IF at + s[at].span > n THEN Q ELSE Q \cup {at}
  <2>1. R \in SUBSET Nat
    BY <1>1
  <2>2. ASSUME NEW x \in R, \A y \in R : y < x => y \in U  PROVE x \in U
    <3>1. CASE x = 1
      BY <1>1, <1>2, <3>1
    <3>2. CASE x = at /\ at + s[at].span <= n
      BY <1>4, <3>2
    <3>3. CASE x # 1 /\ (x = at => at + s[at].span > n)
      <4>1. PICK y \in R : y < x /\ s[y].ino # 0 /\ y + s[y].span = x
        BY <1>1, <3>3
      <4>2. y \in 1 .. n /\ x \in 1 .. n /\ y \in U
        BY <1>1, <2>2, <4>1
      <4>3. CASE y # at
        <5>1. y \in Q /\ t[y].ino # 0
          BY <1>3, <4>1, <4>2, <4>3
        <5>2. t[y].span = s[y].span
          BY <1>3, <1>4, <3>3, <4>1, <4>2, <4>3
        <5>3. x \in Q
          BY <1>2, <4>1, <4>2, <5>1, <5>2
        <5>. QED BY <5>3
      <4>4. CASE y = at
        <5>1. PICK z \in R : z < at /\ s[z].ino # 0 /\ z + s[z].span = at
          BY <1>1, <1>4
        <5>2. z \in 1 .. n /\ z < x /\ z # at
          BY <1>1, <1>4, <4>1, <4>2, <4>4, <5>1
        <5>3. z \in Q /\ t[z].ino # 0
          BY <1>3, <2>2, <5>1, <5>2
        <5>4. at + s[at].span <= n
          BY <4>1, <4>2, <4>4
        <5>5. t[z].span = s[z].span + s[at].span
          BY <1>3, <5>1, <5>2, <5>4
        <5>6. z + t[z].span = x
          BY <1>4, <4>1, <4>4, <5>1, <5>2, <5>5
        <5>7. x \in Q
          BY <1>2, <4>2, <5>2, <5>3, <5>6
        <5>. QED BY <5>7
      <4>. QED BY <4>3, <4>4
    <3>. QED BY <1>1, <1>4, <3>1, <3>2, <3>3
  <2>. HIDE DEF U
  <2>3. R \subseteq U
    BY <2>1, <2>2, StrongInduction
  <2>. QED BY <2>3 DEF U
<1>. QED BY <1>4, <1>5, <1>6 DEF R, Q

-----------------------------------------------------------------------------
(***************************************************************************)
(* The directory in a state and across a step.                             *)
(***************************************************************************)

\* The directory is as long as its inode says, and its entries are entries.
LEMMA DirTypes ==
    ASSUME DiskOK
    PROVE  /\ size \in Nat \ {0} /\ size <= Len(slots) /\ Len(slots) \in Nat
           /\ \A x \in 1 .. size : x \in DOMAIN slots /\ slots[x] \in Slot
           /\ Reached \subseteq 1 .. size /\ read_dir_inode \subseteq Reached
           /\ \A x \in read_dir_inode : slots[x].ino # 0
           /\ Reached \in SUBSET Nat
<1>1. slots \in Seq(Slot) /\ size \in 1 .. Len(slots)
  BY DEF DiskOK
<1>2. Len(slots) \in Nat /\ size \in Nat \ {0} /\ size <= Len(slots)
  BY <1>1
<1>3. \A x \in 1 .. size : x \in DOMAIN slots /\ slots[x] \in Slot
  BY <1>1, <1>2
<1>4. Reached \subseteq 1 .. size
  BY <1>2, ReachedFacts DEF Reached
<1>. QED BY <1>2, <1>3, <1>4 DEF read_dir_inode

\* The first of several entries with the same name.
LEMMA FindFacts ==
    ASSUME NEW E \in SUBSET Nat, NEW s, NEW n, NEW y \in E, s[y].name = n,
           NEW p, p = Min({x \in E : s[x].name = n})
    PROVE  p \in E /\ s[p].name = n
<1>. DEFINE T == {x \in E : s[x].name = n}
<1>1. T \in SUBSET Nat /\ T # {}
  OBVIOUS
<1>2. Min(T) \in T
  <2>. HIDE DEF T
  <2>. QED BY <1>1, MinFacts
<1>. QED BY <1>2

\* walk finds the entry of a name that is listed.
LEMMA WalkFinds ==
    ASSUME DiskOK, NEW n \in Listed
    PROVE  /\ n \in Names
           /\ \E x \in read_dir_inode : /\ slots[x].name = n /\ x = Position(n)
                                        /\ walk(n) = slots[x].ino
<1>1. PICK y \in read_dir_inode : n \in Names /\ slots[y].name = n
  BY DEF Listed
<1>2. read_dir_inode \in SUBSET Nat
  BY DirTypes
<1>3. Position(n) \in read_dir_inode /\ slots[Position(n)].name = n
  BY <1>1, <1>2, FindFacts DEF Position
<1>. QED BY <1>1, <1>3 DEF walk

\* The same for the state after a step, in which no name is listed twice.
LEMMA WalkNext ==
    ASSUME read_dir_inode' \in SUBSET Nat, Linked', NEW n \in Names,
           NEW y \in read_dir_inode', slots'[y].name = n
    PROVE  n \in Listed' /\ walk(n)' = slots'[y].ino
<1>1. Position(n)' \in read_dir_inode' /\ slots'[Position(n)'].name = n
  BY FindFacts DEF Position
<1>2. Position(n)' = y
  BY <1>1 DEF Linked
<1>3. walk(n)' = slots'[y].ino
  BY <1>2 DEF walk
<1>. QED BY <1>3 DEF Listed

\* The entry of a listed name is the only one with that name, and its inode is
\* not the directory's.
LEMMA WalkIs ==
    ASSUME DiskOK, Linked, NEW x \in read_dir_inode, slots[x].name \in Names
    PROVE  /\ slots[x].name \in Listed /\ walk(slots[x].name) = slots[x].ino
           /\ Position(slots[x].name) = x /\ slots[x].ino \in FileInodes
<1>. DEFINE n == slots[x].name
<1>1. n \in Listed
  BY DEF Listed
<1>2. PICK y \in read_dir_inode : slots[y].name = n /\ y = Position(n) /\ walk(n) = slots[y].ino
  BY <1>1, WalkFinds
<1>3. y = x
  BY <1>2 DEF Linked
<1>4. x \in DOMAIN slots /\ slots[x] \in Slot /\ slots[x].ino # 0
  BY DirTypes
<1>5. slots[x].ino \in 0 .. NInodes /\ slots[x].ino # Dir
  BY <1>4 DEF DiskOK, Slot
<1>. QED BY <1>1, <1>2, <1>3, <1>4, <1>5, Constants DEF FileInodes, Dir

\* A name whose entries are the same after a step is listed, with its inode,
\* exactly if it was.
LEMMA EntryKept ==
    ASSUME DiskOK, Linked, read_dir_inode' \in SUBSET Nat, Linked', NEW n \in Names,
           \A x \in read_dir_inode : slots[x].name = n =>
               x \in read_dir_inode' /\ slots'[x].name = n /\ slots'[x].ino = slots[x].ino,
           \A x \in read_dir_inode' : slots'[x].name = n =>
               x \in read_dir_inode /\ slots[x].name = n
    PROVE  (n \in Listed' <=> n \in Listed) /\ (n \in Listed => walk(n)' = walk(n))
<1>1. ASSUME n \in Listed  PROVE n \in Listed' /\ walk(n)' = walk(n)
  <2>1. PICK x \in read_dir_inode : slots[x].name = n /\ walk(n) = slots[x].ino
    BY <1>1, WalkFinds
  <2>2. x \in read_dir_inode' /\ slots'[x].name = n /\ slots'[x].ino = slots[x].ino
    BY <2>1
  <2>. QED BY <2>1, <2>2, WalkNext
<1>2. ASSUME n \in Listed'  PROVE n \in Listed
  BY <1>2 DEF Listed
<1>. QED BY <1>1, <1>2

\* A step that leaves the entries alone up to the directory's size.
SameDir == size' = size /\ \A x \in 1 .. size : slots'[x] = slots[x]

\* Then the walk, the names and the inodes are what they were.
LEMMA SameDirFacts ==
    ASSUME DiskOK, SameDir, DiskOK'
    PROVE  /\ Reached' = Reached /\ read_dir_inode' = read_dir_inode /\ Listed' = Listed
           /\ \A x \in read_dir_inode : slots'[x] = slots[x]
           /\ \A n \in Listed : walk(n)' = walk(n)
<1>1. size \in Nat /\ size' = size /\ \A x \in 1 .. size : slots'[x] = slots[x]
  BY DirTypes DEF SameDir
<1>2. /\ ReachedIn(slots, size) \subseteq 1 .. size
      /\ ReachedIn(slots', size) \subseteq 1 .. size
  BY <1>1, ReachedFacts
<1>3. \A x \in 1 .. size : x \in ReachedIn(slots, size) <=> x \in ReachedIn(slots', size)
  <2>1. size <= size /\ \A x \in 1 .. size : slots[x] = slots'[x]
    BY <1>1
  <2>. QED BY <1>1, <2>1, ReachedAgree
<1>4. Reached' = Reached
  BY <1>1, <1>2, <1>3 DEF Reached
<1>5. \A x \in Reached : slots'[x] = slots[x]
  BY <1>1, <1>2 DEF Reached
<1>6. read_dir_inode' = read_dir_inode
  BY <1>4, <1>5 DEF read_dir_inode
<1>7. \A x \in read_dir_inode : slots'[x] = slots[x]
  BY <1>5 DEF read_dir_inode
<1>8. Listed' = Listed
  BY <1>6, <1>7 DEF Listed
<1>9. ASSUME NEW n \in Listed  PROVE walk(n)' = walk(n)
  <2>1. Position(n)' = Position(n)
    BY <1>6, <1>7 DEF Position
  <2>2. Position(n) \in read_dir_inode
    BY WalkFinds
  <2>. QED BY <1>7, <2>1, <2>2 DEF walk
<1>. QED BY <1>4, <1>6, <1>7, <1>8, <1>9

\* What a file may be given is a sequence of at most Direct + 1 blocks.
LEMMA ContentsFacts ==
    ASSUME NEW d \in Contents
    PROVE  /\ Len(d) \in 0 .. Direct + 1 /\ Len(d) \in Nat
           /\ d = [x \in 1 .. Len(d) |-> d[x]]
<1>1. PICK n \in 0 .. Direct + 1, v \in Values : d = [x \in 1 .. n |-> <<v, x>>]
  BY DEF Contents
<1>2. n \in Nat
  BY Constants
<1>3. d \in Seq({<<v, x>> : x \in 1 .. n}) /\ Len(d) = n
  BY <1>1, <1>2
<1>. QED BY <1>1, <1>2, <1>3

\* The invariants about the chain hold across a step that leaves it alone.
LEMMA LinkedFrame ==
    ASSUME DiskOK, DiskOK', SameDir, Linked
    PROVE  Linked'
<1>1. /\ Reached' = Reached /\ read_dir_inode' = read_dir_inode
      /\ \A x \in read_dir_inode : slots'[x] = slots[x]
      /\ size' = size
  BY SameDirFacts DEF SameDir
<1>. QED BY <1>1 DEF Linked

\* Ownership survives a step that adds no block to an inode.
LEMMA OwnedShrinks ==
    ASSUME Owned, freed' = freed, bmap \subseteq bmap',
           \A i \in FileInodes, x \in Index :
               Loaded(i)'.block[x] # 0 => Loaded(i)'.block[x] = Loaded(i).block[x],
           pc' = "w_alloc" => \A x \in Index :
               itab'[ino'].block[x] # 0 => inode'.block[x] = itab'[ino'].block[x]
    PROVE  Owned'
<1>. SUFFICES ASSUME ~freed'  PROVE
        /\ 0 .. Meta - 1 \subseteq bmap'
        /\ \A i \in FileInodes, x \in Index :
              Loaded(i)'.block[x] # 0 =>
                  Loaded(i)'.block[x] > Meta /\ Loaded(i)'.block[x] - 1 \in bmap'
        /\ \A i, j \in FileInodes, x, y \in Index :
              Loaded(i)'.block[x] # 0 /\ Loaded(i)'.block[x] = Loaded(j)'.block[y] => i = j /\ x = y
  BY DEF Owned
<1>1. /\ 0 .. Meta - 1 \subseteq bmap
      /\ \A i \in FileInodes, x \in Index :
            Loaded(i).block[x] # 0 => Loaded(i).block[x] > Meta /\ Loaded(i).block[x] - 1 \in bmap
      /\ \A i, j \in FileInodes, x, y \in Index :
            Loaded(i).block[x] # 0 /\ Loaded(i).block[x] = Loaded(j).block[y] => i = j /\ x = y
  BY DEF Owned
<1>2. 0 .. Meta - 1 \subseteq bmap'
  BY <1>1
<1>3. ASSUME NEW i \in FileInodes, NEW x \in Index, Loaded(i)'.block[x] # 0
      PROVE  Loaded(i)'.block[x] > Meta /\ Loaded(i)'.block[x] - 1 \in bmap'
  <2>1. Loaded(i)'.block[x] = Loaded(i).block[x]
    BY <1>3
  <2>. QED BY <1>1, <1>3, <2>1
<1>4. ASSUME NEW i \in FileInodes, NEW j \in FileInodes, NEW x \in Index, NEW y \in Index,
             Loaded(i)'.block[x] # 0, Loaded(i)'.block[x] = Loaded(j)'.block[y]
      PROVE  i = j /\ x = y
  <2>1. Loaded(i)'.block[x] = Loaded(i).block[x]
    BY <1>4
  <2>2. Loaded(j)'.block[y] = Loaded(j).block[y]
    BY <1>4
  <2>3. Loaded(i).block[x] # 0 /\ Loaded(i).block[x] = Loaded(j).block[y]
    BY <1>4, <2>1, <2>2
  <2>. QED BY <1>1, <2>3
<1>. QED BY <1>2, <1>3, <1>4

\* The marks survive a step that leaves the directory alone, clears no mark and
\* begins no new file.
LEMMA MarkedFrame ==
    ASSUME DiskOK, DiskOK', SameDir, Marked, cut' = cut, imap \subseteq imap', pc # "d_entry",
           Creating' => Creating /\ ino' = ino
    PROVE  Marked'
<1>1. read_dir_inode' = read_dir_inode /\ \A x \in read_dir_inode : slots'[x] = slots[x]
  BY SameDirFacts
<1>. QED BY <1>1 DEF Marked

\* A file that a step does not touch.
KeepsFile(i) ==
    itab'[i] = itab[i] /\ \A x \in Index : data'[itab[i].block[x]] = data[itab[i].block[x]]

\* Such a file is read as before.
LEMMA ReadSame ==
    ASSUME DiskOK, NEW i \in FileInodes, KeepsFile(i)
    PROVE  [x \in 1 .. itab'[i].size |-> data'[itab'[i].block[x - 1]]] = read_file_inode(i)
<1>1. i \in 1 .. NInodes
  BY Constants DEF FileInodes
<1>2. itab[i].size \in Nat /\ itab[i].size <= Direct
  BY <1>1 DEF DiskOK, InodeType
<1>3. \A x \in 1 .. itab[i].size : x - 1 \in Index
  BY <1>2, Constants DEF Index
<1>. QED BY <1>3 DEF KeepsFile, read_file_inode

\* Reading survives a step that leaves the directory and the files that hold
\* something alone; a file may become torn, or be deleted when it is not listed.
LEMMA ReadBackFrame ==
    ASSUME DiskOK, DiskOK', SameDir, Linked, ReadBack, freed' = freed, cut' = cut,
           \A n \in Names : \/ store'[n] \in {store[n], Torn}
                            \/ store'[n] = None /\ n \notin Listed,
           ~freed /\ ~cut =>
               \A n \in Listed : store'[n] \in Contents => KeepsFile(walk(n))
    PROVE  ReadBack'
<1>1. /\ Reached' = Reached /\ read_dir_inode' = read_dir_inode /\ Listed' = Listed
      /\ \A n \in Listed : walk(n)' = walk(n)
  BY SameDirFacts
<1>2. SUFFICES ASSUME ~freed, ~cut, NEW n \in Names
      PROVE  /\ store'[n] \in Contents =>
                    IF n \in Listed THEN read_file_inode(walk(n))' = store'[n]
                    ELSE read_dir_inode # Reached
             /\ store'[n] = None => n \notin Listed
  BY <1>1 DEF ReadBack
<1>3. /\ store[n] \in Contents =>
             IF n \in Listed THEN read_file_inode(walk(n)) = store[n]
             ELSE read_dir_inode # Reached
      /\ store[n] = None => n \notin Listed
  BY <1>2 DEF ReadBack
<1>4. store'[n] \in Contents => store'[n] = store[n]
  BY <1>2, Constants
<1>5. store'[n] = None => n \notin Listed
  BY <1>2, <1>3, Constants
<1>6. ASSUME n \in Listed, store'[n] \in Contents
      PROVE  read_file_inode(walk(n))' = store'[n]
  <2>1. walk(n) \in FileInodes
    <3>1. PICK x \in read_dir_inode : slots[x].name = n /\ walk(n) = slots[x].ino
      BY <1>6, WalkFinds
    <3>. QED BY <3>1, WalkIs
  <2>2. KeepsFile(walk(n))
    BY <1>2, <1>6
  <2>3. read_file_inode(walk(n))' =
            [x \in 1 .. itab'[walk(n)].size |-> data'[itab'[walk(n)].block[x - 1]]]
    BY <1>1, <1>6 DEF read_file_inode
  <2>. QED BY <1>3, <1>4, <1>6, <2>1, <2>2, <2>3, ReadSame
<1>. QED BY <1>3, <1>4, <1>5, <1>6

-----------------------------------------------------------------------------
(***************************************************************************)
(* The steps.                                                              *)
(***************************************************************************)

\* The type of an inode in the table.
LEMMA TableTypes ==
    ASSUME DiskOK, NEW i \in FileInodes
    PROVE  i \in 1 .. NInodes /\ itab[i] \in InodeType /\ i # Dir
BY Constants DEF DiskOK, FileInodes, Dir

\* An operation that returns, or fails, with the disk as it is (bits of the
\* block bitmap may have been set): what it had in memory is forgotten.
LEMMA ReturnStep ==
    ASSUME Ext3Inv, Return, UNCHANGED <<imap, itab, data, slots>>, bmap \subseteq bmap',
           freed' = freed, cut' = (cut \/ pc = "d_entry"),
           store' \in [Names -> Contents \cup {None, Torn, <<>>}],
           \A n \in Names : \/ store'[n] \in {store[n], Torn}
                            \/ store'[n] = None /\ n \notin Listed
    PROVE  Ext3Inv'
<1>. USE DEF Ext3Inv
<1>1. pc' = "idle" /\ cut' \in BOOLEAN
  BY DEF Return
<1>2. DiskOK' /\ LocalsOK'
  BY <1>1 DEF DiskOK, size, LocalsOK, Creating, Deleting
<1>3. SameDir
  BY DEF SameDir, size
<1>4. Linked' /\ Knows'
  BY <1>1, <1>2, <1>3, LinkedFrame DEF Knows, Creating
<1>5. Owned'
  <2>1. ASSUME NEW i \in FileInodes, NEW x \in Index, freed = FALSE, Loaded(i)'.block[x] # 0
        PROVE  Loaded(i)'.block[x] = Loaded(i).block[x]
    <3>1. Loaded(i)' = itab[i]
      BY <1>1 DEF Loaded
    <3>. QED BY <2>1, <3>1 DEF Loaded, Owned
  <2>2. CASE freed = FALSE
    BY <1>1, <2>1, <2>2, OwnedShrinks
  <2>3. CASE freed = TRUE
    BY <2>3 DEF Owned
  <2>. QED BY <2>2, <2>3 DEF LocalsOK
<1>6. Marked'
  <2>1. CASE pc = "d_entry"
    BY <2>1 DEF Marked
  <2>2. CASE pc # "d_entry"
    <3>1. cut' = cut /\ ~Creating'
      BY <1>1, <2>2 DEF Creating, LocalsOK
    <3>. QED BY <1>2, <1>3, <2>2, <3>1, MarkedFrame
  <2>. QED BY <2>1, <2>2
<1>7. HoldsStored'
  BY <1>1 DEF HoldsStored
<1>8. ReadBack'
  <2>1. CASE cut' = TRUE
    BY <2>1 DEF ReadBack
  <2>2. CASE cut' = cut
    <3>1. \A i : KeepsFile(i)
      BY DEF KeepsFile
    <3>. QED BY <1>2, <1>3, <2>2, <3>1, ReadBackFrame
  <2>. QED BY <2>1, <2>2 DEF LocalsOK
<1>. QED BY <1>2, <1>4, <1>5, <1>6, <1>7, <1>8

\* No file but the one at hand changes in the history.
LEMMA StoreFacts ==
    ASSUME LocalsOK, NEW n \in Names, NEW v \in Contents \cup {None, Torn, <<>>},
           store' = [store EXCEPT ![n] = v]
    PROVE  /\ store' \in [Names -> Contents \cup {None, Torn, <<>>}] /\ store'[n] = v
           /\ \A m \in Names : m # n => store'[m] = store[m]
BY DEF LocalsOK

\* The bit that bitmap_alloc finds is free.
LEMMA FreeBitFacts ==
    ASSUME NEW map, NEW n \in Nat, FreeBits(map, n) # {}
    PROVE  bitmap_alloc(map, n) \in 0 .. n - 1 /\ bitmap_alloc(map, n) \notin map
<1>1. FreeBits(map, n) \in SUBSET Nat
  BY DEF FreeBits
<1>2. Min(FreeBits(map, n)) \in FreeBits(map, n)
  BY <1>1, MinFacts
<1>. QED BY <1>2 DEF bitmap_alloc, FreeBits

\* create_file takes an inode that no entry has.
LEMMA AllocInodeStep ==
    ASSUME Ext3Inv, NEW n \in Names \ Listed, NEW d \in Contents \cup {None},
           pc \in {"idle", "w_walk"}, alloc_inode(n, d)
    PROVE  Ext3Inv'
<1>. USE DEF Ext3Inv
<1>1. CASE NoInode
  <2>1. /\ Return /\ UNCHANGED <<imap, itab, data, slots>> /\ bmap \subseteq bmap'
        /\ freed' = freed /\ cut' = (cut \/ pc = "d_entry")
        /\ store' = store
    BY <1>1 DEF NoInode, disk, history, LocalsOK
  <2>. QED BY <2>1, ReturnStep DEF LocalsOK
<1>2. CASE ~NoInode
  <2>. DEFINE bit == bitmap_alloc(imap, NInodes)
  <2>1. /\ FreeBits(imap, NInodes) # {}
        /\ imap' = imap \cup {bit} /\ ino' = bit + 1
        /\ pc' = "c_inode" /\ name' = n /\ want' = d
        /\ store' = [store EXCEPT ![n] = Torn]
        /\ UNCHANGED <<bmap, itab, data, slots, inode, k, freed, cut, fails>>
    BY <1>2 DEF alloc_inode
  <2>2. bit \in 0 .. NInodes - 1 /\ bit \notin imap
    BY <2>1, FreeBitFacts, Constants
  <2>. HIDE DEF bit
  <2>3. ino' \in FileInodes /\ ino' - 1 = bit
    BY <2>1, <2>2, Constants DEF FileInodes, DiskOK, Dir
  <2>4. /\ store' \in [Names -> Contents \cup {None, Torn, <<>>}] /\ store'[n] = Torn
        /\ \A m \in Names : m # n => store'[m] = store[m]
    BY <2>1, StoreFacts
  <2>5. DiskOK'
    BY <2>1, <2>2 DEF DiskOK, size
  <2>6. LocalsOK'
    BY <2>1, <2>3, <2>4 DEF LocalsOK, Creating, Deleting
  <2>7. SameDir
    BY <2>1 DEF SameDir, size
  <2>8. /\ read_dir_inode' = read_dir_inode /\ Listed' = Listed
        /\ \A x \in read_dir_inode : slots'[x] = slots[x]
    BY <2>5, <2>7, SameDirFacts
  <2>9. Linked' /\ Knows'
    BY <2>1, <2>5, <2>7, <2>8, LinkedFrame DEF Knows, Creating
  <2>10. Owned'
    <3>1. \A i \in FileInodes : Loaded(i)' = Loaded(i)
      BY <2>1 DEF Loaded
    <3>. QED BY <2>1, <3>1, OwnedShrinks
  <2>11. Marked'
    <3>1. ASSUME ~cut, NEW x \in read_dir_inode
          PROVE  slots[x].ino - 1 \in imap /\ slots[x].ino # ino'
      <4>1. slots[x].ino - 1 \in imap
        BY <3>1 DEF Marked
      <4>. QED BY <2>2, <2>3, <4>1
    <3>2. ~cut => \A x, y \in read_dir_inode : slots[x].ino = slots[y].ino => x = y
      BY DEF Marked
    <3>. QED BY <2>1, <2>3, <2>8, <3>1, <3>2 DEF Marked
  <2>12. HoldsStored'
    BY <2>1, <2>4 DEF HoldsStored
  <2>13. ReadBack'
    <3>1. \A i : KeepsFile(i)
      BY <2>1 DEF KeepsFile
    <3>2. \A m \in Names : store'[m] \in {store[m], Torn}
      BY <2>4
    <3>. QED BY <2>1, <2>5, <2>7, <3>1, <3>2, ReadBackFrame
  <2>. QED BY <2>5, <2>6, <2>9, <2>10, <2>11, <2>12, <2>13
<1>. QED BY <1>1, <1>2

\* An operation that begins on a file that is listed: its inode is read and
\* its contents are undefined until the operation ends.
Begins(n, to) ==
    /\ pc' = to /\ name' = n /\ k' = 0
    /\ ino' = walk(n) /\ inode' = itab[walk(n)]
    /\ store' = [store EXCEPT ![n] = Torn]
    /\ UNCHANGED <<disk, freed, cut, fails>>

\* Beginning to write or to delete a file that is listed preserves the invariant.
LEMMA BeginStep ==
    ASSUME Ext3Inv, NEW n \in Listed, NEW to \in {"w_alloc", "d_free"}, pc \in {"idle", "w_walk"},
           Begins(n, to), to = "w_alloc" => want' \in Contents
    PROVE  Ext3Inv'
<1>. USE DEF Ext3Inv
<1>1. /\ pc' = to /\ name' = n /\ k' = 0 /\ ino' = walk(n) /\ inode' = itab[walk(n)]
      /\ store' = [store EXCEPT ![n] = Torn]
      /\ UNCHANGED <<bmap, imap, itab, data, slots, freed, cut>>
  BY DEF Begins, disk
<1>2. n \in Names /\ walk(n) \in FileInodes
  <2>1. PICK x \in read_dir_inode : slots[x].name = n /\ walk(n) = slots[x].ino
    BY WalkFinds
  <2>2. n \in Names
    BY DEF Listed
  <2>. QED BY <2>1, <2>2, WalkIs
<1>3. itab[walk(n)] \in InodeType
  BY <1>2, TableTypes
<1>4. /\ store' \in [Names -> Contents \cup {None, Torn, <<>>}] /\ store'[n] = Torn
      /\ \A m \in Names : m # n => store'[m] = store[m]
  BY <1>1, <1>2, StoreFacts
<1>5. DiskOK'
  BY <1>1 DEF DiskOK, size
<1>6. LocalsOK'
  <2>1. to = "w_alloc" => 0 \in 0 .. Len(want')
    BY ContentsFacts
  <2>. QED BY <1>1, <1>2, <1>3, <1>4, <2>1 DEF LocalsOK, Creating, Deleting
<1>7. SameDir
  BY <1>1 DEF SameDir, size
<1>8. Listed' = Listed /\ walk(n)' = walk(n)
  BY <1>5, <1>7, SameDirFacts
<1>9. Linked' /\ Knows'
  BY <1>1, <1>5, <1>7, <1>8, LinkedFrame DEF Knows, Creating
<1>10. Owned'
  <2>1. \A i \in FileInodes : Loaded(i)' = Loaded(i)
    BY <1>1 DEF Loaded
  <2>. QED BY <1>1, <2>1, OwnedShrinks
<1>11. Marked'
  <2>1. pc # "d_entry" /\ ~Creating'
    BY <1>1 DEF Creating
  <2>. QED BY <1>1, <1>5, <1>7, <2>1, MarkedFrame
<1>12. HoldsStored'
  <2>1. k' > 0 <=> FALSE
    BY <1>1
  <2>2. 0 .. k' - 1 = {}
    BY <1>1
  <2>. QED BY <1>1, <1>4, <2>1, <2>2 DEF HoldsStored
<1>13. ReadBack'
  <2>1. \A i : KeepsFile(i)
    BY <1>1 DEF KeepsFile
  <2>2. \A m \in Names : store'[m] \in {store[m], Torn}
    BY <1>4
  <2>. QED BY <1>1, <1>5, <1>7, <2>1, <2>2, ReadBackFrame
<1>. QED BY <1>5, <1>6, <1>9, <1>10, <1>11, <1>12, <1>13

\* So does opening a file that is listed.
LEMMA OpenStep ==
    ASSUME Ext3Inv, NEW n, NEW d \in Contents, pc \in {"idle", "w_walk"}, Open(n, d)
    PROVE  Ext3Inv'
<1>1. n \in Listed /\ Begins(n, "w_alloc") /\ want' = d
  BY DEF Open, Begins
<1>. QED BY <1>1, BeginStep

\* So does the call of delete_file.
LEMMA DeleteFileStep ==
    ASSUME Ext3Inv, NEW n, delete_file(n)
    PROVE  Ext3Inv'
<1>1. n \in Listed /\ Begins(n, "d_free") /\ pc = "idle"
  BY DEF delete_file, Begins
<1>. QED BY <1>1, BeginStep

\* The inode of a new file.
LEMMA EmptyInodeType ==
    /\ EmptyInode \in InodeType /\ EmptyInode.size = 0
    /\ \A x \in Index : EmptyInode.block[x] = 0
BY Constants DEF EmptyInode, InodeType

\* So does taking an inode for a new file, which no entry names yet.
LEMMA CreateInodeStep ==
    ASSUME Ext3Inv, CreateInode
    PROVE  Ext3Inv'
<1>. USE DEF Ext3Inv
<1>1. /\ pc = "c_inode" /\ pc' = "c_entry" /\ itab' = [itab EXCEPT ![ino] = EmptyInode]
      /\ UNCHANGED <<bmap, imap, data, slots, name, ino, inode, want, k, store, freed, cut>>
  BY DEF CreateInode, At, write_inode, history
<1>2. ino \in FileInodes /\ name \in Names
  BY <1>1 DEF LocalsOK, Creating
<1>3. ino \in 1 .. NInodes /\ ino # Dir /\ Dir \in 1 .. NInodes
  BY <1>2, Constants DEF FileInodes, Dir
<1>4. /\ itab' \in [1 .. NInodes -> InodeType] /\ itab'[ino] = EmptyInode
      /\ \A i \in 1 .. NInodes : i # ino => itab'[i] = itab[i]
  BY <1>1, <1>3, EmptyInodeType DEF DiskOK
<1>5. size' = size
  BY <1>3, <1>4 DEF size
<1>6. DiskOK'
  <2>1. \A i \in FileInodes : itab'[i].size <= Direct
    BY <1>4, EmptyInodeType, Constants, TableTypes DEF DiskOK
  <2>. QED BY <1>1, <1>4, <1>5, <2>1 DEF DiskOK
<1>7. LocalsOK'
  BY <1>1 DEF LocalsOK, Creating, Deleting
<1>8. SameDir
  BY <1>1, <1>5 DEF SameDir
<1>9. Linked' /\ Knows'
  <2>1. Listed' = Listed
    BY <1>6, <1>8, SameDirFacts
  <2>. QED BY <1>1, <1>6, <1>8, <2>1, LinkedFrame DEF Knows, Creating
<1>10. Owned'
  <2>1. ASSUME NEW i \in FileInodes, NEW x \in Index, Loaded(i)'.block[x] # 0
        PROVE  Loaded(i)'.block[x] = Loaded(i).block[x]
    <3>1. Loaded(i)' = itab'[i] /\ Loaded(i) = itab[i] /\ i \in 1 .. NInodes
      BY <1>1, TableTypes DEF Loaded
    <3>. QED BY <1>4, <2>1, <3>1, EmptyInodeType
  <2>. QED BY <1>1, <2>1, OwnedShrinks
<1>11. Marked'
  <2>1. pc # "d_entry" /\ (Creating' => Creating /\ ino' = ino)
    BY <1>1 DEF Creating
  <2>. QED BY <1>1, <1>6, <1>8, <2>1, MarkedFrame
<1>12. HoldsStored'
  BY <1>1, <1>4 DEF HoldsStored
<1>13. ReadBack'
  <2>1. ASSUME ~freed, ~cut, NEW n \in Listed  PROVE KeepsFile(walk(n))
    <3>1. PICK x \in read_dir_inode : slots[x].name = n /\ walk(n) = slots[x].ino
      BY WalkFinds
    <3>2. walk(n) \in FileInodes /\ n \in Names
      BY <3>1, WalkIs, WalkFinds
    <3>3. walk(n) # ino
      BY <1>1, <2>1, <3>1 DEF Marked, Creating
    <3>. QED BY <1>1, <1>4, <3>2, <3>3, TableTypes DEF KeepsFile
  <2>. QED BY <1>1, <1>6, <1>8, <2>1, ReadBackFrame
<1>. QED BY <1>6, <1>7, <1>9, <1>10, <1>11, <1>12, <1>13

\* So does dir_add_entry, which makes the new inode reachable.
LEMMA AddEntryStep ==
    ASSUME Ext3Inv, dir_add_entry
    PROVE  Ext3Inv'
<1>. USE DEF Ext3Inv
<1>. DEFINE new == [ino |-> ino, name |-> name, span |-> 1]
<1>1. /\ pc = "c_entry" /\ pc' = "c_dir" /\ slots' = Append(SubSeq(slots, 1, size), new)
      /\ UNCHANGED <<bmap, imap, itab, data, name, ino, inode, want, k, store, freed, cut>>
  BY DEF dir_add_entry, At, history
<1>2. ino \in FileInodes /\ name \in Names
  BY <1>1 DEF LocalsOK, Creating
<1>3. new \in Slot
  BY <1>2, Constants DEF Slot, FileInodes
<1>. HIDE DEF new
<1>4. /\ slots \in Seq(Slot) /\ size \in Nat \ {0} /\ size <= Len(slots)
      /\ \A x \in 1 .. size : slots[x] \in Slot
  BY DirTypes DEF DiskOK
<1>5. /\ SubSeq(slots, 1, size) \in Seq(Slot) /\ Len(SubSeq(slots, 1, size)) = size
      /\ \A x \in 1 .. size : SubSeq(slots, 1, size)[x] = slots[x]
  <2>1. /\ SubSeq(slots, 1, size) \in Seq(Slot)
        /\ Len(SubSeq(slots, 1, size)) = IF 1 <= size THEN size - 1 + 1 ELSE 0
        /\ \A x \in 1 .. size - 1 + 1 : SubSeq(slots, 1, size)[x] = slots[1 + x - 1]
    BY <1>4, SubSeqProperties
  <2>. QED BY <1>4, <2>1
<1>6. /\ slots' \in Seq(Slot) /\ Len(slots') = size + 1
      /\ \A x \in 1 .. size : slots'[x] = slots[x]
      /\ slots'[size + 1] = new
  BY <1>1, <1>3, <1>5, AppendProperties
<1>7. size' = size
  BY <1>1 DEF size
<1>8. DiskOK'
  <2>1. size' \in 1 .. Len(slots')
    BY <1>4, <1>6, <1>7
  <2>2. slots'[1].name = None
    BY <1>4, <1>6 DEF DiskOK
  <2>3. ASSUME NEW x \in DOMAIN slots', slots'[x].name \in Names  PROVE slots'[x].ino # Dir
    <3>1. x \in 1 .. size + 1
      BY <1>4, <1>6
    <3>2. CASE x = size + 1
      BY <1>2, <1>6, <3>2, TableTypes DEF new
    <3>3. CASE x \in 1 .. size
      BY <1>4, <1>6, <2>3, <3>3 DEF DiskOK
    <3>. QED BY <1>4, <3>1, <3>2, <3>3
  <2>. QED BY <1>1, <1>6, <2>1, <2>2, <2>3 DEF DiskOK
<1>9. LocalsOK'
  BY <1>1 DEF LocalsOK, Creating, Deleting
<1>10. SameDir
  BY <1>6, <1>7 DEF SameDir
<1>11. Linked' /\ Knows'
  <2>1. Listed' = Listed
    BY <1>8, <1>10, SameDirFacts
  <2>. QED BY <1>1, <1>6, <1>7, <1>8, <1>10, <2>1, LinkedFrame DEF Knows, Creating, new
<1>12. Owned'
  <2>1. \A i \in FileInodes : Loaded(i)' = Loaded(i)
    BY <1>1 DEF Loaded
  <2>. QED BY <1>1, <2>1, OwnedShrinks
<1>13. Marked'
  <2>1. pc # "d_entry" /\ (Creating' => Creating /\ ino' = ino)
    BY <1>1 DEF Creating
  <2>. QED BY <1>1, <1>8, <1>10, <2>1, MarkedFrame
<1>14. HoldsStored'
  BY <1>1 DEF HoldsStored
<1>15. ReadBack'
  <2>1. \A i : KeepsFile(i)
    BY <1>1 DEF KeepsFile
  <2>. QED BY <1>1, <1>8, <1>10, <2>1, ReadBackFrame
<1>. QED BY <1>8, <1>9, <1>11, <1>12, <1>13, <1>14, <1>15

\* The directory grows by one entry: the walk goes on to it exactly if it led
\* to the old end.
LEMMA GrowFacts ==
    ASSUME DiskOK, Linked, slots' = slots, size' = size + 1, slots[size + 1].ino # 0
    PROVE  /\ Reached \subseteq Reached' /\ Reached' \subseteq Reached \cup {size + 1}
           /\ read_dir_inode \subseteq read_dir_inode'
           /\ read_dir_inode' = {x \in Reached' : x = size + 1 \/ x \in read_dir_inode}
           /\ size + 1 \in Reached' <=> \E y \in read_dir_inode : y + slots[y].span = size + 1
           /\ size + 1 \notin Reached' => read_dir_inode # Reached
<1>1. /\ size \in Nat \ {0} /\ Reached \subseteq 1 .. size /\ read_dir_inode \subseteq Reached
      /\ \A x \in 1 .. size : slots[x] \in Slot
  BY DirTypes
<1>2. Reached' = ReachedIn(slots, size + 1) /\ Reached = ReachedIn(slots, size)
  BY DEF Reached
<1>3. \A x \in 1 .. size : x \in Reached <=> x \in Reached'
  <2>1. size + 1 \in Nat /\ size <= size + 1 /\ size \in Nat
    BY <1>1
  <2>. QED BY <1>2, <2>1, ReachedAgree
<1>4. /\ Reached' \subseteq 1 .. size + 1
      /\ \A x \in 1 .. size + 1 : x \in Reached' <=>
             x = 1 \/ \E y \in Reached' : y < x /\ slots[y].ino # 0 /\ y + slots[y].span = x
  BY <1>1, <1>2, ReachedFacts
<1>5. Reached \subseteq Reached' /\ Reached' \subseteq Reached \cup {size + 1}
  BY <1>1, <1>3, <1>4
<1>6. size + 1 \in Reached' <=> \E y \in read_dir_inode : y + slots[y].span = size + 1
  <2>1. size + 1 \in 1 .. size + 1 /\ size + 1 # 1
    BY <1>1
  <2>2. \A y \in Reached : y \in Reached' /\ y < size + 1
    BY <1>1, <1>5
  <2>3. \A y \in Reached' : y < size + 1 => y \in Reached
    BY <1>1, <1>5
  <2>. QED BY <1>4, <2>1, <2>2, <2>3 DEF read_dir_inode
<1>7. read_dir_inode' = {x \in Reached' : slots[x].ino # 0}
  BY DEF read_dir_inode
<1>8. read_dir_inode' = {x \in Reached' : x = size + 1 \/ x \in read_dir_inode}
  BY <1>5, <1>7 DEF read_dir_inode
<1>9. ASSUME size + 1 \notin Reached', read_dir_inode = Reached  PROVE FALSE
  <2>. DEFINE T == {size - x : x \in Reached}
  <2>1. T \in SUBSET Nat
    BY <1>1
  <2>2. 1 \in Reached
    BY <1>1, <1>2, ReachedFacts
  <2>3. T # {}
    BY <2>2
  <2>4. PICK m \in T : \A y \in T : m <= y
    <3>. HIDE DEF T
    <3>. QED BY <2>1, <2>3, MinFacts
  <2>5. PICK x \in Reached : m = size - x
    OBVIOUS
  <2>6. x + slots[x].span \in Reached
    BY <1>6, <1>9 DEF Linked
  <2>7. size - (x + slots[x].span) \in T
    BY <2>6
  <2>8. size - x <= size - (x + slots[x].span)
    BY <2>4, <2>5, <2>7
  <2>9. slots[x].span \in Nat \ {0} /\ x \in Nat
    BY <1>1 DEF Slot
  <2>. QED BY <1>1, <2>8, <2>9
<1>. QED BY <1>5, <1>6, <1>7, <1>8, <1>9 DEF read_dir_inode

\* So does the end of a creation.
LEMMA CreateDoneStep ==
    ASSUME Ext3Inv, CreateDone
    PROVE  Ext3Inv'
<1>. USE DEF Ext3Inv
<1>. DEFINE end == size + 1
<1>1. /\ pc = "c_dir" /\ itab' = [itab EXCEPT ![Dir] = [itab[Dir] EXCEPT !.size = @ + 1]]
      /\ store' = [store EXCEPT ![name] = <<>>]
      /\ UNCHANGED <<bmap, imap, data, slots, freed, cut>>
  BY DEF CreateDone, write_inode
<1>2. \/ pc' = "idle"
      \/ want # None /\ pc' = "w_walk" /\ UNCHANGED <<name, ino, inode, want, k>>
  BY DEF CreateDone, Return
<1>3. /\ ino \in FileInodes /\ name \in Names /\ want \in Contents \cup {None}
  BY <1>1 DEF LocalsOK, Creating
<1>4. Dir \in 1 .. NInodes /\ itab[Dir] \in InodeType
  BY Constants DEF Dir, DiskOK
<1>5. /\ itab' \in [1 .. NInodes -> InodeType] /\ itab'[Dir].size = size + 1
      /\ \A i \in 1 .. NInodes : i # Dir => itab'[i] = itab[i]
  <2>1. PICK e : e = [itab[Dir] EXCEPT !.size = @ + 1]
    OBVIOUS
  <2>2. e \in InodeType /\ e.size = size + 1
    BY <1>4, <2>1 DEF InodeType, size
  <2>. QED BY <1>1, <1>4, <2>1, <2>2 DEF DiskOK
<1>6. /\ Len(slots) = end /\ slots[end] = [ino |-> ino, name |-> name, span |-> 1]
      /\ name \notin Listed
  BY <1>1 DEF Knows, Creating
<1>7. slots[end].ino = ino /\ slots[end].name = name /\ slots[end].span = 1
  BY <1>6
<1>8. size' = size + 1 /\ size \in Nat \ {0}
  BY <1>5, DirTypes DEF size
<1>9. \A i \in FileInodes : itab'[i] = itab[i]
  BY <1>5, TableTypes
<1>10. DiskOK'
  <2>1. size' \in 1 .. Len(slots')
    BY <1>1, <1>6, <1>8
  <2>2. \A i \in FileInodes : itab'[i].size <= Direct
    BY <1>9 DEF DiskOK
  <2>. QED BY <1>1, <1>5, <2>1, <2>2 DEF DiskOK
<1>11. /\ store' \in [Names -> Contents \cup {None, Torn, <<>>}] /\ store'[name] = <<>>
       /\ \A m \in Names : m # name => store'[m] = store[m]
  BY <1>1, <1>3, StoreFacts
<1>12. LocalsOK'
  BY <1>1, <1>2, <1>3, <1>11 DEF LocalsOK, Creating, Deleting
<1>. HIDE DEF end
<1>13. /\ Reached \subseteq Reached' /\ Reached' \subseteq Reached \cup {end}
       /\ read_dir_inode \subseteq read_dir_inode'
       /\ read_dir_inode' = {x \in Reached' : x = end \/ x \in read_dir_inode}
       /\ end \in Reached' <=> \E y \in read_dir_inode : y + slots[y].span = end
       /\ end \notin Reached' => read_dir_inode # Reached
  <2>1. slots[size + 1].ino # 0
    BY <1>3, <1>7, Constants DEF FileInodes, end
  <2>. QED BY <1>1, <1>8, <2>1, GrowFacts DEF end
<1>14. /\ Reached \subseteq 1 .. size /\ read_dir_inode \subseteq Reached /\ end \notin Reached
  BY <1>8, DirTypes DEF end
<1>15. \A x \in read_dir_inode : slots[x].name # name
  BY <1>3, <1>6 DEF Listed
<1>16. Linked'
  <2>1. ASSUME NEW x \in read_dir_inode'
        PROVE  x + slots'[x].span \in Reached' \cup {size' + 1}
    <3>1. CASE x = end
      BY <1>1, <1>7, <1>8, <3>1 DEF end
    <3>2. CASE x \in read_dir_inode
      <4>1. x + slots[x].span \in Reached \cup {end}
        BY <3>2 DEF Linked, end
      <4>. QED BY <1>1, <1>13, <3>2, <4>1
    <3>. QED BY <1>13, <3>1, <3>2
  <2>2. ASSUME NEW x \in read_dir_inode', NEW y \in read_dir_inode', slots'[x].name = slots'[y].name
        PROVE  x = y
    <3>1. (x = end \/ x \in read_dir_inode) /\ (y = end \/ y \in read_dir_inode)
      BY <1>13
    <3>. QED BY <1>1, <1>7, <1>15, <2>2, <3>1 DEF Linked
  <2>. QED BY <2>1, <2>2 DEF Linked
<1>17. Knows'
  BY <1>2 DEF Knows, Creating
<1>18. Owned'
  <2>1. \A i \in FileInodes : Loaded(i)' = Loaded(i)
    BY <1>1, <1>2, <1>9 DEF Loaded
  <2>. QED BY <1>1, <1>2, <2>1, OwnedShrinks
<1>19. Marked'
  <2>1. SUFFICES ASSUME ~cut
                 PROVE  /\ \A x \in read_dir_inode' : slots[x].ino - 1 \in imap
                        /\ \A x, y \in read_dir_inode' : slots[x].ino = slots[y].ino => x = y
    BY <1>1, <1>2 DEF Marked, Creating
  <2>2. /\ \A x \in read_dir_inode : slots[x].ino - 1 \in imap /\ slots[x].ino # ino
        /\ \A x, y \in read_dir_inode : slots[x].ino = slots[y].ino => x = y
        /\ ino - 1 \in imap
    BY <1>1, <2>1 DEF Marked, Creating
  <2>. QED BY <1>7, <1>13, <2>2
<1>20. HoldsStored'
  BY <1>1, <1>2, <1>11 DEF HoldsStored
<1>21. ReadBack'
  <2>0. read_dir_inode' \in SUBSET Nat
    <3>1. end \in Nat /\ Reached \subseteq Nat
      BY <1>8, <1>14 DEF end
    <3>. QED BY <1>13, <3>1
  <2>1. SUFFICES ASSUME ~freed, ~cut, NEW n \in Names
                 PROVE  /\ store'[n] \in Contents =>
                              IF n \in Listed' THEN read_file_inode(walk(n))' = store'[n]
                              ELSE read_dir_inode' # Reached'
                        /\ store'[n] = None => n \notin Listed'
    BY <1>1 DEF ReadBack
  <2>2. CASE n = name
    <3>1. store'[n] = <<>> /\ <<>> # None
      BY <1>11, <2>2, Constants
    <3>2. ASSUME n \in Listed'  PROVE read_file_inode(walk(n))' = <<>>
      <4>1. PICK x \in read_dir_inode' : slots'[x].name = n
        BY <3>2 DEF Listed
      <4>2. x = end
        BY <1>1, <1>13, <1>15, <2>2, <4>1
      <4>3. walk(n)' = ino
        BY <1>1, <1>7, <1>16, <2>0, <4>1, <4>2, WalkNext
      <4>4. itab'[ino] = EmptyInode
        BY <1>1, <1>3, <1>9, <2>1 DEF HoldsStored
      <4>5. read_file_inode(walk(n))' = [y \in 1 .. 0 |-> data'[itab'[ino].block[y - 1]]]
        BY <4>3, <4>4, EmptyInodeType DEF read_file_inode
      <4>. QED BY <4>5
    <3>3. ASSUME n \notin Listed'  PROVE read_dir_inode' # Reached'
      <4>1. end \notin read_dir_inode'
        BY <1>1, <1>3, <1>7, <2>2, <3>3 DEF Listed
      <4>2. end \notin Reached'
        BY <1>13, <4>1
      <4>3. PICK z \in Reached : z \notin read_dir_inode
        BY <1>13, <1>14, <4>2
      <4>. QED BY <1>13, <1>14, <4>3
    <3>. QED BY <3>1, <3>2, <3>3
  <2>3. CASE n # name
    <3>1. store'[n] = store[n]
      BY <1>11, <2>3
    <3>2. (n \in Listed' <=> n \in Listed) /\ (n \in Listed => walk(n)' = walk(n))
      <4>1. \A x \in read_dir_inode' : slots'[x].name = n => x \in read_dir_inode
        BY <1>1, <1>7, <1>13, <2>3
      <4>. QED BY <1>1, <1>13, <1>16, <2>0, <4>1, EntryKept
    <3>3. /\ store[n] \in Contents =>
                IF n \in Listed THEN read_file_inode(walk(n)) = store[n]
                ELSE read_dir_inode # Reached
          /\ store[n] = None => n \notin Listed
      BY <2>1 DEF ReadBack
    <3>4. ASSUME n \in Listed  PROVE read_file_inode(walk(n))' = read_file_inode(walk(n))
      <4>1. walk(n) \in FileInodes
        BY <3>4, WalkFinds, WalkIs
      <4>2. KeepsFile(walk(n))
        BY <1>1, <1>9, <4>1 DEF KeepsFile
      <4>3. read_file_inode(walk(n))' =
                [x \in 1 .. itab'[walk(n)].size |-> data'[itab'[walk(n)].block[x - 1]]]
        BY <3>2, <3>4 DEF read_file_inode
      <4>. QED BY <4>1, <4>2, <4>3, ReadSame
    <3>5. read_dir_inode # Reached => read_dir_inode' # Reached'
      <4>1. ASSUME NEW z \in Reached, z \notin read_dir_inode
            PROVE  z \in Reached' /\ z \notin read_dir_inode'
        BY <1>13, <1>14, <4>1
      <4>. QED BY <1>14, <4>1
    <3>. QED BY <3>1, <3>2, <3>3, <3>4, <3>5
  <2>. QED BY <2>2, <2>3
<1>. QED BY <1>10, <1>12, <1>16, <1>17, <1>18, <1>19, <1>20, <1>21

\* While write_file_data runs, the name, the inode and the data are known.
LEMMA WritingFacts ==
    ASSUME Ext3Inv, pc = "w_alloc"
    PROVE  /\ name \in Names /\ name \in Listed /\ walk(name) = ino /\ ino \in FileInodes
           /\ inode \in InodeType /\ want \in Contents /\ k \in 0 .. Len(want)
           /\ Len(want) \in Nat
BY ContentsFacts DEF Ext3Inv, LocalsOK, Knows

\* A step of write_file_data before the inode is written keeps the directory.
LEMMA WritingFrame ==
    ASSUME Ext3Inv, pc = "w_alloc", inode' \in InodeType, k' \in 0 .. Len(want),
           UNCHANGED <<imap, itab, slots, pc, name, ino, want, store, cut>>,
           DOMAIN data' = DOMAIN data, freed' \in BOOLEAN
    PROVE  DiskOK' /\ LocalsOK' /\ SameDir /\ Linked' /\ Knows' /\ Marked'
<1>. USE DEF Ext3Inv
<1>1. DiskOK' /\ SameDir
  BY DEF DiskOK, size, SameDir
<1>2. LocalsOK'
  BY DEF LocalsOK, Creating, Deleting
<1>3. Linked' /\ Marked'
  BY <1>1, LinkedFrame, MarkedFrame DEF Creating
<1>4. Knows'
  <2>1. Listed' = Listed /\ walk(name)' = walk(name)
    <3>1. /\ Listed' = Listed /\ \A n \in Listed : walk(n)' = walk(n)
      BY <1>1, SameDirFacts
    <3>2. name \in Listed /\ name' = name
      BY DEF Knows
    <3>3. walk(name)' = walk(name)
      BY DEF walk, Position, read_dir_inode, Reached, size
    <3>. QED BY <3>1, <3>3
  <2>. QED BY <2>1 DEF Knows, Creating
<1>. QED BY <1>1, <1>2, <1>3, <1>4

\* A missing block is taken from the bitmap: it had no owner and holds no
\* metadata.
LEMMA WriteAllocStep ==
    ASSUME Ext3Inv, WriteAlloc
    PROVE  Ext3Inv'
<1>. USE DEF Ext3Inv
<1>. DEFINE bit == bitmap_alloc(bmap, NBits)
            m == Min(Missing)
<1>1. /\ pc = "w_alloc" /\ Missing # {}
      /\ UNCHANGED <<imap, itab, data, slots, store, freed, cut>>
  BY DEF WriteAlloc, history
<1>2. CASE Return
  <2>1. bmap \subseteq bmap'
    BY DEF WriteAlloc
  <2>2. cut' = (cut \/ pc = "d_entry")
    BY <1>1 DEF LocalsOK
  <2>. QED BY <1>1, <1>2, <2>1, <2>2, ReturnStep DEF LocalsOK
<1>3. CASE ~Return
  <2>1. /\ FreeBits(bmap, NBits) # {} /\ bmap' = bmap \cup {bit} /\ m \in Index
        /\ inode' = [inode EXCEPT !.block[m] = alloc_block]
        /\ UNCHANGED <<pc, name, ino, want, k>>
    BY <1>3 DEF WriteAlloc
  <2>2. bit \in 0 .. NBits - 1 /\ bit \notin bmap /\ alloc_block = bit + 1
    BY <2>1, FreeBitFacts, Constants DEF alloc_block
  <2>3. /\ inode \in InodeType /\ want \in Contents /\ Len(want) \in Nat /\ k \in 0 .. Len(want)
        /\ ino \in FileInodes
    BY <1>1, WritingFacts
  <2>4. m \in Missing
    <3>1. Missing \in SUBSET Nat
      BY <2>3 DEF Missing
    <3>. QED BY <1>1, <3>1, MinFacts
  <2>5. inode.block[m] = 0
    BY <2>1, <2>4 DEF Missing
  <2>. HIDE DEF bit, m
  <2>6. /\ inode' \in InodeType /\ inode'.block[m] = bit + 1
        /\ \A x \in Index : x # m => inode'.block[x] = inode.block[x]
    <3>1. bit + 1 \in 0 .. NBits
      BY <2>2, Constants
    <3>. QED BY <2>1, <2>2, <2>3, <3>1 DEF InodeType
  <2>7. DiskOK' /\ LocalsOK' /\ SameDir /\ Linked' /\ Knows' /\ Marked'
    BY <1>1, <2>1, <2>3, <2>6, WritingFrame DEF LocalsOK
  <2>8. Owned'
    <3>1. SUFFICES ASSUME ~freed  PROVE Owned'
      BY <1>1 DEF Owned
    <3>2. /\ 0 .. Meta - 1 \subseteq bmap
          /\ \A i \in FileInodes, x \in Index :
                Loaded(i).block[x] # 0 => Loaded(i).block[x] > Meta /\ Loaded(i).block[x] - 1 \in bmap
          /\ \A i, j \in FileInodes, x, y \in Index :
                Loaded(i).block[x] # 0 /\ Loaded(i).block[x] = Loaded(j).block[y] => i = j /\ x = y
          /\ \A x \in Index : itab[ino].block[x] # 0 => inode.block[x] = itab[ino].block[x]
      BY <1>1, <3>1 DEF Owned
    <3>3. ASSUME NEW i \in FileInodes, NEW x \in Index
          PROVE  IF i = ino /\ x = m THEN Loaded(i)'.block[x] = bit + 1
                 ELSE Loaded(i)'.block[x] = Loaded(i).block[x]
      BY <1>1, <2>1, <2>6 DEF Loaded
    <3>4. bit + 1 > Meta /\ bit + 1 - 1 = bit /\ bit + 1 # 0
      BY <2>2, <3>2, Constants
    <3>5. ASSUME NEW i \in FileInodes, NEW x \in Index, Loaded(i)'.block[x] # 0
          PROVE  Loaded(i)'.block[x] > Meta /\ Loaded(i)'.block[x] - 1 \in bmap'
      <4>1. CASE i = ino /\ x = m
        <5>1. Loaded(i)'.block[x] = bit + 1
          BY <3>3, <4>1
        <5>2. bit \in bmap'
          BY <2>1
        <5>3. Loaded(i)'.block[x] - 1 = bit /\ bit + 1 > Meta
          BY <2>2, <3>4, <5>1, Constants
        <5>. QED BY <5>1, <5>2, <5>3
      <4>2. CASE ~(i = ino /\ x = m)
        <5>1. Loaded(i)'.block[x] = Loaded(i).block[x]
          BY <3>3, <4>2
        <5>2. Loaded(i).block[x] > Meta /\ Loaded(i).block[x] - 1 \in bmap
          BY <3>2, <3>5, <5>1
        <5>. QED BY <2>1, <5>1, <5>2
      <4>. QED BY <4>1, <4>2
    <3>6. ASSUME NEW i \in FileInodes, NEW x \in Index
          PROVE  Loaded(i).block[x] # bit + 1
      BY <2>2, <3>2, <3>4
    <3>7. ASSUME NEW i \in FileInodes, NEW j \in FileInodes, NEW x \in Index, NEW y \in Index,
                 Loaded(i)'.block[x] # 0, Loaded(i)'.block[x] = Loaded(j)'.block[y]
          PROVE  i = j /\ x = y
      <4>1. CASE i = ino /\ x = m
        BY <3>3, <3>6, <3>7, <4>1
      <4>2. CASE ~(i = ino /\ x = m)
        <5>1. Loaded(i)'.block[x] = Loaded(i).block[x]
          BY <3>3, <4>2
        <5>2. Loaded(j)'.block[y] = Loaded(j).block[y]
          BY <3>3, <3>6, <3>7, <5>1
        <5>3. Loaded(i).block[x] # 0 /\ Loaded(i).block[x] = Loaded(j).block[y]
          BY <3>7, <5>1, <5>2
        <5>. QED BY <3>2, <5>3
      <4>. QED BY <4>1, <4>2
    <3>8. ASSUME NEW x \in Index, itab'[ino'].block[x] # 0
          PROVE  inode'.block[x] = itab'[ino'].block[x]
      <4>1. inode.block[x] = itab[ino].block[x] /\ inode.block[x] # 0
        BY <1>1, <2>1, <3>2, <3>8
      <4>. QED BY <1>1, <2>1, <2>5, <2>6, <4>1
    <3>9. 0 .. Meta - 1 \subseteq bmap'
      BY <2>1, <3>2
    <3>. QED BY <3>5, <3>7, <3>8, <3>9 DEF Owned
  <2>9. HoldsStored'
    <3>1. ~freed /\ ~cut => k = 0 /\ store[name] = Torn
      BY <1>1, <2>3 DEF HoldsStored
    <3>2. ~freed /\ ~cut => ~(k' > 0) /\ 0 .. k' - 1 = {}
      BY <2>1, <3>1
    <3>. QED BY <1>1, <2>1, <3>1, <3>2 DEF HoldsStored
  <2>10. ReadBack'
    <3>1. \A i : KeepsFile(i)
      BY <1>1 DEF KeepsFile
    <3>. QED BY <1>1, <2>7, <3>1, ReadBackFrame
  <2>. QED BY <2>7, <2>8, <2>9, <2>10
<1>. QED BY <1>2, <1>3

\* Two files that are listed have two inodes.
LEMMA OtherInode ==
    ASSUME DiskOK, Linked, Marked, ~cut, NEW n \in Listed, NEW m \in Listed, n # m
    PROVE  walk(n) # walk(m)
<1>1. PICK x \in read_dir_inode : slots[x].name = n /\ walk(n) = slots[x].ino
  BY WalkFinds
<1>2. PICK y \in read_dir_inode : slots[y].name = m /\ walk(m) = slots[y].ino
  BY WalkFinds
<1>. QED BY <1>1, <1>2 DEF Marked

\* A block is written: the file's own, and none written before.
LEMMA WriteDataStep ==
    ASSUME Ext3Inv, WriteData
    PROVE  Ext3Inv'
<1>. USE DEF Ext3Inv
<1>. DEFINE b == inode.block[k]
<1>1. /\ pc = "w_alloc" /\ Missing = {} /\ k < Len(want)
      /\ data' = [data EXCEPT ![b] = want[k + 1]] /\ k' = k + 1
      /\ UNCHANGED <<bmap, imap, itab, slots, pc, name, ino, inode, want, store, freed, cut>>
  BY DEF WriteData, history
<1>2. /\ inode \in InodeType /\ want \in Contents /\ Len(want) \in Nat /\ k \in 0 .. Len(want)
      /\ ino \in FileInodes /\ name \in Names /\ name \in Listed /\ walk(name) = ino
  BY <1>1, WritingFacts
<1>3. \A x \in 0 .. Len(want) - 1 : x \in Index /\ inode.block[x] # 0
  BY <1>1 DEF Missing
<1>4. k \in 0 .. Len(want) - 1 /\ k' \in 0 .. Len(want)
  BY <1>1, <1>2
<1>5. k \in Index /\ b # 0 /\ b \in 0 .. NBits
  BY <1>2, <1>3, <1>4 DEF InodeType
<1>6. /\ DOMAIN data' = DOMAIN data /\ data'[b] = want[k + 1]
      /\ \A c \in 0 .. NBits : c # b => data'[c] = data[c]
  BY <1>1, <1>5 DEF DiskOK
<1>7. DiskOK' /\ LocalsOK' /\ SameDir /\ Linked' /\ Knows' /\ Marked'
  BY <1>1, <1>2, <1>4, <1>6, WritingFrame DEF LocalsOK
<1>8. Owned'
  <2>1. \A i \in FileInodes : Loaded(i)' = Loaded(i)
    BY <1>1 DEF Loaded
  <2>2. ~freed => \A x \in Index : itab[ino].block[x] # 0 => inode.block[x] = itab[ino].block[x]
    BY <1>1 DEF Owned
  <2>3. CASE freed = TRUE
    BY <1>1, <2>3 DEF Owned
  <2>4. CASE freed = FALSE
    BY <1>1, <2>1, <2>2, <2>4, OwnedShrinks
  <2>. QED BY <2>3, <2>4 DEF LocalsOK
<1>9. ASSUME ~freed, NEW i \in FileInodes, NEW x \in Index, Loaded(i).block[x] = b
      PROVE  i = ino /\ x = k
  <2>1. Loaded(ino).block[k] = b
    BY <1>1 DEF Loaded
  <2>. QED BY <1>2, <1>5, <1>9, <2>1 DEF Owned
<1>. HIDE DEF b
<1>10. HoldsStored'
  <2>1. SUFFICES ASSUME ~freed, ~cut
                 PROVE  /\ Missing' = {} /\ store[name] = Torn
                        /\ \A x \in 0 .. k' - 1 : data'[inode.block[x]] = want[x + 1]
    BY <1>1 DEF HoldsStored
  <2>2. Missing' = {}
    BY <1>1 DEF Missing
  <2>3. store[name] = Torn /\ \A x \in 0 .. k - 1 : data[inode.block[x]] = want[x + 1]
    BY <1>1, <2>1 DEF HoldsStored
  <2>4. ASSUME NEW x \in 0 .. k' - 1  PROVE data'[inode.block[x]] = want[x + 1]
    <3>1. CASE x = k
      BY <1>6, <3>1 DEF b
    <3>2. CASE x # k
      <4>1. x \in 0 .. k - 1 /\ x \in 0 .. Len(want) - 1
        BY <1>1, <1>2, <1>4, <3>2
      <4>2. x \in Index /\ inode.block[x] \in 0 .. NBits
        BY <1>2, <1>3, <4>1 DEF InodeType
      <4>3. inode.block[x] # b
        BY <1>1, <1>2, <1>9, <2>1, <3>2, <4>2 DEF Loaded
      <4>. QED BY <1>6, <2>3, <4>1, <4>2, <4>3
    <3>. QED BY <3>1, <3>2
  <2>. QED BY <2>2, <2>3, <2>4
<1>11. ReadBack'
  <2>1. ASSUME ~freed, ~cut, NEW n \in Listed, store'[n] \in Contents  PROVE KeepsFile(walk(n))
    <3>1. n # name
      BY <1>1, <2>1, Constants DEF HoldsStored
    <3>2. walk(n) # ino
      BY <1>2, <2>1, <3>1, OtherInode
    <3>3. walk(n) \in FileInodes
      BY WalkFinds, WalkIs
    <3>4. ASSUME NEW x \in Index
          PROVE  data'[itab[walk(n)].block[x]] = data[itab[walk(n)].block[x]]
      <4>1. itab[walk(n)].block[x] \in 0 .. NBits
        BY <3>3, TableTypes DEF InodeType
      <4>2. Loaded(walk(n)) = itab[walk(n)]
        BY <3>2 DEF Loaded
      <4>3. itab[walk(n)].block[x] # b
        BY <1>9, <2>1, <3>2, <3>3, <4>2
      <4>. QED BY <1>6, <4>1, <4>3
    <3>. QED BY <1>1, <3>4 DEF KeepsFile
  <2>. QED BY <1>1, <1>7, <2>1, ReadBackFrame
<1>. QED BY <1>7, <1>8, <1>10, <1>11

\* A block behind the new end is freed; from here on the bitmap is not trusted.
LEMMA WriteFreeStep ==
    ASSUME Ext3Inv, WriteFree
    PROVE  Ext3Inv'
<1>. USE DEF Ext3Inv
<1>. DEFINE m == Min(Excess)
<1>1. /\ pc = "w_alloc" /\ Excess # {} /\ freed' = TRUE
      /\ inode' = [inode EXCEPT !.block[m] = 0]
      /\ UNCHANGED <<imap, itab, data, slots, pc, name, ino, want, k, store, cut>>
  BY DEF WriteFree, Written, free_block
<1>2. inode \in InodeType /\ Len(want) \in Nat /\ k \in 0 .. Len(want)
  BY <1>1, WritingFacts
<1>3. m \in Index
  <2>1. Excess \in SUBSET Nat /\ Excess \subseteq Index
    BY <1>2, Constants DEF Excess, Index
  <2>. QED BY <1>1, <2>1, MinFacts
<1>. HIDE DEF m
<1>4. inode' \in InodeType
  <2>1. 0 \in 0 .. NBits
    BY Constants
  <2>. QED BY <1>1, <1>2, <1>3, <2>1 DEF InodeType
<1>5. DiskOK' /\ LocalsOK' /\ SameDir /\ Linked' /\ Knows' /\ Marked'
  BY <1>1, <1>2, <1>4, WritingFrame
<1>. QED BY <1>1, <1>5 DEF Owned, HoldsStored, ReadBack

\* The inode is written: the file holds what it was given.
LEMMA WriteInodeStep ==
    ASSUME Ext3Inv, WriteInode
    PROVE  Ext3Inv'
<1>. USE DEF Ext3Inv
<1>1. /\ pc = "w_alloc" /\ Missing = {} /\ k = Len(want)
      /\ itab' = [itab EXCEPT ![ino] = [inode EXCEPT !.size = Len(want)]]
      /\ store' = [store EXCEPT ![name] = want]
      /\ pc' = "idle" /\ UNCHANGED <<bmap, imap, data, slots, freed, cut>>
  BY DEF WriteInode, Written, write_inode, Return
<1>2. /\ inode \in InodeType /\ want \in Contents /\ Len(want) \in Nat
      /\ ino \in FileInodes /\ name \in Names /\ name \in Listed /\ walk(name) = ino
  BY <1>1, WritingFacts
<1>3. \A x \in 0 .. Len(want) - 1 : x \in Index
  BY <1>1 DEF Missing
<1>4. Len(want) <= Direct
  BY <1>2, <1>3, Constants DEF Index
<1>5. PICK e : e = [inode EXCEPT !.size = Len(want)]
  OBVIOUS
<1>6. e \in InodeType /\ e.size = Len(want) /\ e.block = inode.block
  BY <1>2, <1>5 DEF InodeType
<1>7. /\ itab' \in [1 .. NInodes -> InodeType] /\ itab'[ino] = e
      /\ \A i \in 1 .. NInodes : i # ino => itab'[i] = itab[i]
  BY <1>1, <1>2, <1>5, <1>6, TableTypes DEF DiskOK
<1>8. size' = size
  BY <1>2, <1>7, TableTypes, Constants DEF size, Dir
<1>9. DiskOK'
  <2>1. \A i \in FileInodes : itab'[i].size <= Direct
    BY <1>4, <1>6, <1>7, TableTypes DEF DiskOK
  <2>. QED BY <1>1, <1>7, <1>8, <2>1 DEF DiskOK
<1>10. /\ store' \in [Names -> Contents \cup {None, Torn, <<>>}] /\ store'[name] = want
       /\ \A m \in Names : m # name => store'[m] = store[m]
  BY <1>1, <1>2, StoreFacts
<1>11. LocalsOK'
  BY <1>1, <1>10 DEF LocalsOK, Creating, Deleting
<1>12. SameDir
  BY <1>1, <1>8 DEF SameDir
<1>13. Linked' /\ Knows' /\ Marked' /\ HoldsStored'
  <2>1. pc # "d_entry" /\ ~Creating'
    BY <1>1 DEF Creating
  <2>. QED BY <1>1, <1>9, <1>12, <2>1, LinkedFrame, MarkedFrame DEF Knows, Creating, HoldsStored
<1>14. Owned'
  <2>1. ASSUME NEW i \in FileInodes  PROVE Loaded(i)'.block = Loaded(i).block
    <3>1. CASE i = ino
      BY <1>1, <1>6, <1>7, <3>1 DEF Loaded
    <3>2. CASE i # ino
      BY <1>1, <1>7, <3>2, TableTypes DEF Loaded
    <3>. QED BY <3>1, <3>2
  <2>. QED BY <1>1, <2>1, OwnedShrinks
<1>15. ReadBack'
  <2>1. /\ Reached' = Reached /\ read_dir_inode' = read_dir_inode /\ Listed' = Listed
        /\ \A n \in Listed : walk(n)' = walk(n)
    BY <1>9, <1>12, SameDirFacts
  <2>2. SUFFICES ASSUME ~freed, ~cut, NEW n \in Names
                 PROVE  /\ store'[n] \in Contents =>
                              IF n \in Listed THEN read_file_inode(walk(n))' = store'[n]
                              ELSE read_dir_inode # Reached
                        /\ store'[n] = None => n \notin Listed
    BY <1>1, <2>1 DEF ReadBack
  <2>3. n \in Listed => read_file_inode(walk(n))' =
            [x \in 1 .. itab'[walk(n)].size |-> data'[itab'[walk(n)].block[x - 1]]]
    BY <2>1 DEF read_file_inode
  <2>4. CASE n = name
    <3>1. store'[n] = want /\ want # None
      BY <1>2, <1>10, <2>4, Constants
    <3>2. \A x \in 0 .. Len(want) - 1 : data[inode.block[x]] = want[x + 1]
      BY <1>1, <2>2 DEF HoldsStored
    <3>3. \A x \in 1 .. Len(want) : data[inode.block[x - 1]] = want[x]
      <4>1. ASSUME NEW x \in 1 .. Len(want)
            PROVE  x - 1 \in 0 .. Len(want) - 1 /\ x - 1 + 1 = x
        BY <1>2
      <4>. QED BY <3>2, <4>1
    <3>4. read_file_inode(walk(n))' = [x \in 1 .. Len(want) |-> data[inode.block[x - 1]]]
      BY <1>1, <1>2, <1>6, <1>7, <2>3, <2>4
    <3>5. [x \in 1 .. Len(want) |-> data[inode.block[x - 1]]] = want
      BY <1>2, <3>3, ContentsFacts
    <3>. QED BY <1>2, <2>4, <3>1, <3>4, <3>5
  <2>5. CASE n # name
    <3>1. store'[n] = store[n]
      BY <1>10, <2>5
    <3>2. /\ store[n] \in Contents =>
                IF n \in Listed THEN read_file_inode(walk(n)) = store[n]
                ELSE read_dir_inode # Reached
          /\ store[n] = None => n \notin Listed
      BY <2>2 DEF ReadBack
    <3>3. ASSUME n \in Listed  PROVE read_file_inode(walk(n))' = read_file_inode(walk(n))
      <4>1. walk(n) # ino /\ walk(n) \in FileInodes
        BY <1>2, <2>2, <2>5, <3>3, OtherInode, WalkFinds, WalkIs
      <4>2. KeepsFile(walk(n))
        BY <1>1, <1>7, <4>1, TableTypes DEF KeepsFile
      <4>. QED BY <2>3, <3>3, <4>1, <4>2, ReadSame
    <3>. QED BY <3>1, <3>2, <3>3
  <2>. QED BY <2>4, <2>5
<1>. QED BY <1>9, <1>11, <1>13, <1>14, <1>15

\* delete_file frees a block.
LEMMA DeleteFreeStep ==
    ASSUME Ext3Inv, DeleteFree
    PROVE  Ext3Inv'
<1>. USE DEF Ext3Inv
<1>1. /\ pc = "d_free" /\ ToFree # {} /\ freed' = TRUE /\ k' = Min(ToFree) + 1
      /\ UNCHANGED <<imap, itab, data, slots, pc, name, ino, inode, want, store, cut>>
  BY DEF DeleteFree, free_block
<1>2. k' \in Nat
  <2>1. ToFree \in SUBSET Nat
    BY Constants DEF ToFree, Index
  <2>2. Min(ToFree) \in Nat
    BY <1>1, <2>1, MinFacts
  <2>. QED BY <1>1, <2>2
<1>3. DiskOK' /\ SameDir
  BY <1>1 DEF DiskOK, size, SameDir
<1>4. LocalsOK'
  BY <1>1, <1>2 DEF LocalsOK, Creating, Deleting
<1>5. Linked' /\ Marked'
  <2>1. pc # "d_entry" /\ ~Creating'
    BY <1>1 DEF Creating
  <2>. QED BY <1>1, <1>3, <2>1, LinkedFrame, MarkedFrame
<1>6. Knows'
  <2>1. Listed' = Listed /\ walk(name)' = walk(name)
    BY <1>1 DEF Listed, walk, Position, read_dir_inode, Reached, size
  <2>. QED BY <1>1, <2>1 DEF Knows, Creating
<1>. QED BY <1>1, <1>3, <1>4, <1>5, <1>6 DEF Owned, HoldsStored, ReadBack

\* delete_file frees the inode while its entry is still there.
LEMMA DeleteInodeStep ==
    ASSUME Ext3Inv, DeleteInode
    PROVE  Ext3Inv'
<1>. USE DEF Ext3Inv
<1>1. /\ pc = "d_free" /\ pc' = "d_entry" /\ imap' = imap \ {ino - 1}
      /\ UNCHANGED <<bmap, itab, data, slots, name, ino, inode, want, k, store, freed, cut>>
  BY DEF DeleteInode, At, free_inode, bitmap_clear, history
<1>2. ino \in FileInodes
  BY <1>1 DEF LocalsOK, Deleting
<1>3. Dir - 1 \in imap'
  BY <1>1, <1>2, Constants DEF DiskOK, Dir, FileInodes
<1>4. DiskOK' /\ SameDir
  BY <1>1, <1>3 DEF DiskOK, size, SameDir
<1>5. LocalsOK'
  BY <1>1 DEF LocalsOK, Creating, Deleting
<1>6. Linked' /\ Knows'
  <2>1. Listed' = Listed /\ walk(name)' = walk(name)
    BY <1>1 DEF Listed, walk, Position, read_dir_inode, Reached, size
  <2>. QED BY <1>1, <1>4, <2>1, LinkedFrame DEF Knows, Creating
<1>7. Owned'
  <2>1. \A i \in FileInodes : Loaded(i)' = Loaded(i)
    BY <1>1 DEF Loaded
  <2>. QED BY <1>1, <2>1, OwnedShrinks
<1>8. Marked'
  <2>1. read_dir_inode' = read_dir_inode
    BY <1>4, SameDirFacts
  <2>2. ASSUME ~cut, NEW x \in read_dir_inode, slots[x].ino # ino
        PROVE  slots[x].ino - 1 \in imap'
    <3>1. slots[x].ino - 1 \in imap
      BY <1>1, <2>2 DEF Marked
    <3>2. slots[x].ino \in Nat
      BY DirTypes, Constants DEF Slot
    <3>3. slots[x].ino - 1 # ino - 1
      BY <1>2, <2>2, <3>2, Constants DEF FileInodes
    <3>. QED BY <1>1, <3>1, <3>3
  <2>. QED BY <1>1, <2>1, <2>2 DEF Marked, Creating
<1>9. HoldsStored'
  BY <1>1 DEF HoldsStored
<1>10. ReadBack'
  <2>1. \A i : KeepsFile(i)
    BY <1>1 DEF KeepsFile
  <2>. QED BY <1>1, <1>4, <2>1, ReadBackFrame
<1>. QED BY <1>4, <1>5, <1>6, <1>7, <1>8, <1>9, <1>10

\* dir_remove_entry takes the entry off the walk and leaves the others on it.
LEMMA RemoveFacts ==
    ASSUME DiskOK, Linked, name \in Listed, dir_remove_entry, NEW at, at = Position(name)
    PROVE  /\ slots' \in Seq(Slot) /\ Len(slots') = size /\ size' = size
           /\ \A x \in 1 .. size : slots'[x].name = slots[x].name
           /\ \A x \in 1 .. size : slots'[x].ino = IF x = at THEN 0 ELSE slots[x].ino
           /\ at \in read_dir_inode /\ slots[at].name = name /\ slots[at].ino = walk(name)
           /\ at # 1 /\ Removed(slots, slots', size, at)
<1>1. /\ size \in Nat \ {0} /\ \A x \in 1 .. size : slots[x] \in Slot
      /\ Reached \subseteq 1 .. size /\ read_dir_inode \subseteq Reached
  BY DirTypes
<1>2. at \in read_dir_inode /\ slots[at].name = name /\ slots[at].ino = walk(name) /\ name \in Names
  BY WalkFinds
<1>3. at \in 1 .. size /\ at # 1
  BY <1>1, <1>2, Constants DEF DiskOK
<1>. DEFINE merged(x) == x # at /\ ~(at + slots[at].span > size) /\ x \in Reached
                           /\ x + slots[x].span = at
<1>4. slots' = [x \in 1 .. size |->
               CASE x = at -> [slots[x] EXCEPT !.ino = 0]
                 [] ~(at + slots[at].span > size) /\ x \in Reached /\ x + slots[x].span = at ->
                        [slots[x] EXCEPT !.span = @ + slots[at].span]
                 [] OTHER -> slots[x]]
  BY DEF dir_remove_entry
<1>5. ASSUME NEW x \in 1 .. size
      PROVE  slots'[x] = IF x = at THEN [slots[x] EXCEPT !.ino = 0]
                         ELSE IF merged(x) THEN [slots[x] EXCEPT !.span = @ + slots[at].span]
                         ELSE slots[x]
  <2>1. slots[at].span \in Nat \ {0} /\ slots[x].span \in Nat \ {0}
    BY <1>1, <1>3 DEF Slot
  <2>2. x = at => ~(x + slots[x].span = at)
    BY <1>3, <2>1
  <2>. QED BY <1>4, <2>2
<1>. HIDE DEF merged
<1>6. ASSUME NEW x \in 1 .. size
      PROVE  /\ slots'[x] \in Slot /\ slots'[x].name = slots[x].name
             /\ slots'[x].ino = IF x = at THEN 0 ELSE slots[x].ino
             /\ slots'[x].span = IF x # at /\ merged(x) THEN slots[x].span + slots[at].span
                                 ELSE slots[x].span
  <2>1. slots[x] \in Slot /\ slots[at] \in Slot /\ 0 \in 0 .. NInodes
    BY <1>1, <1>3, Constants
  <2>2. CASE x = at
    BY <1>5, <2>1, <2>2 DEF Slot
  <2>3. CASE x # at /\ merged(x)
    <3>1. slots'[x] = [slots[x] EXCEPT !.span = @ + slots[at].span]
      BY <1>5, <2>3
    <3>. QED BY <2>1, <2>3, <3>1 DEF Slot
  <2>4. CASE x # at /\ ~merged(x)
    BY <1>5, <2>1, <2>4
  <2>. QED BY <2>2, <2>3, <2>4
<1>7. slots' \in Seq(Slot) /\ Len(slots') = size
  <2>1. slots' \in [1 .. size -> Slot]
    BY <1>4, <1>6
  <2>. QED BY <1>1, <2>1
<1>8. size' = size
  BY DEF dir_remove_entry, size
<1>9. Removed(slots, slots', size, at)
  <2>1. ASSUME NEW x \in 1 .. size
        PROVE  slots'[x].span = IF x # at /\ ~(at + slots[at].span > size)
                                     /\ x \in ReachedIn(slots, size) /\ x + slots[x].span = at
                                THEN slots[x].span + slots[at].span ELSE slots[x].span
    BY <1>6 DEF merged, Reached
  <2>. QED BY <1>6, <2>1 DEF Removed
<1>. QED BY <1>2, <1>3, <1>6, <1>7, <1>8, <1>9

\* So does dir_remove_entry, which joins the entry to the one before it.
LEMMA RemoveEntryStep ==
    ASSUME Ext3Inv, dir_remove_entry
    PROVE  Ext3Inv'
<1>. USE DEF Ext3Inv
<1>1. /\ pc = "d_entry" /\ pc' = "d_dir"
      /\ UNCHANGED <<bmap, imap, itab, data, name, ino, inode, want, k, store, freed, cut>>
  BY DEF dir_remove_entry, At, history
<1>2. name \in Listed /\ walk(name) = ino /\ name \in Names
  BY <1>1 DEF Knows, LocalsOK
<1>3. PICK at : at = Position(name)
  OBVIOUS
<1>4. /\ slots' \in Seq(Slot) /\ Len(slots') = size /\ size' = size
      /\ \A x \in 1 .. size : slots'[x].name = slots[x].name
      /\ \A x \in 1 .. size : slots'[x].ino = IF x = at THEN 0 ELSE slots[x].ino
      /\ at \in read_dir_inode /\ slots[at].name = name /\ slots[at].ino = ino
      /\ at # 1 /\ Removed(slots, slots', size, at)
  BY <1>2, <1>3, RemoveFacts
<1>5. /\ size \in Nat \ {0} /\ \A x \in 1 .. size : slots[x] \in Slot
      /\ Reached \subseteq 1 .. size /\ read_dir_inode \subseteq Reached /\ size <= Len(slots)
      /\ \A x \in read_dir_inode : slots[x].ino # 0
  BY DirTypes
<1>6. DiskOK'
  <2>1. size' \in 1 .. Len(slots') /\ 1 \in 1 .. size
    BY <1>4, <1>5
  <2>2. slots'[1].name = None
    BY <1>4, <2>1 DEF DiskOK
  <2>3. ASSUME NEW x \in DOMAIN slots', slots'[x].name \in Names  PROVE slots'[x].ino # Dir
    <3>1. x \in 1 .. size /\ x \in DOMAIN slots
      BY <1>4, <1>5, DirTypes
    <3>. QED BY <1>4, <2>3, <3>1 DEF DiskOK, Dir
  <2>. QED BY <1>1, <1>4, <2>1, <2>2, <2>3 DEF DiskOK
<1>7. LocalsOK'
  BY <1>1 DEF LocalsOK, Creating, Deleting
<1>8. /\ Reached' \subseteq Reached /\ Reached \ {at} \subseteq Reached'
      /\ at + slots[at].span > size => at \in Reached'
  <2>1. Reached' = ReachedIn(slots', size) /\ Reached = ReachedIn(slots, size)
    BY <1>4 DEF Reached
  <2>2. at \in ReachedIn(slots, size) /\ slots[at].ino # 0
    BY <1>4, <1>5, <2>1
  <2>3. \A x \in 1 .. size : slots[x].span \in Nat \ {0}
    BY <1>5 DEF Slot
  <2>. QED BY <1>4, <1>5, <2>1, <2>2, <2>3, ReachedRemoved
<1>9. read_dir_inode' = read_dir_inode \ {at}
  <2>1. \A x \in Reached' : slots'[x].ino = IF x = at THEN 0 ELSE slots[x].ino
    BY <1>4, <1>5, <1>8
  <2>. QED BY <1>8, <2>1 DEF read_dir_inode
<1>10. \A x \in read_dir_inode' : /\ x \in 1 .. size /\ slots'[x].name = slots[x].name
                                  /\ slots'[x].ino = slots[x].ino
  BY <1>4, <1>5, <1>9
<1>11. Linked'
  <2>1. ASSUME NEW x \in read_dir_inode'
        PROVE  x + slots'[x].span \in Reached' \cup {size' + 1}
    <3>1. x \in read_dir_inode /\ x # at /\ x \in 1 .. size /\ x \in Reached
      BY <1>5, <1>9
    <3>2. x + slots[x].span \in Reached \cup {size + 1}
          /\ at + slots[at].span \in Reached \cup {size + 1}
      BY <1>4, <3>1 DEF Linked
    <3>3. /\ slots[x].span \in Nat \ {0} /\ slots[at].span \in Nat \ {0} /\ at \in 1 .. size
      BY <1>4, <1>5, <3>1 DEF Slot
    <3>4. slots'[x].span = IF ~(at + slots[at].span > size) /\ x + slots[x].span = at
                           THEN slots[x].span + slots[at].span ELSE slots[x].span
      BY <1>4, <3>1 DEF Removed, Reached
    <3>5. CASE ~(at + slots[at].span > size) /\ x + slots[x].span = at
      <4>1. x + slots'[x].span = at + slots[at].span
        BY <3>1, <3>3, <3>4, <3>5
      <4>2. at + slots[at].span \in Reached /\ at + slots[at].span # at
        BY <1>5, <3>2, <3>3, <3>5
      <4>. QED BY <1>8, <4>1, <4>2
    <3>6. CASE ~(~(at + slots[at].span > size) /\ x + slots[x].span = at)
      <4>1. slots'[x].span = slots[x].span
        BY <3>4, <3>6
      <4>2. CASE x + slots[x].span = at
        BY <1>8, <3>6, <4>1, <4>2
      <4>3. CASE x + slots[x].span # at
        BY <1>4, <1>8, <3>2, <4>1, <4>3
      <4>. QED BY <4>2, <4>3
    <3>. QED BY <3>5, <3>6
  <2>2. ASSUME NEW x \in read_dir_inode', NEW y \in read_dir_inode', slots'[x].name = slots'[y].name
        PROVE  x = y
    BY <1>9, <1>10, <2>2 DEF Linked
  <2>. QED BY <2>1, <2>2 DEF Linked
<1>12. Knows'
  <2>1. name' \notin Listed'
    <3>1. \A x \in read_dir_inode' : slots'[x].name # name
      BY <1>4, <1>9, <1>10 DEF Linked
    <3>. QED BY <1>1, <3>1 DEF Listed
  <2>. QED BY <1>1, <2>1 DEF Knows, Creating
<1>13. Owned'
  <2>1. \A i \in FileInodes : Loaded(i)' = Loaded(i)
    BY <1>1 DEF Loaded
  <2>. QED BY <1>1, <2>1, OwnedShrinks
<1>14. Marked'
  <2>1. ASSUME ~cut, NEW x \in read_dir_inode'  PROVE slots'[x].ino - 1 \in imap
    BY <1>1, <1>4, <1>9, <1>10, <2>1 DEF Marked
  <2>2. ASSUME ~cut, NEW x \in read_dir_inode', NEW y \in read_dir_inode',
               slots'[x].ino = slots'[y].ino
        PROVE  x = y
    BY <1>9, <1>10, <2>2 DEF Marked
  <2>. QED BY <1>1, <2>1, <2>2 DEF Marked, Creating
<1>15. HoldsStored'
  BY <1>1 DEF HoldsStored
<1>16. ReadBack'
  <2>1. SUFFICES ASSUME ~freed, ~cut, NEW n \in Names
                 PROVE  /\ store[n] \in Contents =>
                              IF n \in Listed' THEN read_file_inode(walk(n))' = store[n]
                              ELSE read_dir_inode' # Reached'
                        /\ store[n] = None => n \notin Listed'
    BY <1>1 DEF ReadBack
  <2>2. CASE n = name
    <3>1. store[n] = Torn
      BY <1>1, <2>1, <2>2 DEF HoldsStored
    <3>. QED BY <3>1, Constants
  <2>3. CASE n # name
    <3>1. (n \in Listed' <=> n \in Listed) /\ (n \in Listed => walk(n)' = walk(n))
      <4>1. read_dir_inode' \in SUBSET Nat
        BY <1>10
      <4>2. \A x \in read_dir_inode : slots[x].name = n => x # at
        BY <1>4, <2>3
      <4>3. \A x \in read_dir_inode : slots[x].name = n =>
                x \in read_dir_inode' /\ slots'[x].name = n /\ slots'[x].ino = slots[x].ino
        BY <1>9, <1>10, <4>2
      <4>4. \A x \in read_dir_inode' : slots'[x].name = n => x \in read_dir_inode /\ slots[x].name = n
        BY <1>9, <1>10
      <4>. QED BY <1>11, <4>1, <4>3, <4>4, EntryKept
    <3>2. /\ store[n] \in Contents =>
                IF n \in Listed THEN read_file_inode(walk(n)) = store[n]
                ELSE read_dir_inode # Reached
          /\ store[n] = None => n \notin Listed
      BY <2>1 DEF ReadBack
    <3>3. ASSUME n \in Listed  PROVE read_file_inode(walk(n))' = read_file_inode(walk(n))
      BY <1>1, <3>1, <3>3 DEF read_file_inode
    <3>4. read_dir_inode # Reached => read_dir_inode' # Reached'
      <4>1. ASSUME NEW z \in Reached, z \notin read_dir_inode
            PROVE  z \in Reached' /\ z \notin read_dir_inode'
        BY <1>4, <1>8, <1>9, <4>1
      <4>. QED BY <1>5, <4>1
    <3>. QED BY <3>1, <3>2, <3>3, <3>4
  <2>. QED BY <2>2, <2>3
<1>. QED BY <1>6, <1>7, <1>11, <1>12, <1>13, <1>14, <1>15, <1>16

\* So does the end of a deletion.
LEMMA DeleteDoneStep ==
    ASSUME Ext3Inv, DeleteDone
    PROVE  Ext3Inv'
<1>. USE DEF Ext3Inv
<1>1. /\ pc = "d_dir" /\ Return /\ store' = [store EXCEPT ![name] = None]
      /\ UNCHANGED <<bmap, imap, itab, data, slots, freed, cut>>
  BY DEF DeleteDone, disk
<1>2. name \in Names /\ name \notin Listed
  BY <1>1 DEF LocalsOK, Knows
<1>3. /\ store' \in [Names -> Contents \cup {None, Torn, <<>>}] /\ store'[name] = None
      /\ \A m \in Names : m # name => store'[m] = store[m]
  BY <1>1, <1>2, StoreFacts
<1>4. cut' = (cut \/ pc = "d_entry")
  BY <1>1 DEF LocalsOK
<1>. QED BY <1>1, <1>2, <1>3, <1>4, ReturnStep

\* So does a disk error in any of them.
LEMMA FailStep ==
    ASSUME Ext3Inv, Fail
    PROVE  Ext3Inv'
<1>1. /\ Return /\ cut' = (cut \/ pc = "d_entry") /\ store' = store
      /\ UNCHANGED <<bmap, imap, itab, data, slots, freed>>
  BY DEF Fail, disk
<1>. QED BY <1>1, ReturnStep DEF Ext3Inv, LocalsOK

-----------------------------------------------------------------------------
(***************************************************************************)
(* The theorems.                                                           *)
(***************************************************************************)

\* The invariant holds of a disk with an empty directory.
LEMMA Ext3Init == Init => Ext3Inv
<1>. SUFFICES ASSUME Init  PROVE Ext3Inv
  OBVIOUS
<1>. USE DEF Init
<1>. DEFINE root == [EmptyInode EXCEPT !.size = 1, !.block[0] = Meta]
            dot == [ino |-> Dir, name |-> None, span |-> 1]
<1>1. root \in InodeType /\ root.size = 1
  <2>1. 0 \in Index /\ Meta \in 0 .. NBits
    BY Constants DEF Index
  <2>. QED BY <2>1, EmptyInodeType DEF InodeType
<1>2. Dir \in 1 .. NInodes /\ dot \in Slot /\ dot.ino = Dir /\ dot.name = None /\ dot.span = 1
  BY Constants DEF Dir, Slot
<1>3. /\ itab \in [1 .. NInodes -> InodeType] /\ itab[Dir] = root
      /\ \A i \in FileInodes : itab[i] = EmptyInode
  <2>. HIDE DEF root
  <2>1. itab = [i \in 1 .. NInodes |-> IF i = Dir THEN root ELSE EmptyInode]
    BY DEF root
  <2>. QED BY <1>1, <1>2, <2>1, EmptyInodeType, Constants DEF FileInodes, Dir
<1>. HIDE DEF root, dot
<1>4. slots = <<dot>> /\ slots \in Seq(Slot) /\ Len(slots) = 1 /\ slots[1] = dot
  BY <1>2 DEF dot
<1>5. size = 1
  BY <1>1, <1>3 DEF size
<1>6. DiskOK
  <2>1. \A i \in FileInodes : itab[i].size <= Direct
    <3>1. EmptyInode.size <= Direct
      BY EmptyInodeType, Constants
    <3>. QED BY <1>3, <3>1
  <2>2. Dir - 1 \in 0 .. NInodes - 1
    BY <1>2, Constants
  <2>3. \A x \in DOMAIN slots : slots[x].name \notin Names
    BY <1>2, <1>4, Constants
  <2>. QED BY <1>2, <1>3, <1>4, <1>5, <2>1, <2>2, <2>3 DEF DiskOK
<1>7. LocalsOK
  BY DEF LocalsOK, Creating, Deleting
<1>8. Reached = {1} /\ read_dir_inode = {1}
  <2>1. 1 \in Reached /\ Reached \subseteq 1 .. 1
    BY <1>5, ReachedFacts DEF Reached
  <2>. QED BY <1>2, <1>4, <2>1 DEF read_dir_inode, Dir
<1>9. Listed = {}
  BY <1>2, <1>4, <1>8, Constants DEF Listed
<1>10. Linked /\ Knows
  BY <1>2, <1>4, <1>5, <1>8 DEF Linked, Knows, Creating
<1>11. Owned
  <2>1. \A i \in FileInodes, x \in Index : Loaded(i).block[x] = 0
    BY <1>3, EmptyInodeType DEF Loaded
  <2>. QED BY <2>1 DEF Owned
<1>12. Marked
  BY <1>2, <1>4, <1>8 DEF Marked, Creating
<1>13. HoldsStored
  BY DEF HoldsStored
<1>14. ReadBack
  BY <1>9, Constants DEF ReadBack
<1>. QED BY <1>6, <1>7, <1>10, <1>11, <1>12, <1>13, <1>14 DEF Ext3Inv

\* Every step preserves the invariant.
LEMMA Ext3Next == Ext3Inv /\ [Next]_vars => Ext3Inv'
<1>. SUFFICES ASSUME Ext3Inv, [Next]_vars  PROVE Ext3Inv'
  OBVIOUS
<1>1. ASSUME NEW n \in Names, create_file(n)  PROVE Ext3Inv'
  BY <1>1, AllocInodeStep DEF create_file
<1>2. ASSUME NEW n \in Names, delete_file(n)  PROVE Ext3Inv'
  BY <1>2, DeleteFileStep
<1>3. ASSUME NEW n \in Names, NEW d \in Contents, write_file(n, d)  PROVE Ext3Inv'
  BY <1>3, OpenStep, AllocInodeStep DEF write_file
<1>4. CASE WriteAgain
  <2>1. name \in Names /\ want \in Contents /\ pc = "w_walk"
    BY <1>4 DEF WriteAgain, Ext3Inv, LocalsOK
  <2>2. CASE Open(name, want)
    BY <2>1, <2>2, OpenStep
  <2>3. CASE name \notin Listed /\ alloc_inode(name, want)
    BY <2>1, <2>3, AllocInodeStep
  <2>. QED BY <1>4, <2>2, <2>3 DEF WriteAgain
<1>5. CASE Step /\ ~WriteAgain
  BY <1>5, CreateInodeStep, AddEntryStep, CreateDoneStep, WriteAllocStep, WriteDataStep,
     WriteFreeStep, WriteInodeStep, DeleteFreeStep, DeleteInodeStep, RemoveEntryStep,
     DeleteDoneStep DEF Step
<1>6. CASE UNCHANGED vars
  <2>1. /\ UNCHANGED <<bmap, imap, itab, data, slots, pc, name, ino, inode, want, k>>
        /\ UNCHANGED <<store, freed, cut>>
    BY <1>6 DEF vars, disk, locals, history
  <2>2. /\ Reached' = Reached /\ read_dir_inode' = read_dir_inode /\ Listed' = Listed
        /\ size' = size /\ Missing' = Missing
        /\ \A n : walk(n)' = walk(n) /\ read_file_inode(walk(n))' = read_file_inode(walk(n))
    BY <2>1 DEF Reached, read_dir_inode, Listed, size, Missing, walk, Position, read_file_inode
  <2>3. walk(name)' = walk(name)
    BY <2>1, <2>2 DEF walk, Position
  <2>4. DiskOK' /\ LocalsOK'
    BY <2>1, <2>2 DEF Ext3Inv, DiskOK, LocalsOK, Creating, Deleting
  <2>5. Linked' /\ Knows' /\ Marked'
    BY <2>1, <2>2, <2>3 DEF Ext3Inv, Linked, Knows, Marked, Creating
  <2>6. Owned' /\ HoldsStored' /\ ReadBack'
    BY <2>1, <2>2 DEF Ext3Inv, Owned, Loaded, HoldsStored, ReadBack
  <2>. QED BY <2>4, <2>5, <2>6 DEF Ext3Inv
<1>. QED BY <1>1, <1>2, <1>3, <1>4, <1>5, <1>6, FailStep DEF Next

\* Every state of the disk and of the operation under way satisfies the
\* inductive invariant, whatever writes fail.
THEOREM Ext3Invariant == Spec => []Ext3Inv
BY Ext3Init, Ext3Next, PTL DEF Spec

\* As long as no block was freed, no block belongs to two files, each is marked
\* in the bitmap and none holds metadata: bitmap, data and inode are written in
\* an order that survives a failure after any of the writes.
THEOREM OneOwner == Spec => []BlocksOwned
<1>1. Ext3Inv => BlocksOwned
  <2>. SUFFICES ASSUME Ext3Inv, ~freed
                PROVE  /\ NoSharedBlock
                       /\ \A r \in Refs : BlockAt(r) > Meta /\ BlockAt(r) - 1 \in bmap
    BY DEF BlocksOwned
  <2>. USE DEF Ext3Inv
  <2>1. LiveInodes \subseteq FileInodes
    BY WalkIs DEF LiveInodes
  <2>2. ASSUME NEW r \in Refs
        PROVE  /\ r[1] \in FileInodes /\ r[2] \in Index /\ r = <<r[1], r[2]>>
               /\ BlockAt(r) # 0 /\ Loaded(r[1]).block[r[2]] = BlockAt(r)
    <3>1. r[1] \in FileInodes /\ r[2] \in Index /\ r = <<r[1], r[2]>> /\ BlockAt(r) # 0
      BY <2>1 DEF Refs, BlockAt
    <3>. QED BY <3>1 DEF Owned, Loaded, BlockAt
  <2>3. ASSUME NEW r \in Refs  PROVE BlockAt(r) > Meta /\ BlockAt(r) - 1 \in bmap
    BY <2>2 DEF Owned
  <2>4. ASSUME NEW r \in Refs, NEW s \in Refs, BlockAt(r) = BlockAt(s)  PROVE r = s
    <3>1. r[1] = s[1] /\ r[2] = s[2]
      BY <2>2, <2>4 DEF Owned
    <3>. QED BY <2>2, <3>1
  <2>. QED BY <2>3, <2>4 DEF NoSharedBlock
<1>. QED BY <1>1, Ext3Invariant, PTL

\* Unless a deletion was cut between its inode and its entry, every entry that
\* list_dir shows has a name and an inode of its own, and the inode is marked.
THEOREM EntriesStaySound == Spec => []EntriesSound
<1>1. Ext3Inv => EntriesSound
  BY DEF Ext3Inv, Linked, Marked, EntriesSound
<1>. QED BY <1>1, Ext3Invariant, PTL

\* read_file returns what write_file was given, as long as no block was freed
\* and no deletion cut.
THEOREM ReadsWhatWasWritten == Spec => []ReadBack
<1>1. Ext3Inv => ReadBack
  BY DEF Ext3Inv
<1>. QED BY <1>1, Ext3Invariant, PTL

-----------------------------------------------------------------------------
(***************************************************************************)
(* What an operation does to the other files of the directory.             *)
(***************************************************************************)

\* What OthersKept says of one step.
KeepsOthers ==
    \A n \in Names \ {name} : /\ n \in Listed <=> n \in Listed'
                              /\ n \in Listed => walk(n) = walk(n)'

\* A step that leaves the directory alone keeps every file in it.
LEMMA SameDirKeeps ==
    ASSUME Ext3Inv, Ext3Inv', SameDir
    PROVE  KeepsOthers
<1>1. DiskOK /\ DiskOK'
  BY DEF Ext3Inv
<1>2. Listed' = Listed /\ \A n \in Listed : walk(n)' = walk(n)
  BY <1>1, SameDirFacts
<1>. QED BY <1>2 DEF KeepsOthers

\* The actions that write neither an entry nor the directory's inode.
LEMMA MostLeaveDir ==
    ASSUME Ext3Inv, [Next]_vars, ~CreateDone, ~dir_remove_entry
    PROVE  SameDir
<1>. USE DEF Ext3Inv
<1>1. CASE CreateInode
  <2>1. pc = "c_inode" /\ itab' = [itab EXCEPT ![ino] = EmptyInode] /\ slots' = slots
    BY <1>1 DEF CreateInode, At, write_inode
  <2>2. ino \in FileInodes
    BY <2>1 DEF LocalsOK, Creating
  <2>. QED BY <2>1, <2>2, Constants DEF SameDir, size, DiskOK, FileInodes, Dir
<1>2. CASE WriteInode
  <2>1. pc = "w_alloc" /\ itab' = [itab EXCEPT ![ino] = [inode EXCEPT !.size = Len(want)]]
        /\ slots' = slots
    BY <1>2 DEF WriteInode, Written, write_inode
  <2>2. ino \in FileInodes
    BY <2>1 DEF LocalsOK
  <2>3. PICK e : itab' = [itab EXCEPT ![ino] = e]
    BY <2>1
  <2>. QED BY <2>1, <2>2, <2>3, Constants DEF SameDir, size, DiskOK, FileInodes, Dir
<1>3. CASE dir_add_entry
  <2>. DEFINE new == [ino |-> ino, name |-> name, span |-> 1]
  <2>1. slots' = Append(SubSeq(slots, 1, size), new) /\ itab' = itab
    BY <1>3 DEF dir_add_entry
  <2>2. slots \in Seq(Slot) /\ size \in Nat \ {0} /\ size <= Len(slots)
    BY DirTypes DEF DiskOK
  <2>3. ASSUME NEW x \in 1 .. size  PROVE slots'[x] = slots[x]
    <3>1. SubSeq(slots, 1, size) = [y \in 1 .. size |-> slots[y]]
      BY <2>2
    <3>2. Len(SubSeq(slots, 1, size)) = size /\ SubSeq(slots, 1, size)[x] = slots[x]
      BY <2>2, <3>1
    <3>3. SubSeq(slots, 1, size) \in Seq(Slot)
      BY <2>2, SubSeqProperties
    <3>. HIDE DEF new
    <3>. QED BY <2>1, <2>2, <3>2, <3>3, AppendProperties
  <2>. QED BY <2>1, <2>3 DEF SameDir, size
<1>4. CASE ~CreateInode /\ ~WriteInode /\ ~dir_add_entry
  <2>1. UNCHANGED <<itab, slots>>
    <3>1. ASSUME NEW n \in Names, NEW d \in Contents \cup {None},
                 \/ create_file(n) \/ delete_file(n) \/ write_file(n, d)
                 \/ Open(n, d) \/ alloc_inode(n, d)
          PROVE  UNCHANGED <<itab, slots>>
      BY <3>1 DEF create_file, delete_file, write_file, Open, alloc_inode, NoInode, disk
    <3>2. CASE WriteAgain
      <4>1. name \in Names /\ want \in Contents
        BY <3>2 DEF WriteAgain, LocalsOK
      <4>. QED BY <3>1, <3>2, <4>1 DEF WriteAgain
    <3>3. CASE WriteAlloc \/ WriteData \/ WriteFree
      BY <3>3 DEF WriteAlloc, WriteData, WriteFree
    <3>4. CASE DeleteFree \/ DeleteInode \/ DeleteDone \/ Fail
      BY <3>4 DEF DeleteFree, DeleteInode, DeleteDone, Fail, disk
    <3>5. CASE UNCHANGED vars
      BY <3>5 DEF vars, disk
    <3>. QED BY <1>4, <3>1, <3>2, <3>3, <3>4, <3>5 DEF Next, Step
  <2>. QED BY <2>1 DEF SameDir, size
<1>. QED BY <1>1, <1>2, <1>3, <1>4

\* A new entry is behind the others and has the name that is created.
LEMMA CreateKeeps ==
    ASSUME Ext3Inv, Ext3Inv', CreateDone
    PROVE  KeepsOthers
<1>. USE DEF Ext3Inv
<1>1. /\ pc = "c_dir" /\ slots' = slots
      /\ itab' = [itab EXCEPT ![Dir] = [itab[Dir] EXCEPT !.size = @ + 1]]
  BY DEF CreateDone, write_inode
<1>2. size' = size + 1
  <2>1. Dir \in 1 .. NInodes /\ itab[Dir] \in InodeType
    BY Constants DEF Dir, DiskOK
  <2>2. PICK e : e = [itab[Dir] EXCEPT !.size = @ + 1]
    OBVIOUS
  <2>3. e.size = size + 1
    BY <2>1, <2>2 DEF InodeType, size
  <2>. QED BY <1>1, <2>1, <2>2, <2>3 DEF DiskOK, size
<1>3. slots[size + 1].ino = ino /\ slots[size + 1].name = name /\ ino \in FileInodes
  BY <1>1 DEF Knows, LocalsOK, Creating
<1>4. slots[size + 1].ino # 0
  BY <1>3, Constants DEF FileInodes
<1>5. /\ read_dir_inode \subseteq read_dir_inode'
      /\ read_dir_inode' = {x \in Reached' : x = size + 1 \/ x \in read_dir_inode}
  BY <1>1, <1>2, <1>4, GrowFacts
<1>6. read_dir_inode' \in SUBSET Nat
  BY DirTypes, <1>5
<1>7. ASSUME NEW n \in Names, n # name
      PROVE  (n \in Listed' <=> n \in Listed) /\ (n \in Listed => walk(n)' = walk(n))
  <2>1. \A x \in read_dir_inode : slots[x].name = n =>
            x \in read_dir_inode' /\ slots'[x].name = n /\ slots'[x].ino = slots[x].ino
    BY <1>1, <1>5
  <2>2. \A x \in read_dir_inode' : slots'[x].name = n => x \in read_dir_inode /\ slots[x].name = n
    BY <1>1, <1>3, <1>5, <1>7
  <2>. QED BY <1>6, <2>1, <2>2, EntryKept
<1>. QED BY <1>7 DEF KeepsOthers

\* The deletion of an entry leads the walk over it to the same next entry.
LEMMA RemoveKeeps ==
    ASSUME Ext3Inv, Ext3Inv', dir_remove_entry
    PROVE  KeepsOthers
<1>. USE DEF Ext3Inv
<1>1. name \in Listed
  BY DEF Knows, dir_remove_entry, At
<1>2. PICK at : at = Position(name)
  OBVIOUS
<1>3. /\ size' = size
      /\ \A x \in 1 .. size : slots'[x].name = slots[x].name
      /\ \A x \in 1 .. size : slots'[x].ino = IF x = at THEN 0 ELSE slots[x].ino
      /\ at \in read_dir_inode /\ slots[at].name = name
      /\ at # 1 /\ Removed(slots, slots', size, at)
  BY <1>1, <1>2, RemoveFacts
<1>4. /\ size \in Nat \ {0} /\ \A x \in 1 .. size : slots[x] \in Slot
      /\ Reached \subseteq 1 .. size /\ read_dir_inode \subseteq Reached
      /\ \A x \in read_dir_inode : slots[x].ino # 0
      /\ Reached \in SUBSET Nat
  BY DirTypes
<1>5. Reached' \subseteq Reached /\ Reached \ {at} \subseteq Reached'
  <2>1. Reached' = ReachedIn(slots', size) /\ Reached = ReachedIn(slots, size)
    BY <1>3 DEF Reached
  <2>2. at \in ReachedIn(slots, size) /\ slots[at].ino # 0
    BY <1>3, <1>4, <2>1
  <2>3. \A x \in 1 .. size : slots[x].span \in Nat \ {0}
    BY <1>4 DEF Slot
  <2>. QED BY <1>3, <1>4, <2>1, <2>2, <2>3, ReachedRemoved
<1>6. read_dir_inode' = read_dir_inode \ {at}
  <2>1. \A x \in Reached' : slots'[x].ino = IF x = at THEN 0 ELSE slots[x].ino
    BY <1>3, <1>4, <1>5
  <2>. QED BY <1>5, <2>1 DEF read_dir_inode
<1>7. read_dir_inode' \in SUBSET Nat
  BY <1>4, <1>6
<1>8. ASSUME NEW n \in Names, n # name
      PROVE  (n \in Listed' <=> n \in Listed) /\ (n \in Listed => walk(n)' = walk(n))
  <2>1. \A x \in read_dir_inode : slots[x].name = n =>
            x \in read_dir_inode' /\ slots'[x].name = n /\ slots'[x].ino = slots[x].ino
    BY <1>3, <1>4, <1>6, <1>8
  <2>2. \A x \in read_dir_inode' : slots'[x].name = n => x \in read_dir_inode /\ slots[x].name = n
    BY <1>3, <1>4, <1>6
  <2>. QED BY <1>7, <2>1, <2>2, EntryKept
<1>. QED BY <1>8 DEF KeepsOthers

\* No step of an operation on one file makes another appear in the directory or
\* vanish from it, nor changes which inode it has: neither the append behind
\* the end, nor the entry made larger over a deleted one, nor a failure between
\* two writes.
THEOREM OthersStay == Spec => OthersKept
<1>1. Ext3Inv /\ Ext3Inv' /\ [Next]_vars => KeepsOthers
  BY CreateKeeps, RemoveKeeps, MostLeaveDir, SameDirKeeps
<1>2. Spec => [][KeepsOthers]_vars
  BY <1>1, Ext3Invariant, PTL DEF Spec
<1>. QED BY <1>2 DEF OthersKept, KeepsOthers

=============================================================================
