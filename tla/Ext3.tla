-------------------------------- MODULE Ext3 --------------------------------
(***************************************************************************)
(* The writing side of fs/ext3.rs: create_file, write_file and delete_file *)
(* on one directory of an ext2 disk, and what list_dir and read_file then  *)
(* find.  There is no journal.  Every action is one block written through  *)
(* drivers/ata.rs, and between any two of them a write may fail or the     *)
(* power may go (Fail): the disk keeps what was written, the locals of the *)
(* operation are gone.                                                     *)
(*                                                                         *)
(* Sizes are in blocks (the directory's in entries), and a name stands for *)
(* a path in the directory.  rec_len is in entries, so an entry whose      *)
(* rec_len was enlarged by a deletion spans more than itself.  The inode   *)
(* table is taken as this code lays it out.                                *)
(***************************************************************************)
EXTENDS Integers, Sequences, FiniteSets, FiniteSetsExt

CONSTANTS
    Names,      \* file names
    Values,     \* what write_file is given to write
    NBits,      \* blocks_per_group: bits of the block bitmap
    Meta,       \* blocks 1..Meta hold metadata and the directory
    NInodes,    \* inodes_per_group
    Direct,     \* direct block pointers of an inode (12)
    DirMax,     \* bound: entries of the directory when an operation starts
    MaxFails,   \* bound: operations that fail
    None        \* no name, no data, no file

VARIABLES
    bmap, imap,     \* the bits set in the block and the inode bitmap
    itab,           \* the inode table
    data,           \* contents of the blocks; 0 is a hole and reads as zeros
    slots,          \* the entries in the directory's blocks
    pc, name, ino, inode, want, k,      \* the operation and its locals
    store,          \* history: the contents each file was given
    freed,          \* history: a block has been freed
    fails,          \* history: operations that failed, up to MaxFails
    cut             \* history: a deletion was cut after freeing its inode

disk == <<bmap, imap, itab, data, slots>>
locals == <<pc, name, ino, inode, want, k>>
history == <<store, freed, cut, fails>>
vars == <<disk, locals, history>>

Dir == 1                        \* the inode of the directory
Index == 0 .. Direct - 1        \* positions in Inode::block
EmptyInode == [size |-> 0, block |-> [x \in Index |-> 0]]
Torn == <<None>>                \* contents left undefined by a failure

\* What a file may be given: up to one block more than fits, the blocks of one
\* write told apart by their position.
Contents == {[x \in 1 .. n |-> <<d, x>>] : n \in 0 .. Direct + 1, d \in Values}

ASSUME Ext3Assumption ==
    /\ {NBits, Meta, NInodes, Direct, DirMax} \subseteq Nat \ {0}
    /\ Meta <= NBits /\ MaxFails \in Nat
    /\ None \notin Names \cup Values \cup Contents \cup {Torn, <<>>} /\ Torn \notin Contents

-----------------------------------------------------------------------------
(***************************************************************************)
(* Reading.                                                                *)
(***************************************************************************)
size == itab[Dir].size

\* The entries read_dir_inode steps on in a directory s of n entries: from the
\* first one by rec_len, until the end or an entry without an inode.
ReachedIn(s, n) ==
    LET step[x \in 1 .. n] ==
            x = 1 \/ \E y \in 1 .. x - 1 : /\ step[y] /\ s[y].ino # 0
                                           /\ y + s[y].span = x
    IN  {x \in 1 .. n : step[x]}

Reached == ReachedIn(slots, size)

read_dir_inode == {x \in Reached : slots[x].ino # 0}

Listed == {slots[x].name : x \in read_dir_inode} \cap Names

\* walk and read_inode: where the name is, and its inode.
Position(n) == Min({x \in read_dir_inode : slots[x].name = n})
walk(n) == slots[Position(n)].ino

read_file_inode(i) == [x \in 1 .. itab[i].size |-> data[itab[i].block[x - 1]]]

-----------------------------------------------------------------------------
(***************************************************************************)
(* Bitmaps.  Bit b of the block bitmap stands for block b + 1.             *)
(***************************************************************************)
FreeBits(map, n) == 0 .. n - 1 \ map

bitmap_alloc(map, n) == Min(FreeBits(map, n))

\* write_file_data adds first_data_block to the bit alloc_block returns.
\* Mutant: the bit is taken for the block.
alloc_blockBit == bitmap_alloc(bmap, NBits)

alloc_block == bitmap_alloc(bmap, NBits) + 1

\* bitmap_set with the value false.
bitmap_clear(map, bit) == map \ {bit}

\* free_block clears the bit whose index is the block number.
free_block(b) == bmap' = bitmap_clear(bmap, b) /\ freed' = TRUE

\* Mutant: the inode number is taken for the index of its bit.
free_inodeNumber(i) == imap' = bitmap_clear(imap, i)

free_inode(i) == imap' = bitmap_clear(imap, i - 1)

\* The block of the table that holds the inode is read, changed and written.
write_inode(i, n) == itab' = [itab EXCEPT ![i] = n]

-----------------------------------------------------------------------------
(***************************************************************************)
(* Steps of an operation.                                                  *)
(***************************************************************************)
At(from, to) == pc = from /\ pc' = to

\* The operation returns and its locals are dropped.
Return ==
    /\ pc' = "idle" /\ name' = None /\ ino' = 0
    /\ inode' = EmptyInode /\ want' = None /\ k' = 0

\* Without a free inode create_file, and write_file with it, gives up.
NoInode == FreeBits(imap, NInodes) = {} /\ Return /\ UNCHANGED <<disk, history>>

\* create_file up to the write of the inode bitmap; d is the data write_file
\* has for the file, or None.
alloc_inode(n, d) ==
    \/ NoInode
    \/ /\ FreeBits(imap, NInodes) # {}
       /\ imap' = imap \cup {bitmap_alloc(imap, NInodes)}
       /\ ino' = bitmap_alloc(imap, NInodes) + 1
       /\ pc' = "c_inode" /\ name' = n /\ want' = d
       /\ store' = [store EXCEPT ![n] = Torn]
       /\ UNCHANGED <<bmap, itab, data, slots, inode, k, freed, cut, fails>>

create_file(n) ==
    /\ pc = "idle" /\ n \notin Listed /\ size < DirMax
    /\ alloc_inode(n, None)

CreateInode ==
    /\ At("c_inode", "c_entry")
    /\ write_inode(ino, EmptyInode)
    /\ UNCHANGED <<bmap, imap, data, slots, name, ino, inode, want, k, history>>

\* dir_add_entry: the directory is read up to its size and the entry appended.
dir_add_entry ==
    /\ At("c_entry", "c_dir")
    /\ slots' = Append(SubSeq(slots, 1, size), [ino |-> ino, name |-> name, span |-> 1])
    /\ UNCHANGED <<bmap, imap, itab, data, name, ino, inode, want, k, history>>

\* The write of the directory's inode makes the entry visible.
CreateDone ==
    /\ pc = "c_dir"
    /\ write_inode(Dir, [itab[Dir] EXCEPT !.size = @ + 1])
    /\ store' = [store EXCEPT ![name] = <<>>]
    /\ \/ want = None /\ Return
       \/ want # None /\ pc' = "w_walk" /\ UNCHANGED <<name, ino, inode, want, k>>
    /\ UNCHANGED <<bmap, imap, data, slots, freed, cut, fails>>

\* write_file on a file that was found.
Open(n, d) ==
    /\ n \in Listed
    /\ pc' = "w_alloc" /\ name' = n /\ want' = d /\ k' = 0
    /\ ino' = walk(n) /\ inode' = itab[walk(n)]
    /\ store' = [store EXCEPT ![n] = Torn]
    /\ UNCHANGED <<disk, freed, cut, fails>>

write_file(n, d) ==
    /\ pc = "idle"
    /\ \/ Open(n, d)
       \/ n \notin Listed /\ size < DirMax /\ alloc_inode(n, d)

\* Mutant: the error of create_file is ignored, and write_file calls itself.
WriteAgainIgnoring ==
    /\ pc = "w_walk"
    /\ \/ Open(name, want)
       \/ /\ name \notin Listed
          /\ IF FreeBits(imap, NInodes) = {} THEN UNCHANGED vars ELSE alloc_inode(name, want)

\* write_file calls itself after create_file and walks again.
WriteAgain ==
    /\ pc = "w_walk"
    /\ \/ Open(name, want)
       \/ name \notin Listed /\ alloc_inode(name, want)

-----------------------------------------------------------------------------
(***************************************************************************)
(* write_file_data: allocate, write, free.                                 *)
(***************************************************************************)
Missing == {x \in 0 .. Len(want) - 1 : x \notin Index \/ inode.block[x] = 0}

\* The first missing block is allocated.  Past the direct pointers, or with
\* the bitmap full, the write fails; the blocks taken so far stay taken.
WriteAlloc ==
    /\ pc = "w_alloc" /\ Missing # {}
    /\ IF FreeBits(bmap, NBits) = {}
       THEN Return /\ UNCHANGED bmap
       ELSE /\ bmap' = bmap \cup {bitmap_alloc(bmap, NBits)}
            /\ IF Min(Missing) \in Index
               THEN /\ inode' = [inode EXCEPT !.block[Min(Missing)] = alloc_block]
                    /\ UNCHANGED <<pc, name, ino, want, k>>
               ELSE Return
    /\ UNCHANGED <<imap, itab, data, slots, history>>

WriteData ==
    /\ pc = "w_alloc" /\ Missing = {} /\ k < Len(want)
    /\ data' = [data EXCEPT ![inode.block[k]] = want[k + 1]]
    /\ k' = k + 1
    /\ UNCHANGED <<bmap, imap, itab, slots, pc, name, ino, inode, want, history>>

\* Blocks behind the new end, of a file that shrinks.
Excess == {x \in Len(want) .. inode.size - 1 : x \in Index /\ inode.block[x] # 0}

Written == pc = "w_alloc" /\ Missing = {} /\ k = Len(want)

WriteFree ==
    /\ Written /\ Excess # {}
    /\ free_block(inode.block[Min(Excess)])
    /\ inode' = [inode EXCEPT !.block[Min(Excess)] = 0]
    /\ UNCHANGED <<imap, itab, data, slots, pc, name, ino, want, k, store, cut, fails>>

\* Mutant: the size in the inode stays what it was.
WriteInodeOldSize ==
    /\ Written /\ Excess = {}
    /\ write_inode(ino, inode)
    /\ store' = [store EXCEPT ![name] = want]
    /\ Return
    /\ UNCHANGED <<bmap, imap, data, slots, freed, cut, fails>>

WriteInode ==
    /\ Written /\ Excess = {}
    /\ write_inode(ino, [inode EXCEPT !.size = Len(want)])
    /\ store' = [store EXCEPT ![name] = want]
    /\ Return
    /\ UNCHANGED <<bmap, imap, data, slots, freed, cut, fails>>

-----------------------------------------------------------------------------
(***************************************************************************)
(* delete_file: free the blocks, the inode, then the entry.                *)
(***************************************************************************)
delete_file(n) ==
    /\ pc = "idle" /\ n \in Listed
    /\ pc' = "d_free" /\ name' = n /\ k' = 0
    /\ ino' = walk(n) /\ inode' = itab[walk(n)]
    /\ store' = [store EXCEPT ![n] = Torn]
    /\ UNCHANGED <<disk, want, freed, cut, fails>>

ToFree == {x \in k .. inode.size - 1 : x \in Index /\ inode.block[x] # 0}

DeleteFree ==
    /\ pc = "d_free" /\ ToFree # {}
    /\ free_block(inode.block[Min(ToFree)])
    /\ k' = Min(ToFree) + 1
    /\ UNCHANGED <<imap, itab, data, slots, pc, name, ino, inode, want, store, cut, fails>>

DeleteInode ==
    /\ ToFree = {} /\ At("d_free", "d_entry")
    /\ free_inode(ino)
    /\ UNCHANGED <<bmap, itab, data, slots, name, ino, inode, want, k, history>>

\* Mutant: the entry in front is not extended over the deleted one.
dir_remove_entryNoMerge ==
    /\ At("d_entry", "d_dir")
    /\ slots' = [SubSeq(slots, 1, size) EXCEPT ![Position(name)].ino = 0]
    /\ UNCHANGED <<bmap, imap, itab, data, name, ino, inode, want, k, history>>

\* dir_remove_entry: unless it is the last, the entry in front of the deleted
\* one is extended over it.
dir_remove_entry ==
    /\ At("d_entry", "d_dir")
    /\ LET at == Position(name)
           last == at + slots[at].span > size
       IN  slots' = [x \in 1 .. size |->
               CASE x = at -> [slots[x] EXCEPT !.ino = 0]
                 [] ~last /\ x \in Reached /\ x + slots[x].span = at ->
                        [slots[x] EXCEPT !.span = @ + slots[at].span]
                 [] OTHER -> slots[x]]
    /\ UNCHANGED <<bmap, imap, itab, data, name, ino, inode, want, k, history>>

DeleteDone ==       \* the directory's inode is written as it was
    /\ pc = "d_dir"
    /\ store' = [store EXCEPT ![name] = None]
    /\ Return
    /\ UNCHANGED <<disk, freed, cut, fails>>

-----------------------------------------------------------------------------
\* ata::write reports an error or times out, or the power fails; nothing that
\* was written is undone.
Fail ==
    /\ pc # "idle" /\ fails < MaxFails
    /\ fails' = fails + 1
    /\ cut' = (cut \/ pc = "d_entry")
    /\ Return
    /\ UNCHANGED <<disk, store, freed>>

Init ==
    /\ bmap = 0 .. Meta - 1 /\ imap = {Dir - 1}
    /\ itab = [i \in 1 .. NInodes |->
                 IF i = Dir THEN [EmptyInode EXCEPT !.size = 1, !.block[0] = Meta]
                 ELSE EmptyInode]
    /\ data = [b \in 0 .. NBits |-> None]
    /\ slots = <<[ino |-> Dir, name |-> None, span |-> 1]>>     \* "." and ".."
    /\ pc = "idle" /\ name = None /\ ino = 0
    /\ inode = EmptyInode /\ want = None /\ k = 0
    /\ store = [n \in Names |-> None] /\ freed = FALSE /\ cut = FALSE
    /\ fails = 0

Step ==
    \/ CreateInode \/ dir_add_entry \/ CreateDone \/ WriteAgain
    \/ WriteAlloc \/ WriteData \/ WriteFree \/ WriteInode
    \/ DeleteFree \/ DeleteInode \/ dir_remove_entry \/ DeleteDone

Next ==
    \/ \E n \in Names : create_file(n) \/ delete_file(n)
    \/ \E n \in Names, d \in Contents : write_file(n, d)
    \/ Step
    \/ Fail

Spec == Init /\ [][Next]_vars

\* An operation that has begun goes on: the waits of ata.rs are bounded.
FairSpec == Spec /\ WF_vars(Step)

-----------------------------------------------------------------------------
\* Inodes of the files the directory lists; the one being deleted has been
\* freed already when its entry goes.
LiveInodes == {slots[x].ino : x \in {y \in read_dir_inode : slots[y].name \in Names}}

Refs == {r \in LiveInodes \X Index : itab[r[1]].block[r[2]] # 0}
BlockAt(r) == itab[r[1]].block[r[2]]

\* alloc_block and free_block keep the bitmap: no block belongs to two files
\* or twice to one.
NoSharedBlock == \A r, s \in Refs : BlockAt(r) = BlockAt(s) => r = s

\* As long as nothing was freed, no block is shared, every block of a file is
\* marked in the bitmap, and none holds metadata, whatever write fails in
\* create_file and write_file: bitmap, data and inode are written in an order
\* that a failure can only turn into a lost block.
BlocksOwned ==
    ~freed => /\ NoSharedBlock
              /\ \A r \in Refs : BlockAt(r) > Meta /\ BlockAt(r) - 1 \in bmap

\* Unless a deletion was cut between its inode and its entry, every entry
\* list_dir shows has a name and an inode of its own, and the inode is marked.
EntriesSound ==
    ~cut => \A x \in read_dir_inode :
        /\ (pc = "d_entry" /\ slots[x].ino = ino) \/ slots[x].ino - 1 \in imap
        /\ \A y \in read_dir_inode \ {x} : /\ slots[x].name # slots[y].name
                                           /\ slots[x].ino # slots[y].ino

\* No operation makes another file appear in the directory or vanish from it,
\* nor changes which inode it has.
OthersKept ==
    [][\A n \in Names \ {name} : /\ n \in Listed <=> n \in Listed'
                                 /\ n \in Listed => walk(n) = walk(n)']_vars

\* While no block was freed and no deletion cut: read_file gives what
\* write_file was given last, and a file that was created is listed, unless the
\* directory ends in a deleted entry; a deleted file is not listed.
ReadBack ==
    ~freed /\ ~cut => \A n \in Names :
        /\ store[n] \in Contents =>
               IF n \in Listed THEN read_file_inode(walk(n)) = store[n]
               ELSE read_dir_inode # Reached
        /\ store[n] = None => n \notin Listed

\* create_file, write_file and delete_file return, also when write_file keeps
\* creating a file that it does not find afterwards.
OperationsEnd == pc # "idle" ~> pc = "idle"
=============================================================================
