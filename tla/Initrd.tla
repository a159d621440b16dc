------------------------------- MODULE Initrd -------------------------------
(***************************************************************************)
(* The initial ramdisk from the boot loader's tags to the file operations: *)
(* kernel_main picks the module, tar_parse walks the archive, tarfs_init   *)
(* makes the nodes (src/kernel/fs/tarfs.c), and callers reach them through *)
(* src/kernel/fs/vfs.c.  elf_load closes the node it has loaded.           *)
(*                                                                         *)
(* Addresses are bytes, modulo Span; a tar block has Block of them instead *)
(* of 512, and a size field three octal digits instead of eleven, which    *)
(* may be more than an address holds too.  Names, contents and times are   *)
(* left out as far as nothing depends on them.                             *)
(***************************************************************************)
EXTENDS Elf, FiniteSetsExt

CONSTANTS
    Block, NUM_TARFILES,
    MaxClosed,   \* bound: nodes that callers close
    Archives,    \* sequences of entries [name, type, size field]
    Strays,      \* size fields that may be found where there is no header
    Tails,       \* blocks between the last entry and the end of the module
    TagLists,    \* what the boot loader passes: sequences of tags
    Contents(_), \* what a file of that name may hold, as elf_load sees it
    Offsets, Sizes

Digits == (0 .. 7) \X (0 .. 7) \X (0 .. 7)

\* Names are not empty, and sizes are octal; the boot loader passes a module.
ASSUME InitrdAssumption ==
    /\ {Block, NUM_TARFILES} \subseteq Nat \ {0}
    /\ Archives \subseteq Seq([name : STRING \ {""}, type : STRING, size : Digits])
    /\ Strays \subseteq Digits
    /\ Tails \subseteq Int
    /\ TagLists \subseteq Seq([type : STRING, start : Nat, end : Nat])
    /\ \A ts \in TagLists : \E k \in DOMAIN ts : ts[k].type = "MODULE"
    /\ Offsets \subseteq Nat /\ Sizes \subseteq Nat

VARIABLES
    archive, tail, tags,   \* what the boot loader has put into memory
    pc,                    \* "tags", "parse", "nodes", "mounted", or how it went wrong
    module,                \* module_start and module_end of kernel_main
    address, headers, tarfs_files,
    node, i, inode_list,   \* of tarfs_init: local node, index and the list of nodes
    freed,                 \* nodes given back with kfree
    answer,                \* the last file operation and what it answered
    exec                   \* node elf_load works on

boot == <<archive, tail, tags>>
tar == <<module, address, headers, tarfs_files, node, i, inode_list>>
vars == <<boot, pc, tar, freed, answer, exec, elf>>

NULL == 0
DIRECTORY == -1     \* tarfs_root
DEVICE == -2        \* a node of devfs
Stray(digits) == [name |-> "?", type |-> "?", size |-> digits]   \* bytes that are no header
Zeros == [name |-> "", type |-> "AREGTYPE", size |-> <<0, 0, 0>>]
NoAnswer == [op |-> "none"]

Octal(in) == 64 * in[1] + 8 * in[2] + in[3]

\* The sum is taken in 32 bits.
tar_getsize(in) == Octal(in) % Span

(***************************************************************************)
(* Where tar puts the entries of the archive                               *)
(***************************************************************************)
Ceiling(n) == (n + Block - 1) \div Block
Extent(e) == Block * (1 + Ceiling(Octal(e.size)))
Places(a, first) ==
    LET place[k \in 1 .. Len(a) + 1] ==
            IF k = 1 THEN first ELSE place[k - 1] + Extent(a[k - 1])
    IN  place
Start == Places(archive, module.start)
Length(a, t) == Places(a, 0)[Len(a) + 1] + t * Block

\* What may be read as a header: an entry, the zeros after the last one, or,
\* beyond the module and in the middle of an entry, whatever is there.
HeaderAt(a) ==
    CASE \E k \in DOMAIN archive : Start[k] = a /\ a < module.end ->
            {archive[CHOOSE k \in DOMAIN archive : Start[k] = a]}
      [] a >= Start[Len(archive) + 1] /\ a < module.end -> {Zeros}
      [] OTHER -> {Zeros} \union {Stray(digits) : digits \in Strays}

(***************************************************************************)
(* The boot loader's tags.  The end tag is not part of the list.           *)
(***************************************************************************)
Modules(ts) == {k \in DOMAIN ts : ts[k].type = "MODULE"}

\* The last module is the one that kernel_main mounts.
last_module(ts) == ts[Max(Modules(ts))]

\* The loop of pmm_init: its bitmap starts after every module.
bitmap_addr(ts) == Max({0} \union {ts[k].end : k \in Modules(ts)})

\* The mounted module is as long as the archive in it.
Init ==
    /\ archive \in Archives /\ tail \in Tails /\ tags \in TagLists
    /\ last_module(tags).end - last_module(tags).start = Length(archive, tail)
    /\ pc = "tags" /\ module = [start |-> 0, end |-> 0]
    /\ address = 0 /\ headers = <<>> /\ tarfs_files = 0
    /\ node = NULL /\ i = 1 /\ inode_list = <<>>
    /\ freed = {} /\ answer = NoAnswer /\ exec = NULL
    /\ ElfInit

kernel_main ==
    /\ pc = "tags"
    /\ LET m == last_module(tags)
       IN module' = [start |-> m.start, end |-> m.end] /\ address' = m.start
    /\ pc' = "parse"
    /\ UNCHANGED <<boot, headers, tarfs_files, node, i, inode_list, freed, answer, exec, elf>>

\* Mutant: the padding is forgotten.
advance_short(a, size) == (a + ((size \div Block) + 1) * Block) % Span

advance(a, size) ==
    (a + ((size \div Block) + 1) * Block + IF size % Block # 0 THEN Block ELSE 0) % Span

(***************************************************************************)
(* One round of the loop of tar_parse.  The last store may go beyond the   *)
(* end of headers, and what it then hits is not followed.                  *)
(***************************************************************************)
tar_parse ==
    /\ pc = "parse"
    /\ \E h \in HeaderAt(address) :
          \/ h.name = "" /\ pc' = "nodes" /\ UNCHANGED <<address, headers, tarfs_files>>
          \/ h.name # "" /\ tarfs_files >= NUM_TARFILES
             /\ pc' = "overrun" /\ UNCHANGED <<address, headers, tarfs_files>>
          \/ /\ h.name # "" /\ tarfs_files < NUM_TARFILES
             /\ headers' = Append(headers, [at |-> address, name |-> h.name, type |-> h.type,
                                          size |-> tar_getsize(h.size)])
             /\ address' = advance(address, tar_getsize(h.size))
             /\ \/ address' > module.end /\ pc' = "nodes" /\ UNCHANGED tarfs_files
                \/ address' <= module.end /\ tarfs_files' = tarfs_files + 1 /\ UNCHANGED pc
    /\ UNCHANGED <<boot, module, node, i, inode_list, freed, answer, exec, elf>>

\* A node of a regular file is known by its inode, the index of its header;
\* other entries leave the local node at the one made before.
next_node == IF headers[i + 1].type = "REGTYPE" THEN i ELSE node

\* Mutant: the list is kept in the order of the archive.
insert_back(n) == Append(inode_list, n)

list_insert_front(n) == <<n>> \o inode_list

\* One round of the loop of tarfs_init, and its end.
tarfs_init ==
    /\ pc = "nodes"
    /\ \/ /\ i < tarfs_files
          /\ node' = next_node /\ i' = i + 1
          /\ inode_list' = list_insert_front(node')
          /\ UNCHANGED pc
       \/ i >= tarfs_files /\ pc' = "mounted" /\ UNCHANGED <<node, i, inode_list>>
    /\ UNCHANGED <<boot, module, address, headers, tarfs_files, freed, answer, exec, elf>>

(***************************************************************************)
(* File operations.  Nodes are the regular files by their inode, the       *)
(* directory, a device and NULL.  A device has FS_CHARDEVICE, which        *)
(* contains the bit of FS_DIRECTORY, and pointers readdir and finddir that *)
(* nobody has set: what they hold is a choice.                             *)
(***************************************************************************)
Files == {k \in Range(inode_list) : k # NULL}
Nodes == Files \union {NULL, DIRECTORY, DEVICE}
Names == {archive[k].name : k \in DOMAIN archive} \union {"missing"}
directory_bit(n) == n \in {DIRECTORY, DEVICE}
length(k) == headers[k + 1].size

Usable(n) == pc = "mounted" /\ load.at \in {"idle", "done"} /\ n \in Nodes \ freed
Answer(a) == answer' = a /\ UNCHANGED <<boot, tar, freed, exec, elf>>

\* Offset and size are 32 bits wide, and so is their sum.
count_read(k, offset, size) ==
    IF offset > length(k) THEN 0
    ELSE IF Add(offset, size) > length(k) THEN length(k) - offset ELSE size

\* tarfs_read copies from the first byte of the file, whatever the offset.  A device
\* (null, port, com or rand) answers the size; other nodes have no read.
read_fs(n, offset, size) ==
    /\ Usable(n)
    /\ \/ n \in Files /\ Answer([op |-> "read", node |-> n, offset |-> offset, size |-> size,
                                 first |-> 0, count |-> count_read(n, offset, size)])
       \/ n = DEVICE /\ Answer([op |-> "device read", count |-> size])
       \/ n \in {NULL, DIRECTORY} /\ Answer([op |-> "no read", count |-> 0])
    /\ UNCHANGED pc

\* foreach over the list, up to the first node of that name.  Nodes that are NULL
\* are behind all others, and end the search with NULL, found or not.
tarfs_finddir(name) ==
    LET hits == {p \in 1 .. Len(inode_list) :
                    inode_list[p] # NULL /\ headers[inode_list[p] + 1].name = name}
        passed == IF hits # {} THEN Min(hits) ELSE 0
        seen == IF passed = 0 THEN inode_list ELSE SubSeq(inode_list, 1, passed)
    IN /\ pc' = IF Range(seen) \intersect freed # {} THEN "stale" ELSE pc
       /\ Answer([op |-> "finddir", name |-> name,
                  found |-> IF passed = 0 THEN NULL ELSE inode_list[passed]])

\* With a NULL node the name comes from address 0.
tarfs_readdir(index) ==
    LET listed == index < Len(inode_list)
    IN /\ pc' = IF listed /\ inode_list[index + 1] \in freed THEN "stale" ELSE pc
       /\ Answer([op |-> "readdir", index |-> index,
                  inode |-> IF listed THEN inode_list[index + 1] ELSE -1])

finddir_fs(n, name) ==
    /\ Usable(n)
    /\ \/ directory_bit(n) /\ n = DIRECTORY /\ tarfs_finddir(name)
       \/ directory_bit(n) /\ n = DEVICE /\ pc' = "wild" /\ Answer(NoAnswer)
       \/ n # DIRECTORY /\ UNCHANGED pc /\ Answer([op |-> "not a directory", node |-> n])

readdir_fs(n, index) ==
    /\ Usable(n)
    /\ \/ directory_bit(n) /\ n = DIRECTORY /\ tarfs_readdir(index)
       \/ directory_bit(n) /\ n = DEVICE /\ pc' = "wild" /\ Answer(NoAnswer)
       \/ n # DIRECTORY /\ UNCHANGED pc /\ Answer(NoAnswer)

\* The node is freed, and stays in the list it was found in: so are the ramdisk's
\* directory and devices, which are registered.
close_fs(n) ==
    /\ Usable(n) /\ Cardinality(freed) < MaxClosed
    /\ freed' = IF n = NULL THEN freed ELSE freed \union {n}
    /\ answer' = NoAnswer
    /\ UNCHANGED <<boot, pc, tar, exec, elf>>

LoadBinary(n, binary) ==
    /\ Usable(n) /\ n \in Files
    /\ binary.length = length(n)
    /\ elf_load(binary) /\ exec' = n /\ answer' = NoAnswer
    /\ UNCHANGED <<boot, pc, tar, freed>>

\* elf_load closes the node when elf_relocate is through with it.
ElfStep ==
    /\ elf_relocate
    /\ freed' = IF load'.at = "done" THEN freed \union {exec} ELSE freed
    /\ UNCHANGED <<boot, pc, tar, answer, exec>>

Mount == kernel_main \/ tar_parse \/ tarfs_init
Operation ==
    \/ \E n \in Nodes, offset \in Offsets, size \in Sizes : read_fs(n, offset, size)
    \/ \E n \in Nodes, name \in Names : finddir_fs(n, name)
    \/ \E n \in Nodes, index \in 0 .. Len(inode_list) : readdir_fs(n, index)
    \/ \E n \in Nodes : close_fs(n)
    \/ \E n \in Files : \E binary \in Contents(headers[n + 1].name) : LoadBinary(n, binary)

Next == Mount \/ Operation \/ ElfStep

Spec == Init /\ [][Next]_vars

(***************************************************************************)
(* Properties                                                              *)
(***************************************************************************)
\* No size in the archive is longer than 32 bits, and no address of the walk was.
Fits ==
    /\ \A k \in DOMAIN archive : Octal(archive[k].size) < Span
    /\ \A k \in DOMAIN headers : headers[k].at + Block * (1 + Ceiling(headers[k].size)) < Span

\* tar_parse (tarfs.c:18) counts exactly the leading entries that lie in the module
\* with all their data, each at the place where tar put it, whether the archive
\* ends in blocks of zeros, right after the last entry, or was cut short; it runs
\* out of headers only for an archive that has too many entries, or no end mark.
\* All it counts lies below the bitmap that pmm_init has cleared (pmm.c:89) before
\* the walk, in whatever order the boot loader lists its modules.  No size may be so
\* large that the address wraps around (tarfs.c:30): nothing tests for that.
WalkFindsEntries ==
    Fits =>
        /\ pc \in {"nodes", "mounted"} =>
              /\ \A k \in 1 .. tarfs_files :
                    /\ k \in DOMAIN archive /\ headers[k].at = Start[k]
                    /\ headers[k].at + Block + headers[k].size <= bitmap_addr(tags)
              /\ \A k \in DOMAIN archive : k <= tarfs_files <=> Start[k + 1] <= module.end
        /\ pc = "overrun" => Len(archive) > NUM_TARFILES \/ tail <= 0

\* The entries up to k that tarfs_init makes nodes for.
Regular(k) == {l \in 1 .. k : archive[l + 1].type = "REGTYPE"}
Latest(S) == IF S = {} THEN NULL ELSE CHOOSE k \in S : \A l \in S : l <= k

\* finddir in the ramdisk (tarfs.c:79) answers the entry that comes last in the
\* archive among the files (REGTYPE) of that name, as extracting it would, and NULL
\* if there is none, even when other entries precede the first file.  readdir
\* (tarfs.c:53) goes through the archive backwards, one index for each entry but
\* the first, and where the entry is no file it names the file before it once more,
\* or NULL.  A read (tarfs.c:39) answers the number of bytes between the offset and
\* the end of the file, at most those asked for, if offset and size do not exceed
\* 32 bits together; its bytes are bytes of the file, and from offset 0 those that
\* were asked for.
AnswersAreRight ==
    /\ answer.op = "finddir" /\ pc = "mounted" /\ Fits =>
          answer.found = Latest({k \in Regular(tarfs_files - 1) : archive[k + 1].name = answer.name})
    /\ answer.op = "readdir" /\ pc = "mounted" /\ Fits =>
          LET k == tarfs_files - 1 - answer.index
          IN  answer.inode = IF k < 1 THEN -1 ELSE Latest(Regular(k))
    /\ answer.op = "read" /\ answer.offset + answer.size < Span =>
          LET left == length(answer.node) - answer.offset
          IN  /\ answer.count = IF left < 0 THEN 0
                                ELSE IF answer.size < left THEN answer.size ELSE left
              /\ answer.first + answer.count <= length(answer.node)
              /\ answer.offset = 0 => answer.first = 0

\* tarfs.h:16-17 calls both REGTYPE and AREGTYPE a regular file: a file of either type
\* is found by its name.
RegularFilesAreFound ==
    answer.op = "finddir" /\ pc = "mounted" /\ Fits =>
        \A k \in 1 .. tarfs_files - 1 :
            archive[k + 1].type \in {"REGTYPE", "AREGTYPE"} /\ archive[k + 1].name = answer.name
                => answer.found # NULL
=============================================================================
