----------------------------- MODULE FileStore -----------------------------
(***************************************************************************)
(* The file system of the server (fs/fs.c): blocks and their cache, the    *)
(* bitmap, files and directories.  Each function of the code is an         *)
(* operator on the state m of the file system, whose result holds what the *)
(* function returns in err and r:                                          *)
(*                                                                         *)
(*   disk, blk   the blocks on disk and in memory (NULL: not mapped)       *)
(*   dirty       the blocks marked PTE_DIRTY                               *)
(*   freed       history: the blocks that were ever given back             *)
(*   out         the blocks handed to ide_write, in order, not yet on disk *)
(*   err, r      "OK" and a value, or an error code                        *)
(*   health      "ok"; "panic" after user_panic; "stale" when a block is   *)
(*               used for what it does not hold, after which the code may  *)
(*               do anything                                               *)
(*                                                                         *)
(* Sizes are in blocks.  A block holds data, File structures (a directory) *)
(* or block numbers (an indirect block); a block of zeros is any of them.  *)
(***************************************************************************)
EXTENDS Integers, Sequences, FiniteSets, FiniteSetsExt, Loops

CONSTANTS NBLOCK,     \* the blocks of the disk
          NDIRECT,    \* the blocks a File names itself
          NINDIRECT,  \* and with an indirect block
          FILE2BLK,   \* File structures in a block
          Name, NULL

ASSUME SizesAssumption ==
    /\ NBLOCK \in Nat /\ NBLOCK > 3
    /\ NDIRECT \in Nat \ {0} /\ NINDIRECT \in Nat /\ NDIRECT < NINDIRECT
    /\ FILE2BLK \in Nat \ {0}
    /\ NULL \notin Name

Block  == 0 .. NBLOCK - 1
SUPER  == 1
BITMAP == 2
Data   == 3 .. NBLOCK - 1   \* the blocks that are given to files
ROOT   == <<SUPER, 1>>      \* A File is named by its block and its place there.

NoFile    == [name |-> NULL, type |-> "REG", size |-> 0,
              direct |-> [n \in 0 .. NDIRECT - 1 |-> 0], indirect |-> 0]
ZeroBlock == [kind |-> "data", v |-> 0]
Text      == [kind |-> "data", v |-> 1]
Empty(kind) == IF kind = "dir" THEN [kind |-> "dir", v |-> [j \in 1 .. FILE2BLK |-> NoFile]]
               ELSE [kind |-> "index", v |-> [n \in NDIRECT .. NINDIRECT - 1 |-> 0]]

\* What a block may hold.  A directory whose last block could not be had is one longer
\* than a file can be.
FileRec == [name : Name \cup {NULL}, type : {"REG", "DIR"}, size : 0 .. NINDIRECT + 1,
            direct : [0 .. NDIRECT - 1 -> {0} \cup Data], indirect : {0} \cup Data]
Kinds(b) == IF b = SUPER THEN {"super"} ELSE IF b = BITMAP THEN {"bitmap"}
            ELSE IF b \in Data THEN {"data", "dir", "index"} ELSE {"data"}
Values(kind) == CASE kind = "super"  -> [{1} -> FileRec]
                  [] kind = "bitmap" -> SUBSET Data
                  [] kind = "dir"    -> [1 .. FILE2BLK -> FileRec]
                  [] kind = "index"  -> [NDIRECT .. NINDIRECT - 1 -> {0} \cup Data]
                  [] OTHER           -> {0, 1}
Content(kind) == [kind : {kind}, v : Values(kind)]
FilePos == (Data \X (1 .. FILE2BLK)) \cup {ROOT}

ASSUME NullAssumption ==
    NULL \notin FilePos /\ \A b \in Block : \A kind \in Kinds(b) : NULL \notin Content(kind)

IsZero(c) == IF c.kind = "data" THEN c.v = 0 ELSE c = Empty(c.kind)

OK(m)      == m.err = "OK" /\ m.health = "ok"
Ret(m, r)  == [m EXCEPT !.err = "OK", !.r = r]
Err(m, e)  == [m EXCEPT !.err = e]
Sick(m, h) == [m EXCEPT !.health = IF @ = "ok" THEN h ELSE @, !.err = "E_SICK"]

\* The next step of a function, if the last one did not fail.
Then(m, op(_))   == IF OK(m) THEN op(m) ELSE m

FileAt(m, f)        == m.blk[f[1]].v[f[2]]
SetFile(m, f, rec)  == [m EXCEPT !.blk[f[1]].v[f[2]] = rec]
SetSize(m, f, size) == SetFile(m, f, [FileAt(m, f) EXCEPT !.size = size])
SetName(m, f, name) == SetFile(m, f, [FileAt(m, f) EXCEPT !.name = name])
SetType(m, f, type) == SetFile(m, f, [FileAt(m, f) EXCEPT !.type = type])

-----------------------------------------------------------------------------
(* Blocks *)

dirty_block(m, b) == IF m.blk[b] = NULL THEN Err(m, "E_NOT_FOUND")
                     ELSE Ret([m EXCEPT !.dirty = @ \cup {b}], 0)

write_block(m, b) == [m EXCEPT !.out = Append(@, <<b, m.blk[b]>>)]

block_is_free(m, b) == b \in m.blk[BITMAP].v

ide_read(m, b) == m.disk[b]

read_block(m, b) ==
    IF b \notin Block \/ block_is_free(m, b) THEN Sick(m, "panic")
    ELSE Ret([m EXCEPT !.blk[b] = IF @ = NULL THEN ide_read(m, b) ELSE @], b)

\* A block read for its File structures or its block numbers.
ReadAs(m, b, kind) ==
    Then(read_block(m, b),
         LAMBDA x : IF x.blk[b].kind = kind THEN x
                    ELSE IF IsZero(x.blk[b]) THEN [x EXCEPT !.blk[b] = Empty(kind)]
                    ELSE Sick(x, "stale"))

\* Only in memory: the bitmap is not written.
free_block(m, b) ==
    IF b = 0 THEN m ELSE [m EXCEPT !.blk[BITMAP].v = @ \cup {b}, !.freed = @ \cup {b}]

\* Mutant of alloc_block_num: the bitmap is not written.
alloc_block_numQuiet(m) ==
    IF m.blk[BITMAP].v = {} THEN Err(m, "E_NO_DISK")
    ELSE LET b == Min(m.blk[BITMAP].v) IN Ret([m EXCEPT !.blk[BITMAP].v = @ \ {b}], b)

alloc_block_num(m) ==
    IF m.blk[BITMAP].v = {} THEN Err(m, "E_NO_DISK")
    ELSE LET b == Min(m.blk[BITMAP].v)
         IN Ret(write_block([m EXCEPT !.blk[BITMAP].v = @ \ {b}], BITMAP), b)

\* map_block gives a page of zeros to a block that is not in memory.  A block that is,
\* keeps what it held before it was freed.
alloc_block(m) ==
    Then(alloc_block_num(m),
         LAMBDA x : [x EXCEPT !.blk[x.r] = IF @ = NULL \/ IsZero(@) THEN ZeroBlock ELSE Text])

\* A block for the file f.  That of a file still open whose directory was removed may be
\* the very block that holds f.
alloc_for(m, f) ==
    LET x == alloc_block(m) IN IF OK(x) /\ x.r = f[1] THEN Sick(m, "stale") ELSE x

-----------------------------------------------------------------------------
(* The blocks of a file *)

Ptr(m, f, n) == IF n < NDIRECT THEN FileAt(m, f).direct[n]
                ELSE m.blk[FileAt(m, f).indirect].v[n]
SetPtr(m, f, n, b) ==
    IF n < NDIRECT THEN SetFile(m, f, [FileAt(m, f) EXCEPT !.direct[n] = b])
    ELSE [m EXCEPT !.blk[FileAt(m, f).indirect].v[n] = b]

\* Afterwards Ptr(m, f, n) can be read.
file_block_walk(m, f, n, alloc) ==
    IF n < NDIRECT THEN Ret(m, 0)
    ELSE IF n >= NINDIRECT THEN Err(m, "E_INVAL")
    ELSE IF FileAt(m, f).indirect # 0 THEN ReadAs(m, FileAt(m, f).indirect, "index")
    ELSE IF ~alloc THEN Err(m, "E_NOT_FOUND")
    ELSE Then(alloc_for(m, f),
              LAMBDA x : ReadAs(SetFile(x, f, [FileAt(x, f) EXCEPT !.indirect = x.r]),
                                x.r, "index"))

file_map_block(m, f, n, alloc) ==
    Then(file_block_walk(m, f, n, alloc),
         LAMBDA w : IF Ptr(w, f, n) # 0 THEN Ret(w, Ptr(w, f, n))
                    ELSE IF ~alloc THEN Err(w, "E_NOT_FOUND")
                    ELSE Then(alloc_for(w, f), LAMBDA a : SetPtr(a, f, n, a.r)))

\* Mutant of file_clear_block: the pointer stays.
file_clear_blockKept(m, f, n) ==
    Then(file_block_walk(m, f, n, FALSE), LAMBDA w : Ret(free_block(w, Ptr(w, f, n)), 0))

file_clear_block(m, f, n) ==
    Then(file_block_walk(m, f, n, FALSE),
         LAMBDA w : Ret(SetPtr(free_block(w, Ptr(w, f, n)), f, n, 0), 0))

file_get_block(m, f, n) ==
    Then(file_map_block(m, f, n, TRUE), LAMBDA x : read_block(x, x.r))

file_dirty(m, f, n) ==
    Then(file_map_block(m, f, n, FALSE), LAMBDA x : dirty_block(x, x.r))

\* A block that is missing is skipped.
flush_found(x) == IF OK(x) /\ x.r \in x.dirty THEN write_block(x, x.r) ELSE Ret(x, 0)
flush_block(m, f, n) == flush_found(file_map_block(m, f, n, FALSE))

file_flush(m, f) == Loop(LAMBDA x, n : flush_block(x, f, n), m, 0, FileAt(m, f).size)

\* The whole disk, except that of what is not marked PTE_DIRTY nothing is written.
sync_block(m, b) == IF b \in m.dirty THEN write_block(m, b) ELSE m
fs_sync(m) == Loop(sync_block, m, 0, NBLOCK)

\* panic_on(file_clear_block): a file that has more than NDIRECT blocks by its size but
\* no indirect block.
panic_on(x) == IF OK(x) THEN x ELSE Sick(x, "panic")
clear_block(m, f, n) == panic_on(file_clear_block(m, f, n))

clear_blocks(m, f, size) ==
    Loop(LAMBDA x, n : clear_block(x, f, n), m, size, FileAt(m, f).size)

shorten(x, f, size) ==
    LET rec   == FileAt(x, f)
        given == free_block(x, rec.indirect)
    IN IF size > NDIRECT \/ x.health # "ok" THEN SetSize(x, f, size)
       ELSE SetFile(given, f, [rec EXCEPT !.size = size, !.indirect = 0])
file_truncate(m, f, size) == shorten(clear_blocks(m, f, size), f, size)

\* The pointer f leads into a block that is something else by now.
stale(m, f) == f # NULL /\ m.blk[f[1]].kind \notin {"dir", "super"}

\* The end of a request: what follows the pointer f_dir flushes the directory, if any.
FlushDir(m, dir) == IF m.health = "ok" /\ stale(m, dir) THEN Sick(m, "stale")
                    ELSE Ret(IF m.health = "ok" /\ dir # NULL THEN file_flush(m, dir) ELSE m, 0)

file_set_size(m, dir, f, size) ==
    FlushDir(IF FileAt(m, f).size > size THEN file_truncate(m, f, size)
             ELSE SetSize(m, f, size), dir)

-----------------------------------------------------------------------------
(* Directories.  f_dir, which dir_lookup stores in the File it finds, is    *)
(* passed along as dir.                                                     *)

\* The i-th block of a directory; one that is missing is allocated.
DirBlock(m, dir, i) ==
    Then(file_get_block(m, dir, i), LAMBDA x : ReadAs(x, x.r, "dir"))

\* The first File of the directory whose name is name.
look_in(m, name) ==
    LET at == {j \in 1 .. FILE2BLK : m.blk[m.r].v[j].name = name}
    IN IF at = {} THEN Err(m, "E_NOT_FOUND") ELSE Ret(m, <<m.r, Min(at)>>)
look(m, dir, name, i) ==
    IF m.err # "E_NOT_FOUND" THEN m
    ELSE Then(DirBlock(m, dir, i), LAMBDA x : look_in(x, name))

Scan(m, dir, name) ==
    Loop(LAMBDA x, i : look(x, dir, name, i), Err(m, "E_NOT_FOUND"), 0, FileAt(m, dir).size)

dir_lookup(m, dir, name) == Scan(m, dir, name)

\* A free File has no name.  If there is none, the directory gets a block more, and its
\* first File is taken to be free.
dir_alloc_file(m, dir) ==
    LET n == FileAt(m, dir).size
        x == Scan(m, dir, NULL)
    IN IF x.err # "E_NOT_FOUND" THEN x
       ELSE Then(DirBlock(SetSize(x, dir, n + 1), dir, n), LAMBDA y : Ret(y, <<y.r, 1>>))

\* Returns the directory and the File, or the directory only when just the last name of
\* the path is missing.
enter(m, path, i) ==
    LET dir  == m.r.file
        x    == dir_lookup(m, dir, path[i])
        none == [dir |-> NULL, file |-> NULL]
        last == IF x.err = "E_NOT_FOUND" /\ i = Len(path) THEN [none EXCEPT !.dir = dir]
                ELSE none
    IN IF ~OK(m) THEN m
       ELSE IF FileAt(m, dir).type # "DIR" THEN Err(Ret(m, none), "E_NOT_FOUND")
       ELSE IF OK(x) THEN Ret(x, [dir |-> dir, file |-> x.r])
       ELSE Err(Ret(x, last), x.err)

walk_path(m, path) ==
    Loop(LAMBDA x, i : enter(x, path, i), Ret(m, [dir |-> NULL, file |-> ROOT]), 1, Len(path) + 1)

file_open(m, path) == walk_path(m, path)

\* Only the name is set: of a File that was removed the type is still there.
add_file(w, name) ==
    LET x == dir_alloc_file(w, w.r.dir)
    IN IF w.err = "OK" THEN Err(w, "E_FILE_EXISTS")
       ELSE IF w.err # "E_NOT_FOUND" \/ w.r.dir = NULL THEN w
       ELSE IF x.err # "OK" THEN Err(x, "E_NOT_FOUND")
       ELSE SetName(x, x.r, name)
file_create(m, path) == add_file(walk_path(m, path), path[Len(path)])

\* Mutant of file_close: the block of the directory is not marked.
file_closeUnmarked(m, dir, f) == FlushDir(file_flush(m, f), dir)

\* The block of the directory that holds the File is marked, and written with the
\* others that are.
mark_found(x, f) ==
    LET y == read_block(x, x.r)
    IN IF ~OK(x) THEN Err(x, "E_BREAK")
       ELSE IF ~OK(y) \/ y.r = f[1] THEN Err(IF OK(y) THEN dirty_block(y, y.r) ELSE y, "E_BREAK")
       ELSE y
mark(m, dir, f, i) ==
    IF m.err # "OK" THEN m ELSE mark_found(file_map_block(m, dir, i, FALSE), f)

mark_blocks(m, dir, f) ==
    Loop(LAMBDA x, i : mark(x, dir, f, i), Ret(m, 0), 0, FileAt(m, dir).size)

file_close(m, dir, f) ==
    LET x == file_flush(m, f)
    IN FlushDir(IF dir = NULL \/ stale(x, dir) THEN x ELSE mark_blocks(x, dir, f), dir)

cut_file(m, dir, f) ==
    LET x == file_truncate(m, f, 0)
    IN FlushDir(IF x.health # "ok" THEN x ELSE file_flush(SetName(x, f, NULL), f), dir)
file_remove(m, path) ==
    Then(walk_path(m, path), LAMBDA w : cut_file(w, w.r.dir, w.r.file))

-----------------------------------------------------------------------------
(* The blocks B of a disk, as the places that hold a block number.  Place   *)
(* <<b, j, n>> is pointer n of the j-th File of b, NINDIRECT the one to the *)
(* indirect block; or, for j = 0, the n-th number of an indirect block.     *)

PtrAt(B, b, j, n) ==
    IF B[b].kind \in {"dir", "super"} /\ j \in DOMAIN B[b].v
    THEN IF n < NDIRECT THEN B[b].v[j].direct[n]
         ELSE IF n = NINDIRECT THEN B[b].v[j].indirect ELSE 0
    ELSE IF B[b].kind = "index" /\ j = 0 /\ n \in NDIRECT .. NINDIRECT - 1 THEN B[b].v[n]
    ELSE 0
BlockAt(B, b, j, n) ==
    IF n < NDIRECT THEN PtrAt(B, b, j, n) ELSE PtrAt(B, PtrAt(B, b, j, NINDIRECT), 0, n)
SizeAt(B, b, j) ==
    IF B[b].kind \in {"dir", "super"} /\ j \in DOMAIN B[b].v THEN B[b].v[j].size ELSE 0
\* The name of the j-th File of b, and of the k-th in the n-th block of that File.
NameAt(B, b, j) == IF B[b].kind = "dir" THEN B[b].v[j].name ELSE NULL
NameIn(B, b, j, n, k) == NameAt(B, BlockAt(B, b, j, n), k)

Pointers(B) == {PtrAt(B, b, j, n) : b \in Block, j \in 0 .. FILE2BLK, n \in 0 .. NINDIRECT}

\* No block is in two places, and none that is in one is free; a directory has no two
\* Files of one name, and none past its size.
Owned(B, free) ==
    /\ \A b, c \in Block, j, k \in 0 .. FILE2BLK, n, i \in 0 .. NINDIRECT :
          PtrAt(B, b, j, n) # 0 /\ PtrAt(B, b, j, n) = PtrAt(B, c, k, i) => b = c /\ j = k /\ n = i
    /\ \A b \in Block, j \in 0 .. FILE2BLK, n \in 0 .. NINDIRECT : PtrAt(B, b, j, n) \notin free
    /\ \A b \in Block, j, k, l \in 1 .. FILE2BLK, n, i \in 0 .. NINDIRECT - 1 :
          NameIn(B, b, j, n, k) # NULL /\ NameIn(B, b, j, n, k) = NameIn(B, b, j, i, l)
              => n = i /\ k = l
    /\ \A b \in Block, j, k \in 1 .. FILE2BLK, n \in 0 .. NINDIRECT - 1 :
          n >= SizeAt(B, b, j) => NameIn(B, b, j, n, k) = NULL
=============================================================================
