----------------------------- MODULE FileServer -----------------------------
(***************************************************************************)
(* The file server (fs/serv.c), its clients (user/lib/file.c, fsipc.c) and *)
(* the disk.                                                               *)
(*                                                                         *)
(* The server serves one request after the other.  What a request writes   *)
(* reaches the disk block by block before it is answered, and the power    *)
(* may go between two blocks.  A library call of a client is a series of   *)
(* requests: those of other clients come in between, and a client stores   *)
(* into the pages it has mapped at any time.                               *)
(***************************************************************************)
EXTENDS FileStore, Paths

CONSTANTS Client,
          Word,      \* what is typed to name a file: see Paths
          MAXOPEN,
          Disk,      \* the disk the system is first started with: see FsFormat
          MaxCalls,  \* bound on library calls and power failures
          MaxBoots   \* bound on power failures

ASSUME ServerAssumption ==
    /\ IsFiniteSet(Client) /\ MAXOPEN \in Nat /\ MaxCalls \in Nat /\ MaxBoots \in Nat
    /\ \A w \in Word : w.abs \in BOOLEAN /\ w.segs \in Seq(Name \cup {".", ".."})

ASSUME DiskAssumption ==
    /\ Disk = [b \in Block |-> Disk[b]]
    /\ \A b \in Block : Disk[b].kind \in Kinds(b) /\ Disk[b] \in Content(Disk[b].kind)
    /\ Owned(Disk, Disk[BITMAP].v)

FileId == 0 .. MAXOPEN - 1

VARIABLES
    fs,       \* the state of the file system: see FileStore
    offs,     \* the file ids whose page o_ff is allocated
    opentab,  \* o_file, with its f_dir
    ffsize,   \* f_size in the struct Filefd of the page o_ff, shared with the clients
    fd,       \* the file a client has open
    map,      \* and the blocks of it that are mapped in the client
    cwd,      \* r_path: the directory the client works in
    job,      \* the library call a client is in
    calls, boots,
    last      \* the last request, while its blocks are written and until the next one

clients == <<offs, opentab, ffsize, fd, map, cwd, job>>
vars == <<fs, offs, opentab, ffsize, fd, map, cwd, job, calls, boots, last>>

\* init_shell: an empty r_path becomes that of the root.
StartDir == [c \in Client |-> <<>>]
Idle   == [op |-> "idle", n |-> 0, to |-> 0, old |-> 0, path |-> NULL]
NoMap  == [n \in 0 .. NINDIRECT - 1 |-> 0]
NoFd   == [dir |-> NULL, file |-> NULL]
NoLast == [op |-> "none", at |-> NoFd, whom |-> NULL]

\* read_super and read_bitmap: nothing else is in memory.
Booted(disk, freed) ==
                [disk |-> disk, freed |-> freed,
                 blk |-> [b \in Block |-> IF b \in {SUPER, BITMAP} THEN disk[b] ELSE NULL],
                 dirty |-> {}, out |-> <<>>, err |-> "OK", r |-> 0, health |-> "ok"]

\* The server is in ipc_recv.
Ready == fs.health = "ok" /\ fs.out = <<>>

\* A request of c is served.  The reply is sent when all blocks are written.
Served(c, m, op) ==
    /\ fs' = [m EXCEPT !.err = "OK", !.r = 0]
    /\ last' = [op |-> op, at |-> IF op = "close" THEN opentab[fd[c]] ELSE NoFd,
                whom |-> IF m.out = <<>> THEN NULL ELSE c]

\* The page o_ff is mapped by the server and the clients that have the file open.
pageref(i) == Cardinality({c \in Client : fd[c] = i}) + (IF i \in offs THEN 1 ELSE 0)

\* Mutant of open_alloc: a file that one client has open is taken too.
open_allocTwo == {i \in FileId : pageref(i) <= 2}
\* The first entry that only the server maps, if any.
open_alloc == {i \in FileId : pageref(i) <= 1}

Alloced(i) == offs \cup {i}

\* The file client c has open.
Opened(c) == opentab[fd[c]]
-----------------------------------------------------------------------------
(* What the server does for a request *)

\* The entry is known by its page only.  The code then follows the pointers o_file and
\* f_dir; after a directory was removed they may point into a block that is something
\* else by now.
open_lookup(c) ==
    IF pageref(fd[c]) <= 1 THEN Err(fs, "E_INVAL")
    ELSE IF stale(fs, Opened(c).file) \/ stale(fs, Opened(c).dir) THEN Sick(fs, "stale")
    ELSE fs

\* The reply has a copy of the File.
serve_open(path, trunc) ==
    Then(file_open(fs, path),
         LAMBDA m : LET x == IF trunc THEN Ret(file_set_size(m, m.r.dir, m.r.file, 0), m.r) ELSE m
                    IN IF stale(x, m.r.file) THEN Sick(x, "stale") ELSE x)

serve_map(c, n) ==
    Then(open_lookup(c), LAMBDA m : file_get_block(m, Opened(c).file, n))

serve_set_size(c, size) ==
    Then(open_lookup(c), LAMBDA m : file_set_size(m, Opened(c).dir, Opened(c).file, size))

serve_dirty(c, n) ==
    Then(open_lookup(c), LAMBDA m : file_dirty(m, Opened(c).file, n))

serve_close(c) ==
    Then(open_lookup(c), LAMBDA m : file_close(m, Opened(c).dir, Opened(c).file))

serve_remove(path) == file_remove(fs, path)

serve_sync == fs_sync(fs)

serve_create(path, type) ==
    Then(file_create(fs, path), LAMBDA m : SetType(m, m.r, type))
-----------------------------------------------------------------------------
(* The library calls of a client, a request each step *)

\* c is in the library call op, and does not wait for a reply.
May(c, op) == fs.health = "ok" /\ last.whom # c /\ job[c].op = op
\* The loop of a library call goes on to the next block.
NextBlock(j) == [j EXCEPT !.n = @ + 1]
\* c makes a library call.
Call(c)    == May(c, "idle") /\ calls < MaxCalls /\ calls' = calls + 1
Done(c)    == job' = [job EXCEPT ![c] = Idle]

\* The end of a call that may be a cd.
sys_set_rpath(c, path) == IF path = NULL THEN cwd ELSE [cwd EXCEPT ![c] = path]

\* fd_close, of a file of which the client then has the blocks pages mapped.
Closed(c, pages) == /\ fd' = [fd EXCEPT ![c] = NULL] /\ map' = [map EXCEPT ![c] = pages]
                    /\ Done(c)
                    /\ cwd' = sys_set_rpath(c, job[c].path)

\* The path a word names for a client: what syscall_get_rpath and cat2Path make of it.
PathOf(c, word) == cat2Path(cwd[c], word)

\* file_close() of the library: an FSREQ_DIRTY for each block, then FSREQ_CLOSE.
Closing(i, path) == [Idle EXCEPT !.op = IF ffsize[i] = 0 THEN "close" ELSE "dirty",
                                 !.to = ffsize[i], !.path = path]

\* The answer m to an open, with the entry i of opentab.
Opens(c, i, m) ==
    /\ Served(c, m, "none")
    /\ offs' = Alloced(i)
    /\ IF OK(m) THEN /\ opentab' = [opentab EXCEPT ![i] = m.r]
                     /\ ffsize' = [ffsize EXCEPT ![i] = FileAt(m, m.r.file).size]
                     /\ fd' = [fd EXCEPT ![c] = i]
       ELSE UNCHANGED <<opentab, ffsize, fd>>

\* The first request of open(), after which c has the file open if it was found.
fsipc_open(c, path, trunc) ==
    /\ Call(c) /\ Ready /\ fd[c] = NULL
    /\ open_alloc # {}
    /\ Opens(c, Min(open_alloc), serve_open(path, trunc))
    /\ UNCHANGED <<map, cwd, boots>>

\* The File that c has just opened.
Found(c) == FileAt(fs', opentab'[fd'[c]].file)

\* open() without O_CREAT: an FSREQ_MAP for each block to follow.
open(c, path, trunc) ==
    /\ fsipc_open(c, path, trunc)
    /\ job' = [job EXCEPT ![c] = IF fd'[c] = NULL \/ Found(c).size = 0 THEN Idle
                                 ELSE [Idle EXCEPT !.op = "open", !.to = Found(c).size]]

\* open() with O_CREAT: a file that is there stays open, and 1 is returned for it.
openCreat(c, path) ==
    /\ fsipc_open(c, path, FALSE)
    /\ job' = [job EXCEPT ![c] = IF fd'[c] # NULL THEN Idle
                                 ELSE [Idle EXCEPT !.op = "create", !.path = path]]

\* stat() opens the file, maps its blocks, looks at the type in the copy it got, and
\* closes it.  What is a directory becomes the working directory dir, if that is given.
stat(c, path, dir) ==
    /\ fsipc_open(c, path, FALSE)
    /\ job' = [job EXCEPT ![c] =
                  IF fd'[c] = NULL THEN Idle
                  ELSE [Idle EXCEPT !.op = IF Found(c).size = 0 THEN "close" ELSE "stat",
                                    !.to = Found(c).size,
                                    !.path = IF Found(c).type = "DIR" THEN dir ELSE NULL]]

\* _cd(): stat() and, of a directory, chdir().
cd(c, path) == stat(c, path, path)

\* fsipc_map(), in the loops of open() and ftruncate().
fsipc_map(c, op) ==
    /\ May(c, op) /\ op \in {"open", "stat", "grow"} /\ Ready
    /\ LET m == serve_map(c, job[c].n)
       IN /\ Served(c, m, "none")
          /\ map' = IF OK(m) THEN [map EXCEPT ![c][job[c].n] = m.r] ELSE map
          /\ job' = [job EXCEPT ![c] =
                        IF OK(m) /\ @.n + 1 < @.to THEN NextBlock(@)
                        ELSE IF OK(m) /\ op = "stat" THEN Closing(fd[c], @.path)
                        ELSE IF OK(m) \/ op # "grow" THEN Idle
                        ELSE [@ EXCEPT !.op = "undo"]]
    /\ UNCHANGED <<offs, opentab, ffsize, fd, cwd, calls, boots>>

\* ftruncate(), which file_write calls to make the file larger.
ftruncate(c, size) ==
    /\ Call(c) /\ Ready /\ fd[c] # NULL
    /\ LET old == ffsize[fd[c]]
       IN /\ Served(c, serve_set_size(c, size), "none")
          /\ ffsize' = [ffsize EXCEPT ![fd[c]] = size]
          /\ map' = [map EXCEPT ![c] = [n \in DOMAIN @ |-> IF n >= size THEN 0 ELSE @[n]]]
          /\ job' = [job EXCEPT ![c] = IF size <= old THEN Idle ELSE
                        [Idle EXCEPT !.op = "grow", !.n = old, !.to = size, !.old = old]]
    /\ UNCHANGED <<offs, opentab, fd, cwd, boots>>

\* A page could not be mapped: ftruncate() sets the old size, but not in the Filefd.
Undo(c) ==
    /\ May(c, "undo") /\ Ready
    /\ Served(c, serve_set_size(c, job[c].old), "none")
    /\ Done(c)
    /\ UNCHANGED <<offs, opentab, ffsize, fd, map, cwd, calls, boots>>

\* The memcpy of file_write: the page is the one in the cache of the server.
store(c, n) ==
    /\ May(c, "idle") /\ fd[c] # NULL /\ map[c][n] # 0
    /\ LET b == map[c][n]
       IN fs' = IF fs.blk[b].kind = "data" \/ IsZero(fs.blk[b]) THEN [fs EXCEPT !.blk[b] = Text]
                ELSE Sick(fs, "stale")
    /\ last' = [NoLast EXCEPT !.whom = last.whom] /\ UNCHANGED <<clients, calls, boots>>

close(c) ==
    /\ Call(c) /\ fd[c] # NULL
    /\ job' = [job EXCEPT ![c] = Closing(fd[c], NULL)]
    /\ UNCHANGED <<fs, offs, opentab, ffsize, fd, map, cwd, boots, last>>

fsipc_dirty(c) ==
    /\ May(c, "dirty") /\ Ready
    /\ LET m == serve_dirty(c, job[c].n)
       IN /\ Served(c, m, "none")
          /\ IF OK(m) THEN /\ job' = [job EXCEPT ![c] = IF @.n + 1 < @.to
                                         THEN NextBlock(@)
                                         ELSE [@ EXCEPT !.op = "close"]]
                           /\ UNCHANGED <<fd, map, cwd>>
             ELSE Closed(c, map[c])
    /\ UNCHANGED <<offs, opentab, ffsize, calls, boots>>

fsipc_close(c) ==
    /\ May(c, "close") /\ Ready
    /\ Served(c, serve_close(c), "close")
    /\ Closed(c, [n \in DOMAIN map[c] |-> IF n < job[c].to THEN 0 ELSE map[c][n]])
    /\ UNCHANGED <<offs, opentab, ffsize, calls, boots>>

remove(c, path) ==
    /\ Call(c) /\ Ready
    /\ Served(c, serve_remove(path), "none")
    /\ UNCHANGED <<clients, boots>>

\* create(), which only mkdir calls.
create(c, path) ==
    /\ Call(c) /\ Ready
    /\ Served(c, serve_create(path, "DIR"), "none")
    /\ UNCHANGED <<clients, boots>>

\* The second request of open() with O_CREAT: another client may have been faster.
fsipc_create(c) ==
    /\ May(c, "create") /\ Ready
    /\ Served(c, serve_create(job[c].path, "REG"), "none")
    /\ Done(c)
    /\ UNCHANGED <<offs, opentab, ffsize, fd, map, cwd, calls, boots>>

sync(c) ==
    /\ Call(c) /\ Ready
    /\ Served(c, serve_sync, "sync")
    /\ UNCHANGED <<clients, boots>>

\* The pages of an open file are shared with the children, which get a copy of r_path.
fork(c, d) ==
    /\ Call(c) /\ May(d, "idle") /\ fd[c] # NULL /\ fd[d] = NULL
    /\ fd' = [fd EXCEPT ![d] = fd[c]] /\ map' = [map EXCEPT ![d] = map[c]]
    /\ cwd' = [cwd EXCEPT ![d] = cwd[c]]
    /\ UNCHANGED <<fs, offs, opentab, ffsize, job, boots, last>>

\* A client is destroyed; its mappings go.
Die(c) ==
    /\ fd[c] # NULL /\ last.whom # c
    /\ fd' = [fd EXCEPT ![c] = NULL] /\ map' = [map EXCEPT ![c] = NoMap] /\ Done(c)
    /\ UNCHANGED <<fs, offs, opentab, ffsize, cwd, calls, boots, last>>

\* ide_write
DiskWrite ==
    /\ fs.out # <<>>
    /\ fs' = [fs EXCEPT !.disk[fs.out[1][1]] = fs.out[1][2], !.out = Tail(@)]
    /\ last' = IF Tail(fs.out) = <<>> THEN [last EXCEPT !.whom = NULL] ELSE last
    /\ UNCHANGED <<clients, calls, boots>>

\* The power fails, and the system is started again.
Reboot ==
    /\ boots < MaxBoots /\ boots' = boots + 1
    /\ calls < MaxCalls /\ calls' = calls + 1
    /\ fs' = Booted(fs.disk, fs.freed)
    /\ offs' = {} /\ fd' = [c \in Client |-> NULL] /\ map' = [c \in Client |-> NoMap]
    /\ opentab' = [i \in FileId |-> NoFd] /\ ffsize' = [i \in FileId |-> 0]
    /\ cwd' = StartDir
    /\ job' = [c \in Client |-> Idle] /\ last' = NoLast

Init ==
    /\ fs = Booted(Disk, {})
    /\ offs = {} /\ fd = [c \in Client |-> NULL] /\ map = [c \in Client |-> NoMap]
    /\ opentab = [i \in FileId |-> NoFd] /\ ffsize = [i \in FileId |-> 0]
    /\ cwd = StartDir
    /\ job = [c \in Client |-> Idle] /\ calls = 0 /\ boots = 0 /\ last = NoLast

Next ==
    \/ \E c \in Client :
          \/ \E p \in {PathOf(c, w) : w \in Word} :
                \/ open(c, p, TRUE) \/ open(c, p, FALSE) \/ openCreat(c, p) \/ cd(c, p)
                \/ remove(c, p) \/ create(c, p)
          \/ fsipc_map(c, "open") \/ fsipc_map(c, "stat") \/ fsipc_map(c, "grow") \/ Undo(c)
          \/ \E size \in 0 .. NINDIRECT : ftruncate(c, size)
          \/ \E n \in 0 .. NINDIRECT - 1 : store(c, n)
          \/ close(c) \/ fsipc_dirty(c) \/ fsipc_close(c) \/ fsipc_create(c) \/ sync(c) \/ Die(c)
          \/ \E d \in Client : fork(c, d)
    \/ DiskWrite \/ Reboot

Spec == Init /\ [][Next]_vars

-----------------------------------------------------------------------------
(* Properties *)

\* A block as the server sees it, and as it is found after a power failure.
InMemory == [b \in Block |-> IF fs.blk[b] # NULL THEN fs.blk[b] ELSE fs.disk[b]]
OnDisk   == fs.disk

\* The files of a tree, through B: the root, and the Files of the directories.
File(B, f)       == B[f[1]].v[f[2]]
BlockOf(B, f, n) == BlockAt(B, f[1], f[2], n)
Within(B, dirs) ==
    UNION {{<<BlockOf(B, f, n), j>> : n \in 0 .. NINDIRECT - 1, j \in 1 .. FILE2BLK} :
               f \in {g \in dirs : File(B, g).type = "DIR"}}
Entries(B, dirs) == {e \in Within(B, dirs) : e[1] # 0 /\ B[e[1]].kind = "dir"}
Named(B, files)  == {e \in files : File(B, e).name # NULL}
Files(B) == LET top == Entries(B, {ROOT})
            IN {ROOT} \cup top \cup Entries(B, Named(B, top))
Places(B) == LET files == Files(B)
             IN {<<f, n, BlockOf(B, f, n)>> : f \in files, n \in 0 .. NINDIRECT - 1}
                \cup {<<f, NINDIRECT, File(B, f).indirect>> : f \in files}
Used(B) == {p \in Places(B) : p[3] # 0}

Healthy == fs.health = "ok" /\ boots = 0

\* Type invariant of the server, its open table and its clients.
TypeOK ==
    /\ DOMAIN fs.disk = Block /\ DOMAIN fs.blk = Block
    /\ fs.dirty \subseteq {b \in Block : fs.blk[b] # NULL}
    /\ fs.health \in {"ok", "panic", "stale"}
    /\ offs \subseteq FileId /\ fd \in [Client -> FileId \cup {NULL}]
    /\ \A c \in Client : fd[c] # NULL => fd[c] \in offs
    /\ ffsize \in [FileId -> 0 .. NINDIRECT + 1]
    /\ map \in [Client -> [0 .. NINDIRECT - 1 -> Block]]
    /\ cwd \in [Client -> Seq(Name)]
    /\ \A e \in Named(InMemory, Files(InMemory)) \ {ROOT} : File(InMemory, e).name \in Name
    /\ boots \in 0 .. MaxBoots

\* As long as the server is healthy no block belongs to two files, or twice to one: the
\* bitmap and the pointers of the files are changed in one request.
NoSharedBlock ==
    Healthy => LET used == Used(InMemory) IN \A p, q \in used : p[3] = q[3] => p = q

\* A block of a file is marked as used: free_block is called after the last pointer to
\* the block is gone, or is about to go.
UsedMarked == Healthy => \A p \in Used(InMemory) : p[3] \notin fs.blk[BITMAP].v

\* A directory has no two files of one name, although a directory may lose and get
\* Files in any of its blocks.
UniqueNames ==
    Healthy => \A d \in Named(InMemory, Files(InMemory)) \cup {ROOT} :
        LET names == Named(InMemory, Entries(InMemory, {d}))
        IN \A e, f \in names : File(InMemory, e).name = File(InMemory, f).name => e = f

\* What the server works on is well formed: blocks, bitmap and directories agree after
\* any sequence of requests (fs/fs.c 171-230, 355-480, 498-571, 700-743, 810-832).  This
\* is so until the server first uses a block for what it does not hold (NeverStale) or
\* panics (NoPanic), and until the power first fails (DiskSound).
StoreSound == TypeOK /\ NoSharedBlock /\ UsedMarked /\ UniqueNames

\* At any moment, between two writes of a request too, and after power failures: a block
\* that a File or an indirect block on disk names is marked as used on disk, unless it
\* was given back at some time.  alloc_block_num (fs/fs.c 209-225) writes the bitmap
\* before the pointer to the block can be written.
DiskMarked == Pointers(OnDisk) \cap OnDisk[BITMAP].v \subseteq fs.freed

\* The file f has a place in the directory dir.
InDir(dir, f) == \E n \in 0 .. File(InMemory, dir).size - 1 : BlockOf(InMemory, dir, n) = f[1]

\* When close() has returned, the File is on disk, if its directory still has it, and so
\* are those of its first blocks that a request has marked: other requests may come
\* between those that mark the pages and the one that writes them.
ClosedIsOnDisk ==
    fs.health = "ok" /\ fs.out = <<>> /\ last.op = "close" /\ last.at.dir # NULL
                    /\ InDir(last.at.dir, last.at.file) =>
        LET f == last.at.file
        IN /\ File(OnDisk, f) = File(InMemory, f)
           /\ \A n \in 0 .. NDIRECT - 1 :
                 LET b == BlockOf(InMemory, f, n)
                 IN n < File(InMemory, f).size /\ b \in fs.dirty => OnDisk[b] = InMemory[b]

\* A file id a client holds stays its file: an entry of opentab is reused only when no
\* client maps its page, however the client went.
OpenStable ==
    [][\A c \in Client : fd[c] # NULL /\ fd'[c] = fd[c]
                             => opentab'[fd[c]] = opentab[fd[c]]]_vars

\* A block that a file on disk has is never free on disk, so that it is not given away
\* when the power fails and the system is started again.  Violated: free_block does not
\* write the bitmap (fs/fs.c 192), but the next alloc_block_num does, and the File that
\* was cut or removed may not be on disk by then.
DiskSound == \A p \in Used(OnDisk) : p[3] \notin OnDisk[BITMAP].v

\* The server never uses a block for what it does not hold.  Violated: map_block leaves
\* a block that is in memory as it was when it was freed (fs/fs.c 136-144, 227-245), and
\* dir_alloc_file takes such a block for Files (fs/fs.c 563-570).
NeverStale == fs.health # "stale"

\* The server never panics.  Violated: file_set_size makes a file longer without blocks
\* (fs/fs.c 729-743), and the panic_on of file_truncate (fs/fs.c 715) finds no indirect
\* block when the file is cut again.
NoPanic == fs.health # "panic"

\* After sync(), the disk holds every file ("Sync the entire file system", fs/fs.c).
SyncedIsOnDisk ==
    fs.out = <<>> /\ last.op = "sync" =>
        \A f \in Named(InMemory, Files(InMemory)) : fs.disk[f[1]] = InMemory[f[1]]
=============================================================================
