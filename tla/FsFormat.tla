------------------------------ MODULE FsFormat ------------------------------
(***************************************************************************)
(* The tool that builds the disk image (tools/fsformat.c).  The state d is *)
(* the array disk, nextbno as next, and what the last function returned    *)
(* as r.  A tree of the host is a sequence of entries: a file has a size   *)
(* in blocks, a directory has entries.                                     *)
(***************************************************************************)
EXTENDS FileStore, SequencesExt

DirFile(d, f)      == d.disk[f[1]].v[f[2]]
next_block(d, c)   == [d EXCEPT !.disk[d.next] = c, !.next = @ + 1, !.r = d.next]

init_disk ==
    [disk |-> [b \in Block |-> IF b = SUPER
                               THEN [kind |-> "super", v |-> <<[NoFile EXCEPT !.type = "DIR"]>>]
                               ELSE IF b = BITMAP THEN [kind |-> "bitmap", v |-> Block]
                               ELSE ZeroBlock],
     next |-> 3, r |-> 0]

flush_bitmap(d) == [d EXCEPT !.disk[BITMAP].v = @ \ (0 .. d.next - 1)]

save_block_link(d, f, n, b) ==
    LET x == IF DirFile(d, f).indirect # 0 THEN d ELSE next_block(d, Empty("index"))
        y == IF DirFile(d, f).indirect # 0 THEN d
             ELSE [x EXCEPT !.disk[f[1]].v[f[2]].indirect = x.r]
    IN IF n < NDIRECT THEN [d EXCEPT !.disk[f[1]].v[f[2]].direct[n] = b]
       ELSE [y EXCEPT !.disk[DirFile(y, f).indirect].v[n] = b]

make_link_block(d, dirf, n) ==
    LET x == next_block(d, Empty("dir"))
        y == save_block_link(x, dirf, n, x.r)
    IN [y EXCEPT !.disk[dirf[1]].v[dirf[2]].size = @ + 1, !.r = x.r]

\* The first File without a name, or the first one of a block more.
create_file(d, dirf) ==
    LET dir == DirFile(d, dirf)
        bno(i) == IF i < NDIRECT THEN dir.direct[i] ELSE d.disk[dir.indirect].v[i]
        free == {<<i, j>> \in (0 .. dir.size - 1) \X (1 .. FILE2BLK) :
                     d.disk[bno(i)].v[j].name = NULL}
        first == CHOOSE p \in free :
                     \A q \in free : p[1] < q[1] \/ (p[1] = q[1] /\ p[2] <= q[2])
        x == make_link_block(d, dirf, dir.size)
    IN IF free # {} THEN [d EXCEPT !.r = <<bno(first[1]), first[2]>>]
       ELSE [x EXCEPT !.r = <<x.r, 1>>]

write_file(d, dirf, e) ==
    LET c == create_file(d, dirf)
        f == c.r
        x == [c EXCEPT !.disk[f[1]].v[f[2]] = [@ EXCEPT !.name = e.name, !.size = e.size]]
        link(y, n) == LET z == next_block(y, Text) IN save_block_link(z, f, n, z.r)
    IN Loop(link, x, 0, e.size)

RECURSIVE write_directory(_, _, _)
write_directory(d, dirf, e) ==
    LET c == create_file(d, dirf)
        f == c.r
        x == [c EXCEPT !.disk[f[1]].v[f[2]] = [@ EXCEPT !.name = e.name, !.type = "DIR"]]
        write(y, g) == IF g.type = "DIR" THEN write_directory(y, f, g) ELSE write_file(y, f, g)
    IN FoldLeft(write, x, e.entries)

\* main: the image of a host tree.
Image(tree) ==
    LET write(y, g) == IF g.type = "DIR" THEN write_directory(y, ROOT, g)
                       ELSE write_file(y, ROOT, g)
    IN flush_bitmap(FoldLeft(write, init_disk, tree)).disk
=============================================================================
