------------------------------- MODULE Paths -------------------------------
(* Names of files as they are typed, and what a library call sends to the   *)
(* file server (user/lib/file.c).  A typed name is the names between its    *)
(* slashes and whether it begins with one; a path the server gets, or the   *)
(* directory a process works in, begins at the root.                        *)
EXTENDS Integers, Sequences, Loops

Typed(segs) == [abs |-> FALSE, segs |-> segs]
Rooted(segs) == [abs |-> TRUE, segs |-> segs]

(* cat2Path: path1 is taken as it is, of path2 "." is nothing and ".." takes *)
(* the last name away, of the root nothing.                                  *)
push(path, s) ==
    CASE s = "."  -> path
      [] s = ".." -> IF path = <<>> THEN path ELSE SubSeq(path, 1, Len(path) - 1)
      [] OTHER    -> Append(path, s)

cat2Path(path1, path2) ==
    Loop(LAMBDA path, i : push(path, path2.segs[i]),
         IF path2.abs THEN <<>> ELSE path1, 1, Len(path2.segs) + 1)
=============================================================================
