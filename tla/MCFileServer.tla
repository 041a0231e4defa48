---------------------------- MODULE MCFileServer ----------------------------
(* The file server with a full root directory: a file of one block and a directory. *)
EXTENDS FileServer, FsFormat

CONSTANTS one, two, sub
MCName == {one, two, sub}
MCWord == {Typed(<<one>>), Typed(<<"..", two>>), Typed(<<".", sub>>)}
MCTree == <<[name |-> one, type |-> "REG", size |-> 1],
            [name |-> sub, type |-> "DIR", entries |-> <<>>]>>
MCDisk == Image(MCTree)

\* And a disk that the two blocks of one file and its indirect block fill.
MCFull == Image(<<[name |-> one, type |-> "REG", size |-> 2],
                  [name |-> sub, type |-> "DIR", entries |-> <<>>]>>)
Symmetry == Permutations(Client)
=============================================================================
