----------------------------- MODULE MCVfsFiles -----------------------------
(* A file, a device that cannot be written, and a directory. *)
EXTENDS VfsFiles

CONSTANTS reg, dev, dir

MCSize  == [i \in Inodes |-> IF i = reg THEN 1 ELSE 0]
MCSeeks == {<<1, SEEK_SET>>, <<-1, SEEK_CUR>>, <<-2, SEEK_END>>}

=============================================================================
