----------------------------- MODULE MCVfsNames -----------------------------
(* A disk with a directory that holds one a failed mkdir has left without  *)
(* its "..", and four directories of other filesystems, one holding a      *)
(* device and one a directory of its own.                                  *)
EXTENDS VfsNames

CONSTANTS disk, subdir, half, free, devdir, procdir, otherdir, fourth, kbd, piddir

MCNames == {"a", "b", "long", ".", ".."}
MCNameLen == [n \in MCNames |-> CASE n = "long" -> 4 [] n = ".." -> 2 [] OTHER -> 1]

MCDisk == {disk, subdir, half, free}
MCRoots == {devdir, procdir, otherdir, fourth}
MCInodes == MCDisk \cup MCRoots \cup {kbd, piddir}

Nothing == [n \in MCNames |-> NoInode]
MCKind0 == [i \in MCInodes |-> CASE i \in MCRoots \cup {disk, subdir, half, piddir} -> "dir"
                                 [] i = kbd -> "file" [] OTHER -> "none"]
MCEntry0 ==
  [i \in MCInodes |->
     CASE i = disk    -> [Nothing EXCEPT !["."] = disk, ![".."] = disk, !["a"] = subdir]
       [] i = subdir  -> [Nothing EXCEPT !["."] = subdir, ![".."] = disk, !["a"] = half]
       [] i = half    -> [Nothing EXCEPT !["."] = half]
       [] i = devdir  -> [Nothing EXCEPT !["b"] = kbd]
       [] i = procdir -> [Nothing EXCEPT !["a"] = piddir]
       [] OTHER       -> Nothing]

(* Absolute or not, slashes doubled and trailing, ".." in the middle and  *)
(* at the end, a name and a path that are too long.                        *)
MCPaths ==
  { <<>>, <<"a">>,
    <<"/">>, <<"/", "/", "a", "/">>, <<"/", "b">>,
    <<"/", "a", "/", "/", "b">>, <<"/", "a", "/", "a">>, <<"/", "a", "/", "a", "/", "..">>,
    <<"/", "long">>, <<"/", "a", "/", "..", "/", "b">>,
    <<"/", "a", "/", "/", "/", "/", "/", "b">> }

(* the roots with nothing inside are alike *)
MCSymmetry == Permutations({otherdir, fourth})

=============================================================================
