------------------------------ MODULE MCShell ------------------------------
EXTENDS Shell, TLC

MCTask == {0, 1}
MCDigits == <<"0", "1", "2", "3", "4", "5", "6", "7", "8", "9">>
Driver(name, via, kind, minor, impl, sectors, caps) ==
  [name |-> name, via |-> via, kind |-> kind, major |-> IF kind = "char" THEN 1 ELSE 3, minor |-> minor,
   impl |-> impl, sectors |-> sectors, caps |-> caps]

(* The entry with no implementation is the one every reader must step over.  *)
MCBoot == << Driver(<<"k">>, "chardev", "char", 1, "kbd", 0, {"read"}),
             Driver(<<"x">>, "dev", "char", 3, "none", 0, {}),
             Driver(<<"h">>, "blockdev", "block", 0, "hda", 2, {"read", "write"}) >>
MCDrivers ==
  { MCBoot[1], MCBoot[2], MCBoot[3],
    Driver(<<"c">>, "chardev", "char", 2, "con", 0, {"write"}),
    Driver(<<"k">>, "blockdev", "block", 1, "hdb", 1, {"read"}) }

Cmd(cmd, fs, name, n) == [cmd |-> cmd, fs |-> fs, name |-> name, n |-> n]
Shell0 ==
  { Cmd("ls", "dev", <<>>, 0), Cmd("ls", "proc", <<>>, 0),
    Cmd("cat", "dev", <<"k">>, 0), Cmd("cat", "dev", <<"c">>, 0),
    Cmd("cat", "dev", <<"h">>, 3), Cmd("cat", "dev", <<"h">>, 0),
    Cmd("cat", "status", <<"0">>, 0), Cmd("ls", "proc", <<"1">>, 0) }
Other == { Cmd("ls", "dev", <<>>, 0) }
MCCommands == (0 :> Shell0 @@ 1 :> Other)

MCTypedAhead == { <<"a", "nl", "a">> }

NamesCommands == [t \in MCTask |-> { Cmd("cat", "status", <<"1">>, 0), Cmd("cat", "status", <<"0", "1">>, 0) }]
ListingCommands == [t \in MCTask |-> { Cmd("ls", "proc", <<>>, 0) }]
=============================================================================
