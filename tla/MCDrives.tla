------------------------------ MODULE MCDrives ------------------------------
(* Drives on small instances for TLC. *)
EXTENDS Drives, TLC

CONSTANTS s1, s2    \* two connections

\* Two drives: packages on both, one level down, too deep, and in a directory
\* that is passed.
MCRoots == <<<<"usb0">>, <<"usb1">>>>

MCPkg == {"p.pkg", "q.pkg"}

MCDirs == {<<>>, <<"usb0">>, <<"usb0", "a">>, <<"usb0", "a", "b">>, <<"usb0", ".git">>, <<"usb1">>}

MCFiles == {<<"usb0", "p.pkg">>, <<"usb0", "a", "q.pkg">>, <<"usb0", "a", "b", "p.pkg">>,
            <<"usb0", ".git", "p.pkg">>, <<"usb1", "p.pkg">>, <<"usb1", "q.pkg">>}

MCName == STRING

MCNode == MCDirs \cup MCFiles \cup {<<"usb1", "a">>}

\* Everything, a tree with room for changes and a file that is no package, and
\* no drive.
MCFirstTree ==
    {<<MCDirs, MCFiles>>,
     <<MCDirs \ {<<"usb0", "a", "b">>}, {<<"usb0", "p.pkg">>, <<"usb1", "a">>}>>,
     <<{<<>>}, {}>>}

MCAbsolute == {<<"usb0">>, <<"usb0", "a", "q.pkg">>}

MCRelative == {<<"a">>, <<"..">>, <<"a", "">>, <<"p.pkg">>}

\* One connection, two beside each other, one beside a scan and beside two.
MCPlans ==
    {[commands |-> (s1 :> n[1] @@ s2 :> n[2]), refreshes |-> n[3]] :
        n \in {<<5, 0, 0>>, <<2, 2, 0>>, <<2, 0, 1>>, <<1, 0, 2>>}}

MCProcess == <<"">>
=============================================================================
