---------------------------- MODULE MCInodeCache ----------------------------
(* Two tasks, of which one mounts, umounts and formats the only disk.        *)
EXTENDS InodeInvariant

MCPaths == {<<"ipwd", 2>>, <<"ipwd", 2, 0>>}
MCSpecials == {<<"ipwd", 3>>, <<"ipwd", 2>>}
=============================================================================
