----------------------------- MODULE MCFileSystem -----------------------------
(* FileSystem for TLC: "d2" begins with "d"; the second device, as in       *)
(* fs_test, is mounted somewhere below the root.                            *)
EXTENDS FileSystem

MCNames == {"root", "d", "d2", "f"}
MCBegins == [n \in MCNames |-> IF n = "d" THEN {"d", "d2"} ELSE {n}]
MCDevices == <<"root", "d2">>
MCDirPaths == {<<"d">>}
MCMountPaths == {<<>>, <<"d">>}
MCPaths == {<<"d", "f">>, <<"d2", "f">>}
MCFlags ==
  {{"O_WRONLY", "O_APPEND"}, {"O_WRONLY", "O_CREAT", "O_TRUNC"},
   {"O_RDWR", "O_TRUNC"}}
MCChunks == {<<"a">>}
MCFds == 3 .. 4

=============================================================================
