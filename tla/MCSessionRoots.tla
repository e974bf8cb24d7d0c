--------------------------- MODULE MCSessionRoots ---------------------------
(***************************************************************************)
(* SessionRoots on two concurrent calls and a client that moves twice      *)
(* between two URIs and an empty list.  The server was launched in a third *)
(* directory.                                                              *)
(***************************************************************************)
EXTENDS SessionRoots, TLC

CONSTANTS uriA, uriB, dirA, dirB, dirLaunch

MCUris  == {uriA, uriB}
MCDirs  == {dirA, dirB, dirLaunch}
MCDirOf == (uriA :> dirA) @@ (uriB :> dirB)

=============================================================================
