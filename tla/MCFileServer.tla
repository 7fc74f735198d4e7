---------------------------- MODULE MCFileServer ----------------------------
(* Instances of FileServer for TLC. *)
EXTENDS FileServer

FileBytesAndTokens == 0 .. 4 \cup {Zero, HeadToken, TextToken}
SomeSizes == 0 .. 4
SomeNumbers == {0, 1, 3, 4, 5, 40}
=============================================================================
