---------------------------- MODULE MCStreamSync ----------------------------
(***************************************************************************)
(* Streams of a few items: addresses with the vertices of some of them.    *)
(***************************************************************************)
EXTENDS StreamSync

FirstAndThird == {1, 3}
=============================================================================
