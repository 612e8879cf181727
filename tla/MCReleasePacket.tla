-------------------------- MODULE MCReleasePacket --------------------------
(***************************************************************************)
(* Two calls given one directory, two project files, packets damaged once. *)
(***************************************************************************)
EXTENDS ReleasePacket

CONSTANTS f1, f2  \* the project files

ReleaseFiles == <<f1, f2>>

AnyCall == Permutations(Producers)

=============================================================================
