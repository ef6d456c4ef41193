--------------------------- MODULE MCRirudProtocol ---------------------------
(* Instances of RirudProtocol for TLC: at most two modules, the first with two libraries. *)
EXTENDS RirudProtocol

SmallLists == {<<>>, <<1, 0>>, <<2, 0>>, <<0, 1>>}

\* The second list has a library with a long id, the third one with a long version name.
OneLongId == {<<1, 2>>}
OneLongVersion == {<<2, 1>>}

WrappingSizes == {0, 3, 4}
=============================================================================
