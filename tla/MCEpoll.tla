------------------------------ MODULE MCEpoll ------------------------------
(***************************************************************************)
(* Model checking EpollTable.  A first descriptor watches two sockets, two *)
(* more watch one of them, which is more descriptors than the table has    *)
(* entries.  The latter two and the data are only compared, so each kind   *)
(* is interchangeable.                                                     *)
(***************************************************************************)
EXTENDS EpollTable, TLC

CONSTANTS e1, e2, e3, f1, f2

Descriptors == {e1, e2, e3}

Sockets == {f1, f2}

WatchedBy == {<<e1, f1>>, <<e1, f2>>, <<e2, f1>>, <<e3, f1>>}

OneWatchesAll == {e1} \X Sockets

Symmetry == Permutations({e2, e3}) \cup Permutations(Data)
=============================================================================
