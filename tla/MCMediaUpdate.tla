--------------------------- MODULE MCMediaUpdate ---------------------------
(***************************************************************************)
(* Two updaters, one loader on the ESP, one runtime file on NEXTDATA.      *)
(***************************************************************************)
EXTENDS MediaUpdate

CONSTANTS loader, runtime, v1, v2, volA

Item(target, new) == [target |-> target, new |-> new]

\* A full update listing the loader first, and a loaders-only downgrade.
MCPayloads == {<<Item(loader, v2), Item(runtime, v2)>>, <<Item(loader, v1)>>}

\* A loader of version 1, a volume without the runtime and one with version 1.
MCInitial ==
  {[place \in Places |-> IF place[1] = volA THEN Absent ELSE v1]}
=============================================================================
