--------------------------- MODULE MCProcessCreate ---------------------------
(***************************************************************************)
(* ProcessCreate with tables of five entries, and any amount of memory     *)
(* from none to enough for both processes.  The image is, as on the real   *)
(* machine, in a root entry of its own, and memory goes on in the next.    *)
(***************************************************************************)
EXTENDS ProcessCreate

Section(first, last) == [start |-> first, end |-> last]
MCText == Section(50, 52)
MCUserText == Section(52, 54)
MCUserRodata == Section(54, 55)
MCRodata == Section(55, 55)
MCData == Section(55, 57)
MCRamEnds == 57 .. 124

=============================================================================
