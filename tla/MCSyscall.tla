------------------------------ MODULE MCSyscall ------------------------------
(***************************************************************************)
(* Syscall with two files and two handles, paths that fit, are unknown or  *)
(* are too long, and pointers to read-only and writable memory, to the     *)
(* last byte of a page and to nothing.                                     *)
(***************************************************************************)
EXTENDS Syscall

CONSTANTS b, blank, hello, notes, long, none, cut, x, y

MCText == <<b>>
MCPointers ==
    {[null |-> TRUE, readable |-> 0, writable |-> 0],
     [null |-> FALSE, readable |-> 0, writable |-> 0],
     [null |-> FALSE, readable |-> 3, writable |-> 0],
     [null |-> FALSE, readable |-> 1, writable |-> 1],
     [null |-> FALSE, readable |-> 3, writable |-> 3]}
MCPaths ==
    {[name |-> hello, length |-> 2], [name |-> notes, length |-> 2], [name |-> long, length |-> 3]}
MCDescriptors ==
    [high : {0}, low : {0, 1, 3, 4}] \cup [high : {1}, low : {0, 1}]
MCSizes == {0, 1, 2, 3}

=============================================================================
