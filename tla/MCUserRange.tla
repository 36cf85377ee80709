----------------------------- MODULE MCUserRange -----------------------------
(***************************************************************************)
(* UserRange with pages of three bytes, four of them in the user half, and *)
(* addresses beyond what a table tells apart.                              *)
(***************************************************************************)
EXTENDS UserRange

Invalid == {}
KernelRW == {"V", "R", "W"}
UserRX == {"V", "U", "R", "X"}
UserRW == {"V", "U", "R", "W"}
Pointer == {"V", "U"}      \* valid, but no leaf

\* The pages of the user half are anything, those of the other half are the kernel's.
MCTables ==
    {[i \in Indices |-> IF i < 4 THEN half[i] ELSE KernelRW] :
        half \in [0..3 -> {Invalid, KernelRW, UserRX, UserRW}]}
      \cup {[i \in Indices |-> IF i < 4 THEN Pointer ELSE KernelRW], NoTable}

MCAddresses == {0, 1, 2, 3, 4, 5, 8, 10, 11, 12, 24, 25, 47}
MCLengths == {0, 1, 2, 3, 4, 5, 7, 9, 12, 24, 46, 47}
MCRequests == {{"R"}, {"W"}}

=============================================================================
