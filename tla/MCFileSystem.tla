---------------------------- MODULE MCFileSystem ----------------------------
(***************************************************************************)
(* FileSystem on small tables.  "long" is a name copy_name cannot store,   *)
(* and the prefix it leaves behind is a name that a file may have.         *)
(***************************************************************************)
EXTENDS FileSystem

CONSTANTS a, b

MCText == <<a>>

\* Descriptors.cfg: one byte value and one byte per file; the buffer does not fit.
MCOneBuffer == {<<a, a>>}

\* FileData.cfg: two byte values, so that an overwritten byte differs from what it
\* replaces; the longest buffer does not fit in an empty file of three bytes.
MCBuffers == {<<b>>, <<a, b>>, <<b, a, b, a>>}

=============================================================================
