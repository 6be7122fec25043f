---------------------------------- MODULE Rite ---------------------------------
(* The ireps of the generator in a file: compile_tree_impl (handlers.rs) writes *)
(* the root, and the file is read and written again, with and without its debug *)
(* section.                                                                     *)
EXTENDS Ireps, Wire

VARIABLE file   \* the bytes written, when they are

vars == <<generator, file>>

Init == Opened /\ file = <<>>

\* compile_tree_impl.
Compiled(stripped) ==
  Model(IF stripped THEN ClearDebug[root[1]] ELSE root[1], IF anyLv THEN <<lvarNames>> ELSE <<>>,
        <<>>)
Dump(stripped) ==
  /\ root # <<>> /\ file = <<>>
  /\ file' = <<[bytes |-> WriteRite(Compiled(stripped)), stripped |-> stripped]>>
  /\ UNCHANGED generator

Next ==
  \/ Works /\ UNCHANGED file
  \/ \E stripped \in BOOLEAN : Dump(stripped)

Spec == Init /\ [][Next]_vars

--------------------------------------------------------------------------------
(* Properties.                                                                  *)

Written == file # <<>>
ReadBack == ReadRite(file[1].bytes)

\* The lengths written ahead of the sections, and of the packed line maps, are those
\* of what follows: the reader and both debug assertions agree with the two size passes
\* (writer.rs irep_own_size, lv_records_size, write_rite; debug.rs pack_line_map).
MapsFit(top) ==
  \A irep \in Parts[top] : \A i \in DOMAIN irep.debug : \A j \in DOMAIN irep.debug[i].files :
    LET f == irep.debug[i].files[j] IN Len(PackLineMap(f.start, f.lines)) = PackedSize(f.start, f.lines)
SizesFit ==
  Written => /\ Len(file[1].bytes) = BinarySize(Compiled(file[1].stripped))
             /\ MapsFit(root[1])

\* A file that is read and written again is the same, byte for byte (writer.rs roundtrip).
RewriteIsIdentity == Written => /\ ReadBack # <<>> /\ WriteRite(ReadBack[1]) = file[1].bytes

\* Leaving the debug section out of a file is as good as never having written one
\* (debug.rs without_debug, clear_debug; verify compares such files).
StripsAlike == Written => WriteRite(Strip(ReadBack[1])) = WriteRite(Compiled(TRUE))
================================================================================
