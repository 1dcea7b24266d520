------------------------------ MODULE MCStreams ------------------------------
(***************************************************************************)
(* What is read and written: files, or one of the parts of MCHttp.  The    *)
(* part that moves is chosen at the beginning.                             *)
(***************************************************************************)
EXTENDS FileSave, MCHttp

\* Of the kinds of names only the files' part needs more than one.
StreamsInit ==
    /\ Init
    /\ \/ InitPart /\ path = "no slash"
       \/ part = "files" /\ H!InitOf(NoStream) /\ Idle

StreamsNext ==
    \/ part # "files" /\ Move /\ UNCHANGED vars
    \/ part = "files" /\ Next /\ UNCHANGED allVars

StreamsSpec == StreamsInit /\ [][StreamsNext]_<<vars, allVars>>

-----------------------------------------------------------------------------
\* Inodes are alike, and those that nothing refers to are made empty when they are used again:
\* two states of the files in which the same references go to the same inode, and those have
\* the same chunks, go on alike.  TLC keeps one of them.
References == <<dir["file"], dir["temp"], pdir["file"], pdir["temp"], in, out>>

Referred(k) ==
    LET i == References[k]
    IN  IF i = None THEN <<>> ELSE <<{j \in 1..6 : References[j] = i}, mem[i], disk[i]>>

StreamsView ==
    <<[k \in 1..6 |-> Referred(k)], path, save, arg, acked, tried, load, got, cut, allVars>>

=============================================================================
