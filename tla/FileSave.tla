------------------------------ MODULE FileSave ------------------------------
(***************************************************************************)
(* File::save and File::load (src/src/lib/file/File.cpp), one system call  *)
(* at a time, on a file system that may crash between any two of them.     *)
(* ConfigFile and StateSaver save through File::save, and so do their      *)
(* contents.                                                               *)
(*                                                                         *)
(* The file system is external: a directory and inodes, each with what the *)
(* running system sees (dir, mem) and what is on disk (pdir, disk).  The   *)
(* system writes back what it likes when it likes; fsync forces one file   *)
(* or the directory; a crash leaves what is on disk.  Renaming is atomic,  *)
(* and directory changes reach the disk in order.                          *)
(*                                                                         *)
(* There are two names, the file and its temporary (filename + "~tmp~"). A *)
(* content is written, and read, in two chunks, so that a file may hold a  *)
(* part of one, or parts of two.                                           *)
(***************************************************************************)
EXTENDS Naturals, Sequences, TLC

CONSTANTS
    Content,   \* what callers of save() give it
    Inode,
    None,      \* no inode, no content
    Path       \* what the file's name may look like to dirname()

Kinds == {"in directory", "no slash", "in root"}

ASSUME PathAssumption == Path \subseteq Kinds
ASSUME NoneAssumption == None \notin Content \cup Inode

Name == {"file", "temp"}

VARIABLES
    dir, pdir,    \* the directory in memory and on disk
    mem, disk,    \* the chunks of each inode in memory and on disk
    path,         \* what the file's name looks like
    save,         \* where save() is; "idle" between calls
    arg, out,     \* its contents argument and the inode it writes
    acked,        \* the contents of the last save() that returned true
    tried,        \* the contents of the calls of save() begun since
    load, in,     \* where load() is, and the inode it reads
    got, cut      \* what it has appended, and whether one of its freads failed

fsVars == <<dir, pdir, mem, disk, path>>
saveVars == <<save, arg, out, acked, tried>>
loadVars == <<load, in, got, cut>>
vars == <<fsVars, saveVars, loadVars>>

Whole(c) == <<c, c>>
Wholes == {Whole(c) : c \in Content}
Chunks == Seq(Content)

\* Types, and: from open to rename the temporary is the inode save() writes.
TypeOK ==
    /\ dir \in [Name -> Inode \cup {None}]
    /\ pdir \in [Name -> Inode \cup {None}]
    /\ mem \in [Inode -> Chunks]
    /\ disk \in [Inode -> Chunks]
    /\ path \in Path
    /\ save \in {"idle", "write", "sync", "rename", "syncdir"}
    /\ arg \in IF save = "idle" THEN {None} ELSE Content
    /\ out \in Inode \cup {None}
    /\ save \in {"write", "sync", "rename"} => dir["temp"] = out /\ out # None
    /\ acked \in Content \cup {None}
    /\ tried \subseteq Content
    /\ load \in {"idle", "read"}
    /\ in \in IF load = "idle" THEN {None} ELSE Inode
    /\ got \in Chunks
    /\ cut \in BOOLEAN

Init ==
    /\ dir = [n \in Name |-> None] /\ pdir = dir
    /\ mem = [i \in Inode |-> <<>>] /\ disk = mem
    /\ path \in Path
    /\ save = "idle" /\ arg = None /\ out = None
    /\ acked = None /\ tried = {}
    /\ load = "idle" /\ in = None /\ got = <<>> /\ cut = FALSE

-----------------------------------------------------------------------------
(* save() *)

\* save() returns.
Returns(answer) ==
    /\ save' = "idle" /\ arg' = None /\ out' = None
    /\ acked' = IF answer THEN arg ELSE acked
    /\ tried' = IF answer THEN {} ELSE tried

Used == {dir[n] : n \in Name} \cup {pdir[n] : n \in Name} \cup {in}

\* A variant for the mutation runs: the file is opened in place of a temporary, which the
\* model shows as one that has the file's own inode.
OpenTarget(c) ==
    /\ save = "idle"
    /\ LET i == IF dir["file"] # None THEN dir["file"] ELSE CHOOSE j \in Inode : j \notin Used
       IN  /\ dir' = [dir EXCEPT !["temp"] = i]
           /\ mem' = [mem EXCEPT ![i] = <<>>]
           /\ out' = i
           /\ UNCHANGED disk
    /\ save' = "write" /\ arg' = c
    /\ tried' = tried \cup {c}
    /\ UNCHANGED <<pdir, path, acked, loadVars>>

\* std::ofstream out(tempfile): an old temporary is truncated, a new one made.
OpenTemp(c) ==
    /\ save = "idle"
    /\ \/ /\ dir["temp"] # None
          /\ out' = dir["temp"]
          /\ mem' = [mem EXCEPT ![out'] = <<>>]
          /\ UNCHANGED <<dir, disk>>
       \/ /\ dir["temp"] = None
          /\ out' \in Inode \ Used
          /\ dir' = [dir EXCEPT !["temp"] = out']
          /\ mem' = [mem EXCEPT ![out'] = <<>>]
          /\ disk' = [disk EXCEPT ![out'] = <<>>]
    /\ save' = "write" /\ arg' = c
    /\ tried' = tried \cup {c}
    /\ UNCHANGED <<pdir, path, acked, loadVars>>

\* out << contents, out.close().
WriteChunk ==
    /\ save = "write" /\ Len(mem[out]) < 2
    /\ mem' = [mem EXCEPT ![out] = Append(@, arg)]
    /\ UNCHANGED <<dir, pdir, disk, path, saveVars, loadVars>>

\* A variant for the mutation runs: the temporary is cleaned up before its time.
CloseRemovesTemp ==
    /\ save = "write" /\ Len(mem[out]) = 2
    /\ save' = "sync"
    /\ dir' = [dir EXCEPT !["temp"] = None]
    /\ UNCHANGED <<pdir, mem, disk, path, arg, out, acked, tried, loadVars>>

CloseTemp ==
    /\ save = "write" /\ Len(mem[out]) = 2
    /\ save' = "sync"
    /\ UNCHANGED <<fsVars, arg, out, acked, tried, loadVars>>

\* A variant for the mutation runs: the contents are not forced to disk.
NoSyncTemp ==
    /\ save = "sync"
    /\ save' = "rename"
    /\ UNCHANGED <<fsVars, arg, out, acked, tried, loadVars>>

\* flush(tempfile)
SyncTemp ==
    /\ save = "sync"
    /\ disk' = [disk EXCEPT ![dir["temp"]] = mem[dir["temp"]]]
    /\ save' = "rename"
    /\ UNCHANGED <<dir, pdir, mem, path, arg, out, acked, tried, loadVars>>

Rename ==
    /\ save = "rename"
    /\ dir' = [dir EXCEPT !["file"] = dir["temp"], !["temp"] = None]
    /\ save' = "syncdir"
    /\ UNCHANGED <<pdir, mem, disk, path, arg, out, acked, tried, loadVars>>

\* A variant for the mutation runs: the directory is not flushed.
ReturnAtOnce ==
    /\ save = "syncdir"
    /\ Returns(TRUE)
    /\ UNCHANGED <<fsVars, loadVars>>

\* flush(dirname(filename)).  dirname() cuts the name at its last slash: a name without one
\* is its own dirname, and that of a name in the root is "", which cannot be opened.
SyncDirectory ==
    /\ save = "syncdir"
    /\ pdir' = IF path = "in directory" THEN dir ELSE pdir
    /\ disk' = IF path = "no slash" THEN [disk EXCEPT ![dir["file"]] = mem[dir["file"]]] ELSE disk
    /\ Returns(path # "in root")
    /\ UNCHANGED <<dir, mem, path, loadVars>>

\* Any call but the first may fail (a full disk, an I/O error), and save() returns false
\* with what it has done left as it is.
Fail ==
    /\ save # "idle"
    /\ Returns(FALSE)
    /\ UNCHANGED <<fsVars, loadVars>>

-----------------------------------------------------------------------------
(* load(), on another thread or in another process *)

OpenFile ==
    /\ load = "idle" /\ dir["file"] # None
    /\ load' = "read" /\ in' = dir["file"] /\ got' = <<>> /\ cut' = FALSE
    /\ UNCHANGED <<fsVars, saveVars>>

\* fread: the next chunk of the inode that was opened.
ReadChunk ==
    /\ load = "read" /\ Len(got) < Len(mem[in])
    /\ got' = Append(got, mem[in][Len(got) + 1])
    /\ UNCHANGED <<fsVars, saveVars, load, in, cut>>

\* An fread fails.  The loop takes it for the end of the file, and load() returns true with
\* what the ones before it have read.
ReadFails ==
    /\ load = "read"
    /\ load' = "idle" /\ in' = None /\ cut' = TRUE
    /\ UNCHANGED <<fsVars, saveVars, got>>

CloseFile ==
    /\ load = "read" /\ Len(got) >= Len(mem[in])
    /\ load' = "idle" /\ in' = None
    /\ UNCHANGED <<fsVars, saveVars, got, cut>>

-----------------------------------------------------------------------------
(* The system *)

WriteBack ==
    /\ \/ pdir' = dir /\ UNCHANGED disk
       \/ \E i \in Inode : disk' = [disk EXCEPT ![i] = mem[i]] /\ UNCHANGED pdir
    /\ UNCHANGED <<dir, mem, path, saveVars, loadVars>>

Crash ==
    /\ dir' = pdir /\ mem' = disk
    /\ save' = "idle" /\ arg' = None /\ out' = None
    /\ load' = "idle" /\ in' = None /\ got' = <<>> /\ cut' = FALSE
    /\ UNCHANGED <<pdir, disk, path, acked, tried>>

Next ==
    \/ \E c \in Content : OpenTemp(c)
    \/ WriteChunk \/ CloseTemp \/ SyncTemp \/ Rename \/ SyncDirectory \/ Fail
    \/ OpenFile \/ ReadChunk \/ ReadFails \/ CloseFile
    \/ WriteBack \/ Crash

Spec == Init /\ [][Next]_vars

\* For the model checker: nothing tells one content, or one inode, from another.
Alike == Permutations(Content) \cup Permutations(Inode)

-----------------------------------------------------------------------------
\* What the file would hold if the system crashed now.
OnDisk == IF pdir["file"] = None THEN <<>> ELSE disk[pdir["file"]]

\* The file is never seen, by the running system or after a crash, with anything but all of
\* what one call of save() was given.
OldOrNew ==
    /\ dir["file"] # None => mem[dir["file"]] \in Wholes
    /\ pdir["file"] # None => disk[pdir["file"]] \in Wholes

\* What load() has appended is the beginning of what one save() was given, and all of it when
\* load() has returned and no fread failed, whatever save() does to the file in the meantime
\* (File.cpp:61-68: of a load() that was cut short the answer is true as well).
LoadOfOneSave ==
    \/ got = <<>>
    \/ \E c \in Content : got = <<c>> /\ (load = "read" \/ cut)
    \/ got \in Wholes

\* The contents acknowledged last, and those of the calls of save() since.
Latest == {Whole(c) : c \in tried \cup {acked}}

\* What save() returned true for survives a crash: the file has those contents, or those of
\* a later call (File.cpp:49, "must also flush the directory, see man fsync(2)").
Durable == acked # None => OnDisk \in Latest

\* It does if the file's name has a slash in it.
DurableWithSlash == path # "no slash" => Durable

\* Whatever the name looks like: once what was acknowledged last, or something later, is on
\* disk, no write, rename, write-back, failure or crash puts anything older there, or less,
\* until the next save() returns true.
NeverBack ==
    [][acked # None /\ acked' = acked /\ tried \subseteq tried' /\ OnDisk \in Latest
           => OnDisk' \in Latest]_vars

=============================================================================
