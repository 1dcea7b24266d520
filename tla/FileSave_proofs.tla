--------------------------- MODULE FileSave_proofs ---------------------------
(***************************************************************************)
(* FileSave, for every set of contents, of inodes and of kinds of names:   *)
(* the file is whole at all times (FileIsWhole), what is loaded is of one  *)
(* save, and all of it unless an fread failed (LoadedOfOneSave), what is   *)
(* on disk never goes back (DiskNeverBack), and what was acknowledged is   *)
(* there unless the name has no slash (SaveIsDurable).                     *)
(*                                                                         *)
(* The argument: the temporary's inode is that of no file, on disk or in   *)
(* memory, and of no reader (NamesInv); so what save() writes to it is     *)
(* seen by nobody until the rename, and by then it is whole and on disk    *)
(* (ContentInv).  What the running system's directory shows, and the disk  *)
(* does not yet, is what was acknowledged or later (AckInv).               *)
(***************************************************************************)
EXTENDS FileSave, SequenceTheorems, TLAPS

LEMMA NoneFact == None \notin Content /\ None \notin Inode
BY NoneAssumption

LEMMA ChunksFact ==
    <<>> \in Chunks /\ \A s \in Chunks, c \in Content : Append(s, c) \in Chunks
BY DEF Chunks

\* Type correctness of File::save and File::load, and of the files they use.
THEOREM TypeCorrect == Spec => []TypeOK
<1>. USE NoneFact, ChunksFact
<1>1. Init => TypeOK
  BY DEF Init, TypeOK, Chunks, Name
<1>2. TypeOK /\ [Next]_vars => TypeOK'
  <2>. SUFFICES ASSUME TypeOK, [Next]_vars PROVE TypeOK'
    OBVIOUS
  <2>1. CASE \E c \in Content : OpenTemp(c)
    <3>. PICK c \in Content : OpenTemp(c)
      BY <2>1
    <3>1. out' \in Inode /\ mem' = [mem EXCEPT ![out'] = <<>>]
      BY DEF TypeOK, OpenTemp, Name
    <3>2. mem' \in [Inode -> Chunks]
      BY <3>1 DEF TypeOK
    <3>3. dir' \in [Name -> Inode \cup {None}] /\ disk' \in [Inode -> Chunks]
      BY <3>1 DEF TypeOK, OpenTemp, Name
    <3>4. dir'["temp"] = out'
      BY <3>1 DEF TypeOK, OpenTemp, Name
    <3>. QED
      BY <3>1, <3>2, <3>3, <3>4 DEF TypeOK, OpenTemp, loadVars
  <2>2. CASE WriteChunk
    <3>1. mem' \in [Inode -> Chunks]
      BY <2>2 DEF TypeOK, WriteChunk
    <3>. QED
      BY <2>2, <3>1 DEF TypeOK, WriteChunk, saveVars, loadVars
  <2>3. CASE CloseTemp
    BY <2>3 DEF TypeOK, CloseTemp, fsVars, loadVars
  <2>4. CASE SyncTemp
    BY <2>4 DEF TypeOK, SyncTemp, Name, loadVars
  <2>5. CASE Rename
    BY <2>5 DEF TypeOK, Rename, Name, loadVars
  <2>6. CASE SyncDirectory
    BY <2>6 DEF TypeOK, SyncDirectory, Returns, Name, loadVars
  <2>7. CASE Fail
    BY <2>7 DEF TypeOK, Fail, Returns, fsVars, loadVars
  <2>8. CASE OpenFile \/ ReadFails \/ CloseFile
    <3>1. got' \in Chunks /\ in' \in Inode \cup {None} /\ cut' \in BOOLEAN
      BY <2>8 DEF TypeOK, OpenFile, ReadFails, CloseFile, Name
    <3>. QED
      BY <2>8, <3>1 DEF TypeOK, OpenFile, ReadFails, CloseFile, fsVars, saveVars
  <2>9. CASE ReadChunk
    <3>1. in \in Inode => mem[in][Len(got) + 1] \in Content
      BY <2>9 DEF TypeOK, ReadChunk, Chunks
    <3>2. mem[in][Len(got) + 1] \in Content /\ got \in Chunks
      BY <2>9, <3>1 DEF TypeOK, ReadChunk
    <3>3. got' \in Chunks
      BY <2>9, <3>2 DEF ReadChunk
    <3>. QED
      BY <2>9, <3>3 DEF TypeOK, ReadChunk, fsVars, saveVars
  <2>10. CASE WriteBack
    BY <2>10 DEF TypeOK, WriteBack, saveVars, loadVars
  <2>11. CASE Crash
    BY <2>11 DEF TypeOK, Crash
  <2>12. CASE UNCHANGED vars
    BY <2>12 DEF TypeOK, vars, fsVars, saveVars, loadVars
  <2>. QED
    BY <2>1, <2>2, <2>3, <2>4, <2>5, <2>6, <2>7, <2>8, <2>9, <2>10, <2>11, <2>12 DEF Next
<1>. QED
  BY <1>1, <1>2, PTL DEF Spec

-----------------------------------------------------------------------------
\* The temporary has an inode to itself.
NamesInv ==
    /\ dir["temp"] # None => dir["temp"] \notin {dir["file"], pdir["file"], in}
    /\ pdir["temp"] # None => pdir["temp"] # pdir["file"]

Safe(i) == mem[i] \in Wholes /\ disk[i] = mem[i]

\* What a read() has so far of an inode.
Read(i, s) == s = <<>> \/ s = <<mem[i][1]>> \/ s = mem[i]

\* The contents of an inode, by what is known of it.
ContentInv ==
    /\ \A d \in {dir, pdir} : d["file"] # None => Safe(d["file"])
    /\ load = "read" => Safe(in) /\ Read(in, got)
    /\ load = "idle" => LoadOfOneSave
    /\ save = "write" => mem[out] \in {<<>>, <<arg>>, Whole(arg)}
    /\ save \in {"sync", "rename"} => mem[out] = Whole(arg)
    /\ save = "rename" => disk[out] = Whole(arg)
    /\ save = "syncdir" => dir["file"] # None /\ mem[dir["file"]] = Whole(arg)

Inv == TypeOK /\ NamesInv /\ ContentInv

LEMMA WholeFact ==
    ASSUME NEW c
    PROVE  /\ Whole(c)[1] = c /\ Whole(c)[2] = c /\ Len(Whole(c)) = 2
           /\ Append(<<>>, c) = <<c>> /\ Append(<<c>>, c) = Whole(c)
           /\ Len(<<c>>) = 1 /\ <<c>>[1] = c
           /\ Whole(c) # <<>> /\ Whole(c) # <<c>>
<1>1. <<>> \in Seq({c}) /\ <<c>> \in Seq({c}) /\ <<c, c>> \in Seq({c}) /\ c \in {c}
  OBVIOUS
<1>3. Len(<<c, c>>) = 2 /\ Len(<<c>>) = 1 /\ Len(<<>>) = 0
  OBVIOUS
<1>4. <<c, c>>[1] = c /\ <<c, c>>[2] = c /\ <<c>>[1] = c
  OBVIOUS
<1>2. Append(<<>>, c) = <<c>> /\ Append(<<c>>, c) = <<c, c>>
  <2>1. /\ Append(<<>>, c) \in Seq({c}) /\ Len(Append(<<>>, c)) = 1
        /\ Append(<<>>, c)[1] = c
    BY <1>1, <1>3, AppendProperties
  <2>2. Append(<<>>, c) = <<c>>
    BY <1>1, <1>3, <1>4, <2>1, SeqEqual
  <2>3. /\ Append(<<c>>, c) \in Seq({c}) /\ Len(Append(<<c>>, c)) = 2
        /\ Append(<<c>>, c)[1] = c /\ Append(<<c>>, c)[2] = c
    BY <1>1, <1>3, <1>4, AppendProperties
  <2>4. \A i \in 1..2 : Append(<<c>>, c)[i] = <<c, c>>[i]
    BY <1>4, <2>3
  <2>. QED
    BY <1>1, <1>3, <2>2, <2>3, <2>4, SeqEqual
<1>. QED
  BY <1>2, <1>3, <1>4 DEF Whole

LEMMA WholesFact ==
    ASSUME NEW s \in Wholes
    PROVE  /\ Len(s) = 2 /\ Append(<<>>, s[1]) = <<s[1]>> /\ Append(<<s[1]>>, s[2]) = s
           /\ Len(<<s[1]>>) = 1
<1>. PICK c : s = Whole(c)
  BY DEF Wholes
<1>. QED
  BY WholeFact

\* What load() has of a whole inode is the beginning of one content.
LEMMA ReadFact ==
    ASSUME NEW i, Safe(i), NEW s, Read(i, s)
    PROVE  s = <<>> \/ s \in Wholes \/ \E c \in Content : s = <<c>>
<1>. PICK c \in Content : mem[i] = Whole(c)
  BY DEF Safe, Wholes
<1>1. mem[i][1] = c
  BY WholeFact
<1>. QED
  BY <1>1 DEF Read, Safe

LEMMA NamesStep == ASSUME Inv, [Next]_vars PROVE NamesInv'
<1>. USE NoneFact DEF Inv
<1>1. CASE \E c \in Content : OpenTemp(c)
  BY <1>1 DEF TypeOK, NamesInv, OpenTemp, Name, Used, loadVars
<1>2. CASE WriteChunk \/ CloseTemp \/ SyncTemp \/ Fail \/ ReadChunk \/ UNCHANGED vars
  BY <1>2 DEF NamesInv, WriteChunk, CloseTemp, SyncTemp, Fail, ReadChunk, vars, fsVars, loadVars
<1>3. CASE Rename
  BY <1>3 DEF TypeOK, NamesInv, Rename, Name, loadVars
<1>4. CASE SyncDirectory
  BY <1>4 DEF TypeOK, NamesInv, SyncDirectory, Name, loadVars
<1>5. CASE OpenFile \/ ReadFails \/ CloseFile
  BY <1>5 DEF TypeOK, NamesInv, OpenFile, ReadFails, CloseFile, Name, fsVars
<1>6. CASE WriteBack
  BY <1>6 DEF TypeOK, NamesInv, WriteBack, Name, loadVars
<1>7. CASE Crash
  BY <1>7 DEF TypeOK, NamesInv, Crash, Name
<1>. QED
  BY <1>1, <1>2, <1>3, <1>4, <1>5, <1>6, <1>7 DEF Next

LEMMA ContentStep == ASSUME Inv, [Next]_vars PROVE ContentInv'
<1>. USE NoneFact DEF Inv
<1>a. \A d \in {dir, pdir} : d["file"] \in Inode \cup {None}
  BY DEF TypeOK, Name
<1>1. CASE \E c \in Content : OpenTemp(c)
  <2>. PICK c \in Content : OpenTemp(c)
    BY <1>1
  <2>1. /\ out' \in Inode /\ out' \notin {dir["file"], pdir["file"], in}
        /\ \A i \in Inode \ {out'} : mem'[i] = mem[i] /\ disk'[i] = disk[i]
        /\ mem'[out'] = <<>>
    BY DEF OpenTemp, TypeOK, NamesInv, Name, Used
  <2>2. dir'["file"] = dir["file"] /\ pdir' = pdir /\ save' = "write" /\ UNCHANGED loadVars
    BY DEF OpenTemp, TypeOK, Name
  <2>. QED
    BY <1>a, <2>1, <2>2 DEF ContentInv, LoadOfOneSave, Safe, Read, TypeOK, loadVars
<1>2. CASE WriteChunk
  <2>1. /\ out \in Inode /\ out \notin {dir["file"], pdir["file"], in}
        /\ \A i \in Inode \ {out} : mem'[i] = mem[i]
        /\ mem'[out] = Append(mem[out], arg) /\ Len(mem[out]) < 2
        /\ UNCHANGED <<dir, pdir, disk, saveVars, loadVars>> /\ save = "write"
    BY <1>2 DEF WriteChunk, TypeOK, NamesInv, Name
  <2>2. mem'[out] \in {<<>>, <<arg>>, Whole(arg)}
    <3>1. mem[out] \in {<<>>, <<arg>>, Whole(arg)}
      BY <2>1 DEF ContentInv
    <3>2. /\ Append(<<>>, arg) = <<arg>> /\ Append(<<arg>>, arg) = Whole(arg)
          /\ Len(Whole(arg)) = 2
      BY WholeFact
    <3>3. mem[out] = <<>> => mem'[out] = <<arg>>
      BY <2>1, <3>2
    <3>4. mem[out] = <<arg>> => mem'[out] = Whole(arg)
      BY <2>1, <3>2
    <3>5. mem[out] # Whole(arg)
      BY <2>1, <3>2
    <3>. QED
      BY <3>1, <3>3, <3>4, <3>5
  <2>3. UNCHANGED <<dir, pdir, disk, save, arg, out, acked, tried, load, in, got, cut>>
    BY <2>1 DEF saveVars, loadVars
  <2>. QED
    BY <1>a, <2>1, <2>2, <2>3 DEF ContentInv, LoadOfOneSave, Safe, Read, TypeOK
<1>3. CASE CloseTemp
  <2>1. mem[out] = Whole(arg)
    BY <1>3, WholeFact DEF ContentInv, CloseTemp
  <2>. QED
    BY <1>3, <2>1 DEF ContentInv, LoadOfOneSave, CloseTemp, Safe, Read, fsVars, loadVars
<1>4. CASE SyncTemp
  <2>1. /\ out \in Inode /\ mem' = mem /\ disk' = [disk EXCEPT ![out] = mem[out]]
    BY <1>4 DEF SyncTemp, TypeOK
  <2>. QED
    BY <1>4, <1>a, <2>1 DEF ContentInv, LoadOfOneSave, SyncTemp, Safe, Read, TypeOK, loadVars
<1>5. CASE Rename
  <2>1. dir'["file"] = out /\ out # None /\ mem[out] = Whole(arg) /\ disk[out] = Whole(arg)
    BY <1>5 DEF Rename, TypeOK, ContentInv, Name
  <2>2. arg \in Content /\ Safe(out)
    BY <1>5, <2>1 DEF Rename, TypeOK, Safe, Wholes
  <2>. QED
    BY <1>5, <2>1, <2>2 DEF ContentInv, LoadOfOneSave, Rename, Safe, Read, loadVars
<1>6. CASE SyncDirectory
  <2>1. mem' = mem /\ disk' \in [Inode -> Chunks]
        /\ \A i \in Inode : disk'[i] \in {disk[i], mem[i]}
    BY <1>6 DEF SyncDirectory, TypeOK
  <2>2. pdir' \in {pdir, dir} /\ dir' = dir /\ save' = "idle" /\ UNCHANGED loadVars
    BY <1>6 DEF SyncDirectory, Returns
  <2>. QED
    BY <1>a, <2>1, <2>2 DEF ContentInv, LoadOfOneSave, Safe, Read, TypeOK, loadVars
<1>7. CASE Fail
  BY <1>7 DEF ContentInv, LoadOfOneSave, Fail, Returns, Safe, Read, fsVars, loadVars
<1>8. CASE OpenFile
  BY <1>8 DEF ContentInv, LoadOfOneSave, OpenFile, Safe, Read, fsVars, saveVars
<1>9. CASE ReadChunk
  <2>1. mem[in] \in Wholes /\ Read(in, got) /\ Len(got) < Len(mem[in])
        /\ got' = Append(got, mem[in][Len(got) + 1])
    BY <1>9 DEF ContentInv, ReadChunk, Safe
  <2>2. Len(<<>>) = 0
    OBVIOUS
  <2>3. Read(in, got')
    <3>. DEFINE s == mem[in]
    <3>1. /\ Len(s) = 2 /\ Append(<<>>, s[1]) = <<s[1]>> /\ Append(<<s[1]>>, s[2]) = s
          /\ Len(<<s[1]>>) = 1
      BY <2>1, WholesFact
    <3>2. CASE got = <<>>
      BY <2>1, <2>2, <3>1, <3>2 DEF Read
    <3>3. CASE got = <<s[1]>>
      BY <2>1, <3>1, <3>3 DEF Read
    <3>. QED
      BY <2>1, <3>1, <3>2, <3>3 DEF Read
  <2>. QED
    BY <1>9, <2>3 DEF ContentInv, LoadOfOneSave, ReadChunk, Safe, Read, fsVars, saveVars
<1>10. CASE CloseFile
  <2>1. mem[in] \in Wholes /\ Read(in, got) /\ Len(got) >= Len(mem[in])
    BY <1>10 DEF ContentInv, CloseFile, Safe
  <2>2. Len(<<>>) = 0
    OBVIOUS
  <2>3. got \in Wholes
    BY <2>1, <2>2, WholesFact DEF Read
  <2>. QED
    BY <1>10, <2>3 DEF ContentInv, LoadOfOneSave, CloseFile, Safe, Read, fsVars, saveVars
<1>14. CASE ReadFails
  <2>1. got = <<>> \/ got \in Wholes \/ \E c \in Content : got = <<c>>
    BY <1>14, ReadFact DEF ContentInv, ReadFails
  <2>2. LoadOfOneSave'
    BY <1>14, <2>1 DEF ReadFails, LoadOfOneSave
  <2>. QED
    BY <1>14, <2>2 DEF ContentInv, ReadFails, Safe, fsVars, saveVars
<1>11. CASE WriteBack
  <2>1. mem' = mem /\ \A i \in Inode : disk'[i] \in {disk[i], mem[i]}
    BY <1>11 DEF WriteBack, TypeOK
  <2>2. /\ pdir' \in {pdir, dir} /\ dir' = dir
        /\ UNCHANGED saveVars /\ UNCHANGED loadVars
    BY <1>11 DEF WriteBack
  <2>3. (out \in Inode /\ disk'[out] \in {disk[out], mem[out]}) \/ save # "rename"
    BY <2>1 DEF TypeOK
  <2>. QED
    BY <1>a, <2>1, <2>2, <2>3 DEF ContentInv, LoadOfOneSave, Safe, Read, TypeOK, saveVars, loadVars
<1>12. CASE Crash
  BY <1>12 DEF ContentInv, LoadOfOneSave, Crash, Safe
<1>13. CASE UNCHANGED vars
  BY <1>13 DEF ContentInv, LoadOfOneSave, Safe, Read, vars, fsVars, saveVars, loadVars
<1>. QED
  BY <1>1, <1>2, <1>3, <1>4, <1>5, <1>6, <1>7, <1>8, <1>9, <1>10, <1>11, <1>12, <1>13, <1>14 DEF Next

LEMMA Invariance == Spec => []Inv
<1>1. Init => Inv
  <2>1. Init => TypeOK
    BY ChunksFact DEF Init, TypeOK, Name
  <2>2. Init => NamesInv /\ ContentInv
    BY DEF Init, Name, NamesInv, ContentInv, LoadOfOneSave
  <2>. QED
    BY <2>1, <2>2 DEF Inv
<1>2. TypeOK /\ [Next]_vars /\ TypeOK' /\ Inv => Inv'
  BY NamesStep, ContentStep DEF Inv
<1>3. Spec => []TypeOK
  BY TypeCorrect
<1>. QED
  BY <1>1, <1>2, <1>3, PTL DEF Spec, Inv

\* The file holds all of what one call of save() was given, in the running system and on
\* disk, at every moment of a save.
THEOREM FileIsWhole == Spec => []OldOrNew
<1>1. Inv => OldOrNew
  BY DEF Inv, ContentInv, Safe, OldOrNew
<1>. QED
  BY <1>1, Invariance, PTL

\* load() appends the beginning of what one call of save() was given, and all of it when it
\* has returned and no fread failed.
THEOREM LoadedOfOneSave == Spec => []LoadOfOneSave
<1>1. Inv => LoadOfOneSave
  <2>. SUFFICES ASSUME Inv, load = "read" PROVE LoadOfOneSave
    BY DEF Inv, TypeOK, ContentInv
  <2>. QED
    BY ReadFact DEF Inv, ContentInv, LoadOfOneSave
<1>. QED
  BY <1>1, Invariance, PTL

-----------------------------------------------------------------------------
\* What the running system shows, and a crash would not, is what was acknowledged, or later.
AckInv ==
    /\ acked # None =>
          \/ dir["file"] = pdir["file"]
          \/ dir["file"] # None /\ mem[dir["file"]] \in Latest
    /\ save # "idle" => arg \in tried

LEMMA AckStep == ASSUME Inv, AckInv, [Next]_vars PROVE AckInv'
<1>. USE NoneFact DEF Inv
<1>a. \A d \in {dir, pdir} : d["file"] \in Inode \cup {None}
  BY DEF TypeOK, Name
<1>1. CASE \E c \in Content : OpenTemp(c)
  <2>. PICK c \in Content : OpenTemp(c)
    BY <1>1
  <2>1. /\ out' \in Inode /\ out' \notin {dir["file"], pdir["file"]}
        /\ \A i \in Inode \ {out'} : mem'[i] = mem[i]
    BY DEF OpenTemp, TypeOK, NamesInv, Name, Used
  <2>2. /\ dir'["file"] = dir["file"] /\ pdir' = pdir /\ arg' = c
        /\ tried' = tried \cup {c} /\ acked' = acked
    BY DEF OpenTemp, TypeOK, Name
  <2>. QED
    BY <1>a, <2>1, <2>2 DEF AckInv, Latest
<1>2. CASE WriteChunk
  <2>1. /\ out \in Inode /\ out \notin {dir["file"], pdir["file"]}
        /\ \A i \in Inode \ {out} : mem'[i] = mem[i]
        /\ UNCHANGED <<dir, pdir, saveVars>>
    BY <1>2 DEF WriteChunk, TypeOK, NamesInv, Name
  <2>. QED
    BY <1>a, <2>1 DEF AckInv, Latest, saveVars
<1>3. CASE CloseTemp \/ SyncTemp
  BY <1>3 DEF AckInv, Latest, CloseTemp, SyncTemp, fsVars
<1>4. CASE Rename
  <2>1. /\ dir'["file"] = out /\ out # None /\ mem[out] = Whole(arg)
        /\ arg \in tried /\ UNCHANGED <<pdir, mem, arg, acked, tried>>
    BY <1>4 DEF Rename, TypeOK, ContentInv, AckInv, Name
  <2>. QED
    BY <2>1 DEF AckInv, Latest
<1>5. CASE SyncDirectory
  <2>1. /\ dir' = dir /\ mem' = mem /\ save' = "idle" /\ pdir' \in {dir, pdir}
        /\ dir["file"] # None /\ mem[dir["file"]] = Whole(arg)
    BY <1>5 DEF SyncDirectory, Returns, ContentInv
  <2>2. \/ acked' = arg
        \/ acked' = acked /\ tried' = tried
    BY <1>5 DEF SyncDirectory, Returns
  <2>. QED
    BY <2>1, <2>2 DEF AckInv, Latest
<1>6. CASE Fail
  BY <1>6 DEF AckInv, Latest, Fail, Returns, fsVars
<1>7. CASE OpenFile \/ ReadChunk \/ ReadFails \/ CloseFile \/ UNCHANGED vars
  BY <1>7 DEF AckInv, Latest, OpenFile, ReadChunk, ReadFails, CloseFile, vars, fsVars, saveVars
<1>8. CASE WriteBack
  BY <1>8 DEF AckInv, Latest, WriteBack, saveVars
<1>9. CASE Crash
  BY <1>9 DEF AckInv, Crash
<1>. QED
  BY <1>1, <1>2, <1>3, <1>4, <1>5, <1>6, <1>7, <1>8, <1>9 DEF Next

\* The steps that may put something else on disk are write-backs and the flush of the
\* directory; the others leave the file's inode on disk alone.
LEMMA BackStep ==
    ASSUME Inv, AckInv, [Next]_vars, acked # None, tried \subseteq tried', OnDisk \in Latest
    PROVE  OnDisk' \in Latest
<1>. USE NoneFact DEF Inv
<1>a. \A d \in {dir, pdir} : d["file"] \in Inode \cup {None}
  BY DEF TypeOK, Name
<1>1. CASE \E c \in Content : OpenTemp(c)
  <2>. PICK c \in Content : OpenTemp(c)
    BY <1>1
  <2>1. /\ out' \in Inode /\ out' # pdir["file"] /\ pdir' = pdir
        /\ \A i \in Inode \ {out'} : disk'[i] = disk[i]
    BY DEF OpenTemp, TypeOK, NamesInv, Name, Used
  <2>. QED
    BY <1>a, <2>1 DEF OnDisk
<1>2. CASE SyncTemp
  <2>1. out # pdir["file"] /\ pdir' = pdir /\ disk' = [disk EXCEPT ![out] = mem[out]]
    BY <1>2 DEF SyncTemp, TypeOK, NamesInv
  <2>. QED
    BY <1>a, <2>1 DEF OnDisk, TypeOK
<1>3. CASE SyncDirectory
  <2>1. path = "in root"
    BY <1>3 DEF SyncDirectory, Returns, AckInv
  <2>. QED
    BY <1>3, <2>1 DEF SyncDirectory, OnDisk
<1>4. CASE WriteBack
  <2>1. CASE pdir' = dir /\ UNCHANGED disk
    <3>1. CASE dir["file"] = pdir["file"]
      BY <2>1, <3>1 DEF OnDisk
    <3>2. CASE dir["file"] # None /\ mem[dir["file"]] \in Latest
      BY <2>1, <3>2 DEF OnDisk, ContentInv, Safe
    <3>. QED
      BY <3>1, <3>2 DEF AckInv
  <2>2. CASE \E i \in Inode : disk' = [disk EXCEPT ![i] = mem[i]] /\ UNCHANGED pdir
    <3>1. pdir["file"] # None => disk'[pdir["file"]] = disk[pdir["file"]]
      BY <1>a, <2>2 DEF ContentInv, Safe, TypeOK
    <3>. QED
      BY <2>2, <3>1 DEF OnDisk
  <2>. QED
    BY <1>4, <2>1, <2>2 DEF WriteBack
<1>5. CASE \/ WriteChunk \/ CloseTemp \/ Rename \/ Fail
           \/ OpenFile \/ ReadChunk \/ ReadFails \/ CloseFile \/ Crash \/ UNCHANGED vars
  BY <1>5 DEF WriteChunk, CloseTemp, Rename, Fail, OpenFile, ReadChunk, ReadFails, CloseFile,
              Crash, OnDisk, vars, fsVars
<1>. QED
  BY <1>1, <1>2, <1>3, <1>4, <1>5 DEF Next

LEMMA AckInvariance == Spec => []AckInv
<1>1. Init => AckInv
  BY DEF Init, AckInv
<1>2. Inv /\ AckInv /\ [Next]_vars => AckInv'
  BY AckStep
<1>. QED
  BY <1>1, <1>2, Invariance, PTL DEF Spec

\* Whatever the file's name looks like, what is on disk never goes back behind what was
\* acknowledged once it is there: through failed saves, write-backs in any order and crashes.
THEOREM DiskNeverBack == Spec => NeverBack
<1>1. Inv /\ AckInv /\ [Next]_vars =>
          [acked # None /\ acked' = acked /\ tried \subseteq tried' /\ OnDisk \in Latest
              => OnDisk' \in Latest]_vars
  BY BackStep
<1>. QED
  BY <1>1, Invariance, AckInvariance, PTL DEF Spec, NeverBack

\* Only the flush of the directory acknowledges, and only what was acknowledged leaves the
\* contents that were tried.
LEMMA AcksFact ==
    ASSUME [Next]_vars
    PROVE  \/ acked' = acked /\ tried \subseteq tried'
           \/ SyncDirectory /\ path # "in root"
BY DEF Next, OpenTemp, WriteChunk, CloseTemp, SyncTemp, Rename, SyncDirectory, Fail, Returns,
       OpenFile, ReadChunk, ReadFails, CloseFile, WriteBack, Crash, vars, fsVars, saveVars

\* What save() returned true for is on disk, or what a later save() was given, unless the
\* name has no slash (for which File.cpp:50 flushes the file again and not the directory).
THEOREM SaveIsDurable == Spec => []DurableWithSlash
<1>1. Init => DurableWithSlash
  BY DEF Init, DurableWithSlash, Durable
<1>2. Inv /\ AckInv /\ DurableWithSlash /\ [Next]_vars => DurableWithSlash'
  <2>. SUFFICES ASSUME Inv, AckInv, DurableWithSlash, [Next]_vars,
                       path' # "no slash", acked' # None
                PROVE  OnDisk' \in Latest'
    BY DEF DurableWithSlash, Durable
  <2>1. path' = path
    BY DEF Next, OpenTemp, WriteChunk, CloseTemp, SyncTemp, Rename, SyncDirectory, Fail,
           OpenFile, ReadChunk, ReadFails, CloseFile, WriteBack, Crash, vars, fsVars
  <2>2. CASE acked' = acked /\ tried \subseteq tried'
    <3>1. OnDisk' \in Latest
      BY <2>1, <2>2, BackStep DEF DurableWithSlash, Durable
    <3>. QED
      BY <2>2, <3>1 DEF Latest
  <2>3. CASE SyncDirectory /\ path # "in root"
    <3>1. path = "in directory"
      BY <2>1, <2>3, PathAssumption DEF Inv, TypeOK, Kinds
    <3>2. pdir' = dir /\ disk' = disk /\ acked' = arg
      BY <2>3, <3>1 DEF SyncDirectory, Returns
    <3>3. /\ dir["file"] # None /\ mem[dir["file"]] = Whole(arg)
          /\ disk[dir["file"]] = mem[dir["file"]]
      BY <2>3 DEF Inv, ContentInv, Safe, SyncDirectory
    <3>. QED
      BY <3>2, <3>3 DEF OnDisk, Latest
  <2>. QED
    BY <2>2, <2>3, AcksFact
<1>. QED
  BY <1>1, <1>2, Invariance, AckInvariance, PTL DEF Spec

=============================================================================
