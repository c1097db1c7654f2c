---------------------------- MODULE ExtractCache ----------------------------
(***************************************************************************)
(* The cache of extracted modules of the Aug-Ins loader (extract.cpp), for *)
(* one module file.  At every start of the service extract_augins_zip      *)
(* reads the installed archive, compares its size with the stamp left by   *)
(* an earlier extraction, and either trusts the tree on disk or writes the *)
(* archive's files over it, one after the other, and then the stamp.       *)
(*                                                                         *)
(* The disk outlives the process, which may die at every step; the phone   *)
(* application may replace the archive at every step.  An archive is a     *)
(* version with a size and the files that extraction writes, in archive    *)
(* order (directories, entries whose stat fails and names the path guard   *)
(* rejects are no such files; the same archive always has the same ones).  *)
(* The content of a file is the version it was extracted from.             *)
(***************************************************************************)
EXTENDS Integers, Sequences

CONSTANTS
  Versions,  \* the archives that are ever installed under this file name
  Files,     \* the names of files in them
  Size,      \* the number of bytes of an archive
  Contents,  \* the files of an archive, in archive order
  Absent,    \* what a name without a file holds
  Torn       \* what a file holds that was truncated and not written to its end

ASSUME VersionAssumption == Versions # {} /\ Absent \notin Versions /\ Torn \notin Versions /\ Absent # Torn
ASSUME SizeAssumption == Size \in [Versions -> Nat \ {0}]
ASSUME ContentsAssumption == Contents \in [Versions -> Seq(Files)]

VARIABLES
  pkg,    \* the installed version
  blob,   \* the version that extract_augins_zip has read into memory
  stamp,  \* the number in the file .size, NoStamp if there is none to be read
  tree,   \* the extracted files on disk
  pc,     \* where extract_augins_zip is
  entry,  \* the archive's entry that is written next
  begun   \* the versions that have overwritten files since the last stamp

vars == <<pkg, blob, stamp, tree, pc, entry, begun>>

-----------------------------------------------------------------------------
\* read_size_stamp returns false: no file, or one that was truncated and
\* not written, from which no number can be read.
NoStamp == 0

\* The file names of a version.
FilesOf(v) == {Contents[v][i] : i \in 1..Len(Contents[v])}

\* Every file of the version is on disk as that version has it.
Whole(v) == \A f \in FilesOf(v) : tree[f] = v

Init ==
  /\ pkg \in Versions
  /\ blob = pkg
  /\ stamp = NoStamp
  /\ tree = [f \in Files |-> Absent]
  /\ pc = "idle"
  /\ entry = 1
  /\ begun = {}

\* The phone application installs another archive under the same name.
Replace(v) ==
  /\ pkg # v
  /\ pkg' = v
  /\ UNCHANGED <<blob, stamp, tree, pc, entry, begun>>

\* read_file_bytes.  When it fails, extract_augins_zip returns false and
\* has changed nothing.
ReadPackage ==
  /\ pc = "idle"
  /\ blob' = pkg
  /\ pc' = "check"
  /\ UNCHANGED <<pkg, stamp, tree, entry, begun>>

\* Mutant: any stamp is taken for a hit.
IsHitAnyStamp == stamp # NoStamp

\* read_size_stamp(dest, cached) && cached == src_size
IsHit == stamp = Size[blob]

\* The cache hit: the tree is used as it is.
CacheHit ==
  /\ pc = "check"
  /\ IsHit
  /\ pc' = "served"
  /\ UNCHANGED <<pkg, blob, stamp, tree, entry, begun>>

\* No hit: the directory is made and the archive opened.  Nothing that an
\* earlier extraction left there is removed.
CacheMiss ==
  /\ pc = "check"
  /\ ~IsHit
  /\ entry' = 1
  /\ pc' = "extract"
  /\ UNCHANGED <<pkg, blob, stamp, tree, begun>>

\* write_file opens the next entry's file with O_TRUNC.
OpenFile ==
  /\ pc = "extract"
  /\ entry <= Len(Contents[blob])
  /\ tree' = [tree EXCEPT ![Contents[blob][entry]] = Torn]
  /\ begun' = begun \union {blob}
  /\ pc' = "write"
  /\ UNCHANGED <<pkg, blob, stamp, entry>>

\* write_file has written all of it.
WriteFile ==
  /\ pc = "write"
  /\ tree' = [tree EXCEPT ![Contents[blob][entry]] = blob]
  /\ entry' = entry + 1
  /\ pc' = "extract"
  /\ UNCHANGED <<pkg, blob, stamp, begun>>

\* Making the directory, opening the archive, unpacking an entry or writing
\* a file fails: extract_augins_zip returns false and leaves the disk as it
\* is, with the old stamp.
ExtractFails ==
  /\ pc \in {"extract", "write"}
  /\ pc' = "idle"
  /\ UNCHANGED <<pkg, blob, stamp, tree, entry, begun>>

\* Mutant: the stamp is written while entries are left (before the last).
NoEntryLeftEarly == entry >= Len(Contents[blob])

\* The loop over the entries has come to its end.
NoEntryLeft == entry > Len(Contents[blob])

\* write_size_stamp opens the stamp with ios::trunc.
OpenStamp ==
  /\ pc = "extract"
  /\ NoEntryLeft
  /\ stamp' = NoStamp
  /\ pc' = "stamp"
  /\ UNCHANGED <<pkg, blob, tree, entry, begun>>

\* write_size_stamp cannot open the stamp: a warning, and the extraction
\* succeeds under the old stamp.
OpenStampFails ==
  /\ pc = "extract"
  /\ NoEntryLeft
  /\ pc' = "served"
  /\ UNCHANGED <<pkg, blob, stamp, tree, entry, begun>>

\* Mutant: the number of entries instead of the size of the archive.
StampValueEntries == Len(Contents[blob])

\* What write_size_stamp writes: src_size.
StampValue == Size[blob]

WriteStamp ==
  /\ pc = "stamp"
  /\ stamp' = StampValue
  /\ begun' = {}
  /\ pc' = "served"
  /\ UNCHANGED <<pkg, blob, tree, entry>>

\* The write of the stamp fails (the disk is full), which nobody looks at.
WriteStampFails ==
  /\ pc = "stamp"
  /\ pc' = "served"
  /\ UNCHANGED <<pkg, blob, stamp, tree, entry, begun>>

\* load_one goes on with the extracted tree; the loader is next asked for
\* it at the next start of the service.
Return ==
  /\ pc = "served"
  /\ pc' = "idle"
  /\ UNCHANGED <<pkg, blob, stamp, tree, entry, begun>>

\* The service's process is killed.  What was opened is truncated and stays.
Killed ==
  /\ pc # "idle"
  /\ pc' = "idle"
  /\ UNCHANGED <<pkg, blob, stamp, tree, entry, begun>>

Extract == \/ ReadPackage \/ CacheHit \/ CacheMiss
           \/ OpenFile \/ WriteFile \/ ExtractFails
           \/ OpenStamp \/ OpenStampFails \/ WriteStamp \/ WriteStampFails
           \/ Return \/ Killed

Next == Extract \/ \E v \in Versions : Replace(v)

Spec == Init /\ [][Next]_vars

-----------------------------------------------------------------------------
\* The types of the variables; a stamp that can be read is the size of an
\* archive (write_size_stamp, read_size_stamp).
TypeOK ==
  /\ pkg \in Versions
  /\ blob \in Versions
  /\ stamp \in {NoStamp} \union {Size[v] : v \in Versions}
  /\ tree \in [Files -> Versions \union {Absent, Torn}]
  /\ pc \in {"idle", "check", "extract", "write", "stamp", "served"}
  /\ entry \in Nat \ {0}
  /\ begun \subseteq Versions

\* A file of v on disk is v's, or one that a later extraction, begun and
\* never stamped, has overwritten or torn.
Mixed(v) ==
  \A f \in FilesOf(v) : \/ tree[f] = v
                        \/ tree[f] \in begun
                        \/ tree[f] = Torn /\ begun # {}

\* A tree that extract_augins_zip reports as extracted holds every file of
\* an archive of the same size as the one it was asked for, and differs from
\* that archive only where an extraction that was interrupted since then has
\* written.  The comment in extract.cpp, "equal sizes mean the extracted tree
\* is up to date", fails in these two cases and in no other: two archives of
\* one size, and a return to the stamped version after an upgrade that was
\* cut short.
HitIsWhole ==
  pc = "served" => \E v \in Versions : Size[v] = Size[blob] /\ Mixed(v)

\* Whatever failed or was killed before, the retry with the same archive does
\* not take the half-written tree for a hit: when extract_augins_zip returns
\* true for a version that has begun to overwrite the tree and never stamped
\* it, all the files on disk are that version's.
RetryIsWhole ==
  pc = "served" /\ blob \in begun => Whole(blob)

-----------------------------------------------------------------------------
\* Where the extraction is in the archive: the stamp on disk does not yet
\* name it, and the entries before the current one are in place.
InProgress ==
  pc \in {"extract", "write", "stamp"} =>
    /\ stamp # Size[blob]
    /\ \A i \in 1..Len(Contents[blob]) :
         i < entry => \/ tree[Contents[blob][i]] = blob
                      \/ pc = "write" /\ Contents[blob][i] = Contents[blob][entry]

\* The inductive invariant: no stamp names a version that has begun, and
\* a stamp's tree is that of a version with this size, up to what has begun.
CacheInv ==
  /\ TypeOK
  /\ InProgress
  /\ pc = "write" => entry <= Len(Contents[blob]) /\ blob \in begun
  /\ pc = "stamp" => NoEntryLeft
  /\ \A v \in begun : stamp # Size[v]
  /\ stamp # NoStamp => \E v \in Versions : Size[v] = stamp /\ Mixed(v)
  /\ pc = "served" => Whole(blob) \/ stamp = Size[blob]
=============================================================================
