-------------------------- MODULE ExtractCache_proofs --------------------------
(* Machine-checked proofs about ExtractCache, for every set of versions. *)
EXTENDS ExtractCache, TLAPS

(***************************************************************************)
(* The inductive invariant.                                                *)
(***************************************************************************)

\* What the size and the contents of a version are.
LEMMA VersionFacts ==
  ASSUME NEW v \in Versions
  PROVE  /\ Size[v] \in Nat /\ Size[v] # NoStamp
         /\ Len(Contents[v]) \in Nat
         /\ \A i \in 1..Len(Contents[v]) : Contents[v][i] \in Files
         /\ FilesOf(v) \subseteq Files
         /\ v # Torn /\ v # Absent
BY VersionAssumption, SizeAssumption, ContentsAssumption DEF NoStamp, FilesOf

LEMMA CacheInvInit == Init => CacheInv
BY VersionAssumption DEF Init, CacheInv, TypeOK, InProgress, NoStamp

\* A step that only moves the pc between two places at which the extraction has
\* written nothing.
LEMMA QuietStep ==
  ASSUME CacheInv, TypeOK', UNCHANGED <<stamp, tree, begun>>,
         pc' \in {"idle", "check"}
  PROVE  CacheInv'
BY DEF CacheInv, InProgress, Mixed, FilesOf, Whole, NoEntryLeft

\* Opening a file tears it and puts the version among those that have begun:
\* every version that was mixed stays so.
LEMMA OpenFileStep == ASSUME CacheInv, OpenFile PROVE CacheInv'
<1> DEFINE f == Contents[blob][entry]
<1>1. blob \in Versions /\ entry \in 1..Len(Contents[blob]) /\ f \in Files
  BY VersionFacts DEF CacheInv, TypeOK, OpenFile
<1>2. TypeOK'
  BY <1>1 DEF CacheInv, TypeOK, OpenFile
<1>3. InProgress'
  <2> SUFFICES ASSUME NEW i \in 1..Len(Contents[blob]), i < entry, Contents[blob][i] # f
               PROVE  tree'[Contents[blob][i]] = blob
    BY DEF OpenFile, InProgress, CacheInv
  <2>1. tree[Contents[blob][i]] = blob
    BY DEF OpenFile, InProgress, CacheInv
  <2> QED
    BY <1>1, <2>1, VersionFacts DEF OpenFile, CacheInv, TypeOK
<1>4. ASSUME NEW v \in Versions, Mixed(v) PROVE Mixed(v)'
  <2> SUFFICES ASSUME NEW g \in FilesOf(v)
               PROVE  tree'[g] = v \/ tree'[g] \in begun' \/ (tree'[g] = Torn /\ begun' # {})
    BY DEF Mixed, FilesOf
  <2>1. g \in Files
    BY VersionFacts
  <2> QED
    BY <1>1, <1>4, <2>1 DEF Mixed, OpenFile, CacheInv, TypeOK
<1>5. \A v \in begun' : stamp' # Size[v]
  BY DEF CacheInv, InProgress, OpenFile
<1>6. stamp' # NoStamp => \E v \in Versions : Size[v] = stamp' /\ Mixed(v)'
  BY <1>4 DEF CacheInv, OpenFile
<1> QED
  BY <1>1, <1>2, <1>3, <1>5, <1>6 DEF CacheInv, OpenFile, NoEntryLeft

\* Writing it puts the file of this version in place.
LEMMA WriteFileStep == ASSUME CacheInv, WriteFile PROVE CacheInv'
<1> DEFINE f == Contents[blob][entry]
<1>1. blob \in Versions /\ entry \in 1..Len(Contents[blob]) /\ f \in Files
  BY VersionFacts DEF CacheInv, TypeOK, WriteFile
<1>2. TypeOK'
  BY <1>1 DEF CacheInv, TypeOK, WriteFile
<1>3. InProgress'
  <2> SUFFICES ASSUME NEW i \in 1..Len(Contents[blob]), i < entry + 1
               PROVE  tree'[Contents[blob][i]] = blob
    BY DEF WriteFile, InProgress, CacheInv
  <2>1. tree[Contents[blob][i]] = blob \/ Contents[blob][i] = f
    BY <1>1 DEF WriteFile, InProgress, CacheInv
  <2> QED
    BY <1>1, <2>1, VersionFacts DEF WriteFile, CacheInv, TypeOK
<1>4. ASSUME NEW v \in Versions, Mixed(v) PROVE Mixed(v)'
  <2> SUFFICES ASSUME NEW g \in FilesOf(v)
               PROVE  tree'[g] = v \/ tree'[g] \in begun' \/ (tree'[g] = Torn /\ begun' # {})
    BY DEF Mixed, FilesOf
  <2>1. g \in Files
    BY VersionFacts
  <2> QED
    BY <1>1, <1>4, <2>1 DEF Mixed, WriteFile, CacheInv, TypeOK
<1>5. stamp' # NoStamp => \E v \in Versions : Size[v] = stamp' /\ Mixed(v)'
  BY <1>4 DEF CacheInv, WriteFile
<1> QED
  BY <1>2, <1>3, <1>5 DEF CacheInv, WriteFile

\* When the loop has come to its end, the whole version is on disk.
LEMMA WholeAtEnd ==
  ASSUME CacheInv, pc \in {"extract", "stamp"}, NoEntryLeft PROVE Whole(blob)
<1> SUFFICES ASSUME NEW i \in 1..Len(Contents[blob])
             PROVE  tree[Contents[blob][i]] = blob
  BY DEF Whole, FilesOf
<1>1. i < entry
  BY VersionFacts DEF NoEntryLeft, CacheInv, TypeOK
<1> QED
  BY <1>1 DEF CacheInv, InProgress

\* Every step of the extraction and of its surroundings preserves the invariant.
LEMMA CacheInvStep == CacheInv /\ [Next]_vars => CacheInv'
<1> SUFFICES ASSUME CacheInv, [Next]_vars PROVE CacheInv'
  OBVIOUS
<1>1. CASE \E v \in Versions : Replace(v)
  <2>1. /\ UNCHANGED <<blob, stamp, tree, pc, entry, begun>>
        /\ pkg' \in Versions
    BY <1>1 DEF Replace
  <2>2. \A v \in Versions : Mixed(v)' <=> Mixed(v)
    BY <2>1 DEF Mixed, FilesOf
  <2>3. /\ Whole(blob)' <=> Whole(blob)
        /\ NoEntryLeft' <=> NoEntryLeft
    BY <2>1 DEF Whole, FilesOf, NoEntryLeft
  <2>4. TypeOK' /\ InProgress'
    BY <2>1 DEF CacheInv, TypeOK, InProgress
  <2> QED
    BY <2>1, <2>2, <2>3, <2>4 DEF CacheInv
<1>2. CASE ReadPackage
  <2>1. TypeOK'
    BY <1>2 DEF ReadPackage, CacheInv, TypeOK
  <2> QED
    BY <1>2, <2>1, QuietStep DEF ReadPackage
<1>3. CASE CacheHit
  <2>1. \A v \in Versions : Mixed(v)' <=> Mixed(v)
    BY <1>3 DEF CacheHit, Mixed, FilesOf
  <2>2. TypeOK' /\ InProgress'
    BY <1>3 DEF CacheHit, CacheInv, TypeOK, InProgress
  <2> QED
    BY <1>3, <2>1, <2>2 DEF CacheHit, IsHit, CacheInv
<1>4. CASE CacheMiss
  <2>1. \A v \in Versions : Mixed(v)' <=> Mixed(v)
    BY <1>4 DEF CacheMiss, Mixed, FilesOf
  <2>2. TypeOK' /\ InProgress'
    BY <1>4, VersionFacts DEF CacheMiss, IsHit, CacheInv, TypeOK, InProgress
  <2> QED
    BY <1>4, <2>1, <2>2 DEF CacheMiss, CacheInv
<1>5. CASE OpenFile
  BY <1>5, OpenFileStep DEF OpenFile
<1>6. CASE WriteFile
  BY <1>6, WriteFileStep DEF WriteFile
<1>7. CASE ExtractFails \/ Return \/ Killed
  <2>1. TypeOK'
    BY <1>7 DEF ExtractFails, Return, Killed, CacheInv, TypeOK
  <2> QED
    BY <1>7, <2>1, QuietStep DEF ExtractFails, Return, Killed
<1>8. CASE OpenStamp
  <2>1. \A v \in Versions : NoStamp # Size[v]
    BY VersionFacts
  <2> QED
    BY <1>8, <2>1 DEF OpenStamp, NoEntryLeft, CacheInv, TypeOK, InProgress
<1>9. CASE OpenStampFails \/ WriteStampFails
  <2>1. Whole(blob)
    BY <1>9, WholeAtEnd DEF OpenStampFails, WriteStampFails, CacheInv
  <2>2. \A v \in Versions : Mixed(v)' <=> Mixed(v)
    BY <1>9 DEF OpenStampFails, WriteStampFails, Mixed, FilesOf
  <2>3. TypeOK' /\ InProgress' /\ (Whole(blob)' <=> Whole(blob))
    BY <1>9 DEF OpenStampFails, WriteStampFails, CacheInv, TypeOK, InProgress, Whole, FilesOf
  <2> QED
    BY <1>9, <2>1, <2>2, <2>3 DEF OpenStampFails, WriteStampFails, CacheInv
<1>10. CASE WriteStamp
  <2>1. Whole(blob) /\ blob \in Versions
    BY <1>10, WholeAtEnd DEF WriteStamp, CacheInv, TypeOK
  <2>2. Mixed(blob)' /\ Size[blob] = stamp'
    BY <1>10, <2>1 DEF WriteStamp, StampValue, Mixed, FilesOf, Whole
  <2> QED
    BY <1>10, <2>1, <2>2
    DEF WriteStamp, StampValue, CacheInv, TypeOK, InProgress
<1>11. CASE UNCHANGED vars
  BY <1>11 DEF vars, CacheInv, TypeOK, InProgress, Mixed, FilesOf, Whole, NoEntryLeft
<1> QED
  BY <1>1, <1>2, <1>3, <1>4, <1>5, <1>6, <1>7, <1>8, <1>9, <1>10, <1>11 DEF Next, Extract

(***************************************************************************)
(* The theorems.                                                           *)
(***************************************************************************)

\* CacheInv holds through every sequence of replacements, failures and kills
\* of extract_augins_zip.
THEOREM CacheInvariant == Spec => []CacheInv
BY CacheInvInit, CacheInvStep, PTL DEF Spec

\* The variables keep their types, and a readable stamp is an archive's size.
THEOREM TypeCorrect == Spec => []TypeOK
<1>1. CacheInv => TypeOK
  BY DEF CacheInv
<1> QED
  BY <1>1, CacheInvariant, PTL

\* A tree that is reported as extracted is that of an archive of the right size,
\* up to what interrupted extractions have overwritten since its stamp.
THEOREM HitsAreWhole == Spec => []HitIsWhole
<1>1. CacheInv => HitIsWhole
  <2> SUFFICES ASSUME CacheInv, pc = "served"
               PROVE  \E v \in Versions : Size[v] = Size[blob] /\ Mixed(v)
    BY DEF HitIsWhole
  <2>1. CASE Whole(blob)
    BY <2>1 DEF Whole, Mixed, CacheInv, TypeOK
  <2>2. CASE stamp = Size[blob]
    BY <2>2, VersionFacts DEF CacheInv, TypeOK
  <2> QED
    BY <2>1, <2>2 DEF CacheInv
<1> QED
  BY <1>1, CacheInvariant, PTL

\* A retry of an extraction that failed or was killed never takes the tree that
\* it left half written for a hit.
THEOREM RetriesAreWhole == Spec => []RetryIsWhole
<1>1. CacheInv => RetryIsWhole
  BY DEF CacheInv, RetryIsWhole
<1> QED
  BY <1>1, CacheInvariant, PTL
================================================================================
