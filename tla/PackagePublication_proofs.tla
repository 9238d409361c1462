----------------------- MODULE PackagePublication_proofs -----------------------
(***************************************************************************)
(* Proofs about PackagePublication, for any number of generators, writers  *)
(* and files: what readers see is whole, ended runs leave nothing behind,  *)
(* what a generator may not replace stays, and publishers of one case      *)
(* together implement a PackageStore.                                      *)
(***************************************************************************)
EXTENDS PackagePublication, TLAPS

\* Where a generator's staging directory holds its finished package.
StagedInv ==
    /\ \A w \in Writers :
          /\ pc[w] = "write" => \E n \in 0 .. FileCount : staging[w] = Directory(w, CaseOf[w], n)
          /\ pc[w] = "publish" => staging[w] = Package(w)
    /\ \A g \in Generators :
          pc[g] \in {"look", "recheck", "backup", "rename"} => staging[g] = Package(g)

\* A directory of the user's is never moved, and a generator makes no second
\* backup.
BackupInv ==
    \A g \in Generators :
        /\ pc[g] = "backup" => output # Foreign
        /\ pc[g] \in {"start", "emit", "look", "recheck", "backup"} => backup[g] = None

\* A backup that will be thrown away: its generator has shown its own package.
Committed(g)   == backup[g] # None /\ (published[g] \/ pc[g] = "mark")
Uncommitted(g) == backup[g] # None /\ ~ (published[g] \/ pc[g] = "mark")

\* Before a backup goes, another package is shown, or is the backup of a
\* generator that will keep it.
SpareInv ==
    (\E g \in Generators : Committed(g)) =>
        \/ output \in Packages
        \/ \E h \in Generators : Uncommitted(h)

PublishedInv ==
    \A g \in Generators : published[g] => pc[g] \in {"finally", "done", "crashed"}

TypeInv ==
    /\ pc \in [Publishers -> Labels]
    /\ DOMAIN staging = Publishers
    /\ backup \in [Generators -> Packages \cup {None}]
    /\ published \in [Generators -> BOOLEAN]
    /\ output \in Packages \cup {Foreign, None}

IInv == TypeInv /\ StagedInv /\ BackupInv /\ SpareInv /\ PublishedInv

-----------------------------------------------------------------------------

\* Packages, the user's directory and no directory are three different things.
LEMMA Distinct == None \notin Packages /\ None # Foreign /\ Foreign \notin Packages
  BY NoneAssumption, FileAssumption DEF Packages, Package, Existing, Foreign, Directory

\* What a publisher makes is a package, whole and never empty.
LEMMA PackageIsWhole ==
    ASSUME NEW p \in Publishers
    PROVE  /\ Package(p) \in Packages
           /\ Package(p) # None /\ Package(p) # Foreign
  BY Distinct DEF Packages

\* At the start nothing is staged and nothing backed up.
LEMMA InitIInv == Init => IInv
  <1> SUFFICES ASSUME Init PROVE IInv
    OBVIOUS
  <1> USE PublisherAssumption, Distinct DEF Init
  <1>1. TypeInv
    BY DEF TypeInv, Packages, Labels, Publishers
  <1>2. StagedInv /\ BackupInv /\ SpareInv /\ PublishedInv
    BY DEF StagedInv, BackupInv, SpareInv, Committed, PublishedInv, Publishers
  <1> QED
    BY <1>1, <1>2 DEF IInv

\* A step of a writer.
LEMMA WriteIInv ==
    ASSUME IInv, NEW w \in Writers, Write(w)
    PROVE  IInv'
  <1> w \in Publishers /\ w \notin Generators
    BY PublisherAssumption DEF Publishers
  <1> USE PublisherAssumption, FileAssumption, Distinct
  <1>1. TypeInv'
    BY PackageIsWhole DEF IInv, TypeInv, StagedInv, Write, InspectTarget, CreateStaging, WriteFile,
       ValidateWritten, Publish, Throw, Cleanup, Goto, Labels, Publishers
  <1>2. \A v \in Writers :
          /\ pc'[v] = "write" => \E n \in 0 .. FileCount : staging'[v] = Directory(v, CaseOf[v], n)
          /\ pc'[v] = "publish" => staging'[v] = Package(v)
    <2> SUFFICES ASSUME NEW v \in Writers
                 PROVE  /\ pc'[v] = "write" =>
                              \E n \in 0 .. FileCount : staging'[v] = Directory(v, CaseOf[v], n)
                        /\ pc'[v] = "publish" => staging'[v] = Package(v)
      OBVIOUS
    <2> v \in Publishers
      BY DEF Publishers
    <2>1. CASE InspectTarget(w)
      BY <2>1 DEF IInv, TypeInv, StagedInv, InspectTarget, Goto
    <2>2. CASE CreateStaging(w)
      BY <2>2 DEF IInv, TypeInv, StagedInv, CreateStaging, Goto
    <2>3. CASE WriteFile(w)
      <3> PICK n \in 0 .. FileCount : staging[w] = Directory(w, CaseOf[w], n)
        BY <2>3 DEF IInv, StagedInv, WriteFile
      <3>1. staging'[w] = Directory(w, CaseOf[w], n + 1) /\ n + 1 \in 0 .. FileCount
        BY <2>3 DEF WriteFile, Directory, IInv, TypeInv
      <3> QED
        BY <2>3, <3>1 DEF IInv, TypeInv, StagedInv, WriteFile
    <2>4. CASE ValidateWritten(w)
      <3> PICK n \in 0 .. FileCount : staging[w] = Directory(w, CaseOf[w], n)
        BY <2>4 DEF IInv, StagedInv, ValidateWritten
      <3>1. staging[w] = Package(w)
        BY <2>4 DEF ValidateWritten, Package, Directory
      <3> QED
        BY <2>4, <3>1 DEF IInv, TypeInv, StagedInv, ValidateWritten, Goto
    <2>5. CASE Publish(w)
      BY <2>5 DEF IInv, TypeInv, StagedInv, Publish, Goto
    <2>6. CASE Throw(w)
      BY <2>6 DEF IInv, TypeInv, StagedInv, Throw, Goto
    <2>7. CASE Cleanup(w)
      BY <2>7 DEF IInv, TypeInv, StagedInv, Cleanup, Goto
    <2> QED
      BY <2>1, <2>2, <2>3, <2>4, <2>5, <2>6, <2>7 DEF Write
  <1>3. /\ UNCHANGED <<backup, published>>
        /\ output' = output \/ output' = Package(w)
        /\ \A g \in Generators : pc'[g] = pc[g] /\ staging'[g] = staging[g]
    BY DEF IInv, TypeInv, StagedInv, Write, InspectTarget, CreateStaging, WriteFile,
       ValidateWritten, Publish, Throw, Cleanup, Goto, Publishers
  <1>4. StagedInv'
    BY <1>2, <1>3 DEF IInv, StagedInv
  <1>5. BackupInv' /\ PublishedInv'
    BY <1>3, PackageIsWhole DEF IInv, BackupInv, PublishedInv
  <1>6. SpareInv'
    BY <1>3, PackageIsWhole DEF IInv, SpareInv, Committed, Uncommitted
  <1> QED
    BY <1>1, <1>4, <1>5, <1>6 DEF IInv

\* What a step of a generator leaves alone.
LEMMA GenerateLocal ==
    ASSUME IInv, NEW g \in Generators, Generate(g)
    PROVE  /\ \A p \in Publishers \ {g} : pc'[p] = pc[p] /\ staging'[p] = staging[p]
           /\ \A h \in Generators \ {g} : backup'[h] = backup[h] /\ published'[h] = published[h]
           /\ output = Foreign => output' = Foreign
  BY Distinct DEF IInv, TypeInv, BackupInv, Generate, CheckExisting, Emit, Look, Recheck, BackUp, Rename,
     MarkPublished, Restore, Finally, Interrupt, Goto, Publishers

\* A step of a generator.
LEMMA GenerateIInv ==
    ASSUME IInv, NEW g \in Generators, Generate(g)
    PROVE  IInv'
  <1> g \in Publishers /\ g \notin Writers
    BY PublisherAssumption DEF Publishers
  <1> USE Distinct
  <1>1. TypeInv'
    <2>1. /\ pc' \in [Publishers -> Labels]
          /\ DOMAIN staging' = Publishers
          /\ published' \in [Generators -> BOOLEAN]
      BY DEF IInv, TypeInv, Generate, CheckExisting, Emit, Look, Recheck,
         BackUp, Rename, MarkPublished, Restore, Finally, Interrupt, Goto, Labels
    <2>2. output' \in Packages \cup {Foreign, None}
      BY PackageIsWhole DEF IInv, TypeInv, StagedInv, Generate, CheckExisting, Emit, Look, Recheck,
         BackUp, Rename, MarkPublished, Restore, Finally, Interrupt
    <2>3. backup' \in [Generators -> Packages \cup {None}]
      <3>1. CASE BackUp(g)
        BY <3>1 DEF IInv, TypeInv, BackupInv, BackUp
      <3>2. CASE Restore(g) \/ Finally(g)
        BY <3>2 DEF IInv, TypeInv, Restore, Finally
      <3>3. CASE UNCHANGED backup
        BY <3>3 DEF IInv, TypeInv
      <3> QED
        BY <3>1, <3>2, <3>3 DEF Generate, CheckExisting, Emit, Look, Recheck, Rename,
           MarkPublished, Interrupt
    <2> QED
      BY <2>1, <2>2, <2>3 DEF TypeInv
  <1>2. pc'[g] \in {"look", "recheck", "backup", "rename"} => staging'[g] = Package(g)
    BY DEF IInv, TypeInv, StagedInv, Generate, CheckExisting, Emit, Look, Recheck, BackUp, Rename,
       MarkPublished, Restore, Finally, Interrupt, Goto
  <1>3. StagedInv'
    BY <1>2, GenerateLocal DEF IInv, StagedInv, Publishers
  <1>4. /\ pc'[g] = "backup" => output' # Foreign
        /\ pc'[g] \in {"start", "emit", "look", "recheck", "backup"} => backup'[g] = None
    BY FileAssumption DEF IInv, TypeInv, BackupInv, Generate, CheckExisting, Emit, Look, Recheck,
       BackUp, Rename, MarkPublished, Restore, Finally, Interrupt, Goto, Valid, Foreign, Directory
  <1>5. output' = Foreign => output = Foreign
    BY PackageIsWhole DEF IInv, TypeInv, StagedInv, Generate, CheckExisting, Emit, Look, Recheck,
       BackUp, Rename, MarkPublished, Restore, Finally, Interrupt, Goto
  <1>6. BackupInv'
    BY <1>4, <1>5, GenerateLocal DEF IInv, BackupInv, Publishers
  <1>7. published'[g] => pc'[g] \in {"finally", "done", "crashed"}
    BY DEF IInv, TypeInv, PublishedInv, Generate, CheckExisting, Emit, Look, Recheck, BackUp, Rename,
       MarkPublished, Restore, Finally, Interrupt, Goto
  <1>8. PublishedInv'
    BY <1>7, GenerateLocal DEF IInv, PublishedInv, Publishers
  <1>9. SpareInv'
    <2>1. \A h \in Generators \ {g} :
            (Committed(h)' <=> Committed(h)) /\ (Uncommitted(h)' <=> Uncommitted(h))
      BY GenerateLocal DEF Committed, Uncommitted, Publishers
    <2>2. CASE UNCHANGED <<output, backup, published>> /\ pc[g] # "mark" /\ pc'[g] # "mark"
      BY <2>1, <2>2 DEF IInv, SpareInv, Committed, Uncommitted
    <2>3. CASE output' \in Packages
      BY <2>3 DEF SpareInv
    <2>4. CASE BackUp(g) /\ output # None
      <3>1. backup'[g] # None /\ pc'[g] = "rename" /\ published'[g] = published[g] /\ ~ published[g]
        BY <2>4 DEF BackUp, IInv, TypeInv, Goto, PublishedInv
      <3>2. Uncommitted(g)'
        BY <3>1 DEF Uncommitted
      <3> QED
        BY <3>2 DEF SpareInv
    <2>5. CASE MarkPublished(g)
      <3>1. UNCHANGED <<output, backup>> /\ published'[g] /\ pc[g] = "mark"
        BY <2>5 DEF MarkPublished, IInv, TypeInv
      <3>2. (Committed(g)' <=> Committed(g)) /\ (Uncommitted(g)' <=> Uncommitted(g))
        BY <3>1 DEF Committed, Uncommitted
      <3> QED
        BY <3>1, <3>2, <2>1 DEF IInv, SpareInv
    <2>6. CASE Interrupt(g) /\ pc[g] = "mark"
      <3>1. UNCHANGED <<output, backup, published>> /\ ~ published[g] /\ pc'[g] # "mark"
        BY <2>6 DEF Interrupt, IInv, TypeInv, PublishedInv, Goto
      <3>2. ~ Committed(g)' /\ (Committed(g) => Uncommitted(g)') /\ (Uncommitted(g) => Uncommitted(g)')
        BY <3>1 DEF Committed, Uncommitted
      <3> QED
        BY <3>1, <3>2, <2>1 DEF IInv, SpareInv
    <2>7. CASE Finally(g) /\ UNCHANGED <<backup>>
      <3>1. UNCHANGED <<output, backup, published>> /\ pc[g] # "mark" /\ pc'[g] # "mark"
        BY <2>7 DEF Finally, IInv, TypeInv, Goto
      <3> QED
        BY <3>1, <2>2
    <2>8. CASE Finally(g) /\ (backup[g] = None \/ published[g])
      <3>1. /\ UNCHANGED output /\ backup'[g] = None
            /\ ~ Uncommitted(g)
        BY <2>8 DEF Finally, IInv, TypeInv, Uncommitted
      <3>2. ~ Committed(g)' /\ ~ Uncommitted(g)
        BY <3>1 DEF Committed
      <3> QED
        BY <3>1, <3>2, <2>1 DEF IInv, SpareInv
    <2>9. CASE BackUp(g) /\ output = None
      BY <2>9, <2>2 DEF BackUp, Goto, IInv, TypeInv
    <2>10. CASE Rename(g)
      BY <2>10, <2>2, <2>3, PackageIsWhole DEF Rename, Goto, IInv, TypeInv, StagedInv
    <2>11. CASE Restore(g)
      BY <2>11, <2>2, <2>3 DEF Restore, Goto, IInv, TypeInv
    <2>12. CASE CheckExisting(g) \/ Emit(g) \/ Look(g) \/ Recheck(g) \/ (Interrupt(g) /\ pc[g] # "mark")
      BY <2>12, <2>2 DEF CheckExisting, Emit, Look, Recheck, Interrupt, Goto, IInv, TypeInv
    <2>13. Finally(g) => UNCHANGED backup \/ backup[g] = None \/ published[g]
      BY DEF Finally
    <2> QED
      BY <2>4, <2>5, <2>6, <2>7, <2>8, <2>9, <2>10, <2>11, <2>12, <2>13 DEF Generate
  <1> QED
    BY <1>1, <1>3, <1>6, <1>8, <1>9 DEF IInv

\* A crash turns a backup that would have gone into one that stays.
LEMMA CrashIInv ==
    ASSUME IInv, NEW p \in Publishers, Crash(p)
    PROVE  IInv'
  <1>1. /\ UNCHANGED <<output, staging, backup, published>>
        /\ pc' \in [Publishers -> Labels] /\ pc'[p] = "crashed"
        /\ \A q \in Publishers \ {p} : pc'[q] = pc[q]
    BY DEF Crash, Goto, IInv, TypeInv, Labels
  <1>2. TypeInv' /\ StagedInv' /\ BackupInv' /\ PublishedInv'
    BY <1>1 DEF IInv, TypeInv, StagedInv, BackupInv, PublishedInv, Publishers
  <1>3. \A g \in Generators :
          (Committed(g)' => Committed(g)) /\ (Uncommitted(g) => Uncommitted(g)')
    BY <1>1 DEF Committed, Uncommitted, Publishers
  <1>4. SpareInv'
    BY <1>1, <1>3 DEF IInv, SpareInv
  <1> QED
    BY <1>2, <1>4 DEF IInv

\* Every step, of anybody.
LEMMA NextIInv == IInv /\ [Next]_vars => IInv'
  <1> SUFFICES ASSUME IInv, [Next]_vars PROVE IInv'
    OBVIOUS
  <1>1. CASE Next
    BY <1>1, WriteIInv, GenerateIInv, CrashIInv DEF Next
  <1>2. CASE UNCHANGED vars
    BY <1>2 DEF vars, IInv, TypeInv, StagedInv, BackupInv, SpareInv, PublishedInv, Committed,
       Uncommitted
  <1> QED
    BY <1>1, <1>2

\* The invariant of every publication.
THEOREM Invariance == Spec => []IInv
  BY InitIInv, NextIInv, PTL DEF Spec

\* Whoever looks at the destination sees no directory, a whole package or a
\* directory of the user's, at any moment, whatever crashed.
THEOREM WholePackagesAlways == Spec => []WholePackages
  <1>1. IInv => WholePackages
    BY DEF IInv, TypeInv, WholePackages
  <1> QED
    BY <1>1, Invariance, PTL

-----------------------------------------------------------------------------
(* What is left behind.                                                    *)

\* Who has nothing staged: publishers before they made anything, writers that
\* ended, and generators that ended with nothing of another to keep.
LitterInv ==
    /\ staging \in [Publishers -> Directories \cup {None}]
    /\ \A w \in Writers : pc[w] \in {"start", "done", "failed"} => staging[w] = None
    /\ \A g \in Generators :
          /\ pc[g] \in {"start", "emit"} => staging[g] = None
          /\ pc[g] \in {"done", "failed"} =>
                staging[g] = None \/ (backup[g] # None /\ ~ published[g])

\* Everything that can be at the destination is a directory.
LEMMA PackagesAreDirectories == Packages \cup {Foreign} \subseteq Directories
  BY FileAssumption DEF Packages, Package, Existing, Foreign, Directory, Directories

\* A step of a writer moves its own staging directory only.
LEMMA WriteLitter ==
    ASSUME IInv, LitterInv, NEW w \in Writers, Write(w)
    PROVE  LitterInv'
  <1> w \in Publishers /\ w \notin Generators
    BY PublisherAssumption DEF Publishers
  <1>1. staging' \in [Publishers -> Directories \cup {None}]
    <2>1. CASE CreateStaging(w)
      <3>1. Directory(w, CaseOf[w], 0) \in Directories
        BY FileAssumption DEF Directory, Directories
      <3> QED
        BY <2>1, <3>1 DEF CreateStaging, LitterInv
    <2>2. CASE WriteFile(w)
      <3>1. PICK n \in 0 .. FileCount : staging[w] = Directory(w, CaseOf[w], n)
        BY <2>2 DEF IInv, StagedInv, WriteFile
      <3>2. n + 1 \in 0 .. FileCount
        BY <2>2, <3>1, FileAssumption DEF WriteFile, Directory
      <3>3. [staging[w] EXCEPT !.files = @ + 1] = Directory(w, CaseOf[w], n + 1)
        BY <3>1 DEF Directory
      <3>4. Directory(w, CaseOf[w], n + 1) \in Directories
        BY <3>2 DEF Directory, Directories
      <3>5. staging' = [staging EXCEPT ![w] = Directory(w, CaseOf[w], n + 1)]
        BY <2>2, <3>3 DEF WriteFile
      <3> QED
        BY <3>4, <3>5 DEF LitterInv
    <2>3. CASE UNCHANGED staging \/ staging' = [staging EXCEPT ![w] = None]
      BY <2>3 DEF LitterInv
    <2> QED
      BY <2>1, <2>2, <2>3 DEF Write, InspectTarget, ValidateWritten, Publish, Throw, Cleanup
  <1>2. pc'[w] \in {"start", "done", "failed"} => staging'[w] = None
    BY DEF IInv, TypeInv, LitterInv, Write, InspectTarget, CreateStaging, WriteFile,
       ValidateWritten, Publish, Throw, Cleanup, Goto
  <1>3. /\ UNCHANGED <<backup, published>>
        /\ \A p \in Publishers \ {w} : pc'[p] = pc[p] /\ staging'[p] = staging[p]
    BY DEF IInv, TypeInv, Write, InspectTarget, CreateStaging, WriteFile, ValidateWritten,
       Publish, Throw, Cleanup, Goto
  <1> QED
    BY <1>1, <1>2, <1>3 DEF LitterInv, Publishers

\* A step of a generator: its finally clears the scratch directory or keeps it
\* for the sake of the backup.
LEMMA GenerateLitter ==
    ASSUME IInv, LitterInv, NEW g \in Generators, Generate(g)
    PROVE  LitterInv'
  <1> g \in Publishers /\ g \notin Writers
    BY PublisherAssumption DEF Publishers
  <1>1. staging' \in [Publishers -> Directories \cup {None}]
    <2>1. CASE Emit(g)
      BY <2>1, PackageIsWhole, PackagesAreDirectories DEF Emit, LitterInv
    <2>2. CASE UNCHANGED staging \/ staging' = [staging EXCEPT ![g] = None]
      BY <2>2 DEF LitterInv
    <2> QED
      BY <2>1, <2>2 DEF Generate, CheckExisting, Look, Recheck, BackUp, Rename, MarkPublished,
         Restore, Finally, Interrupt
  <1>2. pc'[g] \in {"start", "emit"} => staging'[g] = None
    BY DEF IInv, TypeInv, LitterInv, Generate, CheckExisting, Emit, Look, Recheck, BackUp,
       Rename, MarkPublished, Restore, Finally, Interrupt, Goto
  <1>3. pc'[g] \in {"done", "failed"} =>
           staging'[g] = None \/ (backup'[g] # None /\ ~ published'[g])
    <2>1. CASE CheckExisting(g)
      BY <2>1 DEF IInv, TypeInv, LitterInv, CheckExisting, Goto
    <2>2. CASE Finally(g)
      BY <2>2 DEF IInv, TypeInv, LitterInv, Finally
    <2>3. CASE pc'[g] \notin {"done", "failed"}
      BY <2>3
    <2> QED
      BY <2>1, <2>2, <2>3 DEF IInv, TypeInv, Generate, Emit, Look, Recheck, BackUp, Rename,
         MarkPublished, Restore, Interrupt, Goto
  <1>4. \A p \in Publishers \ {g} : pc'[p] = pc[p] /\ staging'[p] = staging[p]
    BY GenerateLocal
  <1>5. \A h \in Generators \ {g} : backup'[h] = backup[h] /\ published'[h] = published[h]
    BY GenerateLocal
  <1> QED
    BY <1>1, <1>2, <1>3, <1>4, <1>5 DEF LitterInv, Publishers

\* The bookkeeping of what is staged holds throughout.
LEMMA LitterInvariance == Spec => []LitterInv
  <1>1. Init => LitterInv
    BY PublisherAssumption DEF Init, LitterInv, Publishers
  <1>2. IInv /\ LitterInv /\ [Next]_vars => LitterInv'
    <2> SUFFICES ASSUME IInv, LitterInv, [Next]_vars PROVE LitterInv'
      OBVIOUS
    <2>1. ASSUME NEW p \in Publishers, Crash(p) PROVE LitterInv'
      BY <2>1 DEF Crash, Goto, IInv, TypeInv, LitterInv, Publishers
    <2>2. CASE UNCHANGED vars
      BY <2>2 DEF vars, LitterInv
    <2> QED
      BY <2>1, <2>2, WriteLitter, GenerateLitter DEF Next
  <1> QED
    BY <1>1, <1>2, Invariance, PTL DEF Spec

\* However a run ended, short of a crash, its scratch directory is gone, unless
\* it holds the only copy of a package that could not be put back.
THEOREM NothingLeftBehind == Spec => []NoLitter
  <1>1. IInv /\ LitterInv => NoLitter
    <2> SUFFICES ASSUME IInv, LitterInv PROVE NoLitter
      OBVIOUS
    <2>1. TypeOK
      BY PackagesAreDirectories DEF IInv, TypeInv, LitterInv, TypeOK
    <2>2. ASSUME NEW p \in Publishers, pc[p] \in {"done", "failed"}
          PROVE  staging[p] = None \/ (p \in Generators /\ backup[p] # None /\ ~ published[p])
      BY <2>2 DEF LitterInv, Publishers
    <2> QED
      BY <2>1, <2>2 DEF NoLitter
  <1> QED
    BY <1>1, Invariance, LitterInvariance, PTL

-----------------------------------------------------------------------------
(* What is not taken away.                                                 *)

\* All publishers make the same case, or only one run of the script is at work.
SameCase == \A p, q \in Publishers : CaseOf[p] = CaseOf[q]
Cooperating ==
    \/ SameCase
    \/ \A g, h \in Generators : g = h

Replaceable(g, d) == Valid(d) /\ d.case = CaseOf[g]

\* What a generator has rechecked can still be replaced when it takes it away,
\* unless another of the same case was faster; and so can what it took away.
CheckedInv ==
    \A g \in Generators :
        /\ pc[g] = "backup" =>
              \/ Replaceable(g, output)
              \/ output = None /\ \E h \in Generators : h # g
        /\ backup[g] # None => Replaceable(g, backup[g])

\* What a publisher makes, a generator of the same case may replace.
LEMMA PackageReplaceable ==
    ASSUME NEW p \in Publishers, NEW g \in Generators, CaseOf[p] = CaseOf[g]
    PROVE  Replaceable(g, Package(p))
  BY PackageIsWhole DEF Replaceable, Valid, Package, Directory

\* A writer shows a package only where there is none.
LEMMA WriteChecked ==
    ASSUME Cooperating, IInv, CheckedInv, NEW w \in Writers, Write(w)
    PROVE  CheckedInv'
  <1> w \in Publishers /\ w \notin Generators
    BY PublisherAssumption DEF Publishers
  <1>1. /\ backup' = backup
        /\ \A g \in Generators : pc'[g] = pc[g]
        /\ output' = output \/ (output = None /\ output' = Package(w))
    BY DEF IInv, TypeInv, StagedInv, Write, InspectTarget, CreateStaging, WriteFile,
       ValidateWritten, Publish, Throw, Cleanup, Goto, Publishers
  <1>2. ASSUME NEW g \in Generators, pc[g] = "backup", output = None, output' = Package(w)
        PROVE  Replaceable(g, output)'
    <2>1. ~ Replaceable(g, output)
      BY <1>2 DEF Replaceable, Valid
    <2>2. CaseOf[w] = CaseOf[g]
      BY <1>2, <2>1 DEF CheckedInv, Cooperating, SameCase, Publishers
    <2> QED
      BY <1>2, <2>2, PackageReplaceable DEF Replaceable
  <1> QED
    BY <1>1, <1>2 DEF CheckedInv, Replaceable

\* Among generators of several cases there is only one.
LEMMA GenerateChecked ==
    ASSUME Cooperating, IInv, CheckedInv, NEW g \in Generators, Generate(g)
    PROVE  CheckedInv'
  <1> g \in Publishers
    BY DEF Publishers
  <1>1. /\ pc'[g] = "backup" => output' = output /\ Replaceable(g, output)
        /\ backup'[g] # None => Replaceable(g, backup'[g])
    <2>1. CASE Recheck(g)
      BY <2>1 DEF Recheck, Goto, IInv, TypeInv, CheckedInv, Replaceable
    <2>2. CASE BackUp(g)
      BY <2>2 DEF BackUp, Goto, IInv, TypeInv, CheckedInv
    <2>3. CASE Restore(g) \/ Finally(g)
      BY <2>3 DEF Restore, Finally, Goto, IInv, TypeInv, CheckedInv
    <2> QED
      BY <2>1, <2>2, <2>3 DEF Generate, CheckExisting, Emit, Look, Rename, MarkPublished,
         Interrupt, Goto, IInv, TypeInv, CheckedInv
  <1>2. ASSUME NEW h \in Generators \ {g}
        PROVE  /\ pc'[h] = "backup" => Replaceable(h, output') \/ (output' = None /\ h # g)
               /\ backup'[h] # None => Replaceable(h, backup'[h])
    <2>1. CaseOf[h] = CaseOf[g]
      BY DEF Cooperating, SameCase, Publishers
    <2>2. pc'[h] = pc[h] /\ backup'[h] = backup[h]
      BY GenerateLocal DEF Publishers
    <2>3. \/ output' = output \/ output' = None \/ output' = Package(g)
          \/ output' = backup[g] /\ backup[g] # None
      BY DEF IInv, StagedInv, Generate, CheckExisting, Emit, Look, Recheck, BackUp, Rename,
         MarkPublished, Restore, Finally, Interrupt
    <2>4. Replaceable(h, Package(g))
      BY <2>1, PackageReplaceable
    <2>5. backup[g] # None => Replaceable(h, backup[g])
      BY <2>1 DEF CheckedInv, Replaceable
    <2> QED
      BY <2>2, <2>3, <2>4, <2>5 DEF CheckedInv
  <1>3. Replaceable(g, output') <=> Replaceable(g, output)'
    BY DEF Replaceable, Valid
  <1> QED
    BY <1>1, <1>2 DEF CheckedInv, Replaceable, Valid

\* That holds throughout.
LEMMA NextChecked == Cooperating /\ IInv /\ CheckedInv /\ [Next]_vars => CheckedInv'
  <1> SUFFICES ASSUME Cooperating, IInv, CheckedInv, [Next]_vars PROVE CheckedInv'
    OBVIOUS
  <1>1. ASSUME NEW p \in Publishers, Crash(p) PROVE CheckedInv'
    BY <1>1 DEF Crash, Goto, IInv, TypeInv, CheckedInv, Replaceable, Valid, Publishers
  <1>2. CASE UNCHANGED vars
    BY <1>2 DEF vars, CheckedInv, Replaceable, Valid
  <1> QED
    BY <1>1, <1>2, WriteChecked, GenerateChecked DEF Next

LEMMA InitChecked == Init => CheckedInv
  BY DEF Init, CheckedInv, Publishers

\* An ordinary directory, a damaged package or a package of another case stays
\* where it is, whatever fails: for any number of publishers of one case, and for
\* one generator among writers of any case.
THEOREM NothingTakenAway ==
    ASSUME Cooperating
    PROVE  Spec => OthersLeftAlone
  <1>1. IInv /\ CheckedInv /\ [Next]_vars =>
          [\A g \in Generators :
             output # None /\ ~ (Valid(output) /\ output.case = CaseOf[g])
             => output' = output]_vars
    <2> SUFFICES ASSUME IInv, CheckedInv, Next, NEW g \in Generators, output # None,
                        ~ Replaceable(g, output)
                 PROVE  output' = output
      BY DEF Replaceable
    <2>1. ASSUME NEW h \in Generators, BackUp(h) PROVE FALSE
      <3>1. CaseOf[h] = CaseOf[g]
        BY DEF Cooperating, SameCase, Publishers
      <3>2. Replaceable(h, output)
        BY <2>1 DEF BackUp, CheckedInv
      <3> QED
        BY <3>1, <3>2 DEF Replaceable
    <2> QED
      BY <2>1 DEF Next, Write, InspectTarget, CreateStaging, WriteFile, ValidateWritten, Publish,
         Throw, Cleanup, Generate, CheckExisting, Emit, Look, Recheck, Rename, MarkPublished,
         Restore, Finally, Interrupt, Crash
  <1> QED
    BY <1>1, InitChecked, NextChecked, Invariance, PTL DEF Spec, OthersLeftAlone

-----------------------------------------------------------------------------
(* Refinement.                                                             *)

\* Once a package was taken away, only packages of its case are shown.
ShownInv == \A g \in Generators : backup[g] # None => output = None \/ output.case = CaseOf[g]

LEMMA InitShown == Init => ShownInv
  BY DEF Init, ShownInv

LEMMA NextShown == SameCase /\ IInv /\ CheckedInv /\ ShownInv /\ [Next]_vars => ShownInv'
  <1> SUFFICES ASSUME SameCase, IInv, CheckedInv, ShownInv, [Next]_vars,
                      NEW g \in Generators, backup'[g] # None, output' # None
               PROVE  output'.case = CaseOf[g]
    BY DEF ShownInv
  <1>1. backup[g] # None
    BY DEF Next, Write, InspectTarget, CreateStaging, WriteFile, ValidateWritten, Publish,
       Throw, Cleanup, Generate, CheckExisting, Emit, Look, Recheck, BackUp, Rename,
       MarkPublished, Restore, Finally, Interrupt, Crash, vars, IInv, TypeInv
  <1>2. \/ output' = output
        \/ \E p \in Publishers : output' = Package(p)
        \/ \E h \in Generators : output' = backup[h] /\ backup[h] # None
    BY DEF Next, Write, InspectTarget, CreateStaging, WriteFile, ValidateWritten, Publish,
       Throw, Cleanup, Generate, CheckExisting, Emit, Look, Recheck, BackUp, Rename,
       MarkPublished, Restore, Finally, Interrupt, Crash, vars, IInv, StagedInv, Publishers
  <1>3. \A p \in Publishers : Package(p).case = CaseOf[g]
    BY DEF SameCase, Package, Directory, Publishers
  <1>4. \A h \in Generators : backup[h] # None => backup[h].case = CaseOf[g]
    BY DEF SameCase, CheckedInv, Replaceable, Publishers
  <1> QED
    BY <1>1, <1>2, <1>3, <1>4 DEF ShownInv

\* A package shown where there was nothing is one more that can be had.
LEMMA OneMoreKept ==
    ASSUME NEW p \in Packages, output = None, output' = p, backup' = backup
    PROVE  Kept' = Kept \cup {p}
  <1>1. Kept = {backup[g] : g \in Generators} \cap Packages
    BY Distinct DEF Kept
  <1>2. Kept' = ({p} \cup {backup[g] : g \in Generators}) \cap Packages
    BY DEF Kept
  <1> QED
    BY <1>1, <1>2

\* The initial file system is that of a store.
LEMMA InitStore == Init => Store!Init
  <1> SUFFICES ASSUME Init PROVE Store!Init
    OBVIOUS
  <1>1. output \in Packages \cup {Foreign, None}
    BY DEF Init, Packages
  <1>2. Kept = {output} \cap Packages
    BY Distinct DEF Kept, Init
  <1> QED
    BY <1>1, <1>2 DEF Store!Init

\* A writer publishes, or does nothing that shows.
LEMMA WriteStore ==
    ASSUME IInv, NEW w \in Writers, Write(w)
    PROVE  [Store!Next]_<<output, Kept>>
  <1> w \in Publishers
    BY DEF Publishers
  <1>1. CASE Publish(w) /\ output = None
    <2>1. output' = Package(w) /\ backup' = backup /\ Package(w) \in Packages
      BY <1>1, PackageIsWhole DEF Publish, IInv, StagedInv
    <2>2. Kept' = Kept \cup {Package(w)}
      BY <2>1, <1>1, OneMoreKept
    <2> QED
      BY <1>1, <2>1, <2>2 DEF Store!Next, Store!Publish
  <1>2. CASE UNCHANGED <<output, backup>>
    BY <1>2 DEF Kept
  <1> QED
    BY <1>1, <1>2 DEF Write, InspectTarget, CreateStaging, WriteFile, ValidateWritten, Publish,
       Throw, Cleanup

\* A generator withdraws, publishes, restores or discards, or does nothing that
\* shows.
LEMMA GenerateStore ==
    ASSUME SameCase, IInv, CheckedInv, ShownInv, NEW g \in Generators, Generate(g)
    PROVE  [Store!Next]_<<output, Kept>>
  <1> g \in Publishers
    BY DEF Publishers
  <1>1. CASE BackUp(g) /\ output # None
    <2>1. /\ backup[g] = None /\ output \in Packages
          /\ backup' = [backup EXCEPT ![g] = output] /\ output' = None
      BY <1>1 DEF BackUp, IInv, TypeInv, BackupInv
    <2>2. Kept' = Kept
      BY <2>1, Distinct DEF Kept, IInv, TypeInv
    <2> QED
      BY <2>1, <2>2 DEF Store!Next, Store!Withdraw
  <1>2. CASE Rename(g) /\ output = None
    <2>1. output' = Package(g) /\ backup' = backup /\ Package(g) \in Packages
      BY <1>2, PackageIsWhole DEF Rename, IInv, StagedInv
    <2>2. Kept' = Kept \cup {Package(g)}
      BY <2>1, <1>2, OneMoreKept
    <2> QED
      BY <1>2, <2>1, <2>2 DEF Store!Next, Store!Publish
  <1>3. CASE Restore(g) /\ ~ UNCHANGED <<output, backup>>
    <2>1. /\ output = None /\ backup[g] # None
          /\ output' = backup[g] /\ backup' = [backup EXCEPT ![g] = None]
      BY <1>3 DEF Restore
    <2>2. backup[g] \in Kept
      BY <2>1 DEF Kept, IInv, TypeInv
    <2>3. Kept' = Kept
      BY <2>1, Distinct DEF Kept, IInv, TypeInv
    <2> QED
      BY <2>1, <2>2, <2>3 DEF Store!Next, Store!Restore
  <1>4. CASE Finally(g) /\ ~ UNCHANGED backup
    <2>1. /\ backup' = [backup EXCEPT ![g] = None] /\ output' = output
          /\ backup[g] \in Packages /\ published[g]
      BY <1>4 DEF Finally, IInv, TypeInv
    <2> DEFINE p == backup[g]
    <2>2. Kept \ {p} \subseteq Kept' /\ Kept' \subseteq Kept
      BY <2>1, Distinct DEF Kept, IInv, TypeInv
    <2>3. CASE p \in Kept'
      BY <2>1, <2>2, <2>3
    <2>4. CASE p \notin Kept'
      <3>1. Kept' = Kept \ {p} /\ p \in Kept
        BY <2>1, <2>2, <2>4 DEF Kept
      <3>2. p # output
        BY <2>1, <2>4 DEF Kept
      <3>3. PICK q \in Packages : q = output \/ \E h \in Generators : Uncommitted(h) /\ q = backup[h]
        <4>1. Committed(g)
          BY <2>1, Distinct DEF Committed
        <4> QED
          BY <4>1 DEF IInv, SpareInv, TypeInv, Uncommitted
      <3>4. q \in Kept'
        <4>1. ~ Uncommitted(g)
          BY <2>1 DEF Uncommitted
        <4> QED
          BY <3>3, <4>1, <2>1 DEF Kept, IInv, TypeInv
      <3>5. q \in Kept \ {p} /\ q.case = p.case
        <4>1. p # None /\ q # None
          BY <2>1, Distinct
        <4>2. p.case = CaseOf[g]
          BY <4>1 DEF CheckedInv, Replaceable
        <4>3. q = output => q.case = CaseOf[g]
          BY <4>1 DEF ShownInv
        <4>4. \A h \in Generators : Uncommitted(h) => backup[h].case = CaseOf[g]
          BY DEF Uncommitted, CheckedInv, Replaceable, SameCase, Publishers
        <4> QED
          BY <3>1, <3>3, <3>4, <4>2, <4>3, <4>4
      <3> QED
        BY <3>1, <3>2, <3>5, <2>1 DEF Store!Next, Store!Discard
    <2> QED
      BY <2>3, <2>4
  <1>5. CASE UNCHANGED <<output, backup>>
    BY <1>5 DEF Kept
  <1> QED
    BY <1>1, <1>2, <1>3, <1>4, <1>5 DEF Generate, CheckExisting, Emit, Look, Recheck, BackUp,
       Rename, MarkPublished, Restore, Finally, Interrupt

\* Publishers of one case implement a PackageStore, whatever fails, is
\* interrupted or crashes: no package is lost before another can be had, and none
\* is replaced in place.
THEOREM Implementation ==
    ASSUME SameCase
    PROVE  Spec => ImplementsStore
  <1>1. ASSUME IInv, CheckedInv, ShownInv, Next PROVE [Store!Next]_<<output, Kept>>
    <2>1. ASSUME NEW p \in Publishers, Crash(p) PROVE UNCHANGED <<output, Kept>>
      BY <2>1 DEF Crash, Kept
    <2> QED
      BY <1>1, <2>1, WriteStore, GenerateStore, SameCase DEF Next
  <1>2. IInv /\ CheckedInv /\ ShownInv /\ [Next]_vars => [Store!Next]_(Store!store)
    BY <1>1 DEF vars, Kept, Store!store
  <1>3. IInv /\ CheckedInv /\ ShownInv /\ [Next]_vars => (CheckedInv /\ ShownInv)'
    BY SameCase, NextChecked, NextShown DEF Cooperating
  <1> QED
    BY <1>2, <1>3, InitStore, InitChecked, InitShown, Invariance, PTL DEF Spec, ImplementsStore, Store!Spec

================================================================================
