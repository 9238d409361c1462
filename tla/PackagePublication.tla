-------------------------- MODULE PackagePublication --------------------------
(***************************************************************************)
(* The two ways a package directory comes into being: an application that  *)
(* writes it directly (write_application_package), which never replaces    *)
(* anything, and tools/generate_application_package.py, which runs such an *)
(* application in a scratch directory and may replace an earlier package   *)
(* of the same case.  Both work on the same file system, may be started at *)
(* any time, fail, be interrupted or killed at any step.                   *)
(*                                                                         *)
(* One step is one system call that others can see, or one validation.     *)
(***************************************************************************)
EXTENDS Naturals

CONSTANTS
    Generators,    \* runs of the script
    Writers,       \* applications run directly with --emit-dir
    CaseOf,        \* the case and scheme that each of them makes
    FileCount,     \* files of a package, its manifests included
    InitialCases,  \* the cases a package found at the start may have
    None

Publishers == Generators \cup Writers

ASSUME PublisherAssumption ==
    /\ Generators \cap Writers = {}
    /\ None \notin Publishers

ASSUME FileAssumption == FileCount \in Nat \ {0}

VARIABLES
    output,        \* the directory at the destination path
    pc,            \* where each publisher is
    staging,       \* its private new directory
    backup,        \* a generator's scratch / "previous"
    published      \* its variable of that name

vars == <<output, pc, staging, backup, published>>

-----------------------------------------------------------------------------
(* Directories.                                                            *)

Directory(owner, case, files) == [owner |-> owner, case |-> case, files |-> files]

\* A directory of the user's that is not a package, and one found at the start.
Foreign     == Directory(None, None, 0)
Existing(c) == Directory(None, c, FileCount)

\* validate_application_package_on_disk(), as far as publication can tell: every
\* listed file is there with the content its checksum says.
Valid(d) == d # None /\ d.files = FileCount

Package(p) == Directory(p, CaseOf[p], FileCount)

Packages == {Package(p) : p \in Publishers} \cup {Existing(c) : c \in InitialCases}

ASSUME NoneAssumption == None \notin Packages \cup {Foreign}

Goto(p, label) == pc' = [pc EXCEPT ![p] = label]

-----------------------------------------------------------------------------
(* write_application_package().                                            *)

InspectTarget(w) ==
    /\ pc[w] = "start"
    /\ Goto(w, IF output = None THEN "stage" ELSE "failed")
    /\ UNCHANGED <<output, staging, backup, published>>

\* Mutant: the files are written where everyone looks.
CreateStagingInPlace(w) ==
    /\ pc[w] = "stage"
    /\ staging' = [staging EXCEPT ![w] = Directory(w, CaseOf[w], 0)]
    /\ output' = IF output = None THEN Directory(w, CaseOf[w], 0) ELSE output
    /\ Goto(w, "write")
    /\ UNCHANGED <<backup, published>>

\* create_private_staging(): a unique directory beside the target.
CreateStaging(w) ==
    /\ pc[w] = "stage"
    /\ staging' = [staging EXCEPT ![w] = Directory(w, CaseOf[w], 0)]
    /\ Goto(w, "write")
    /\ UNCHANGED <<output, backup, published>>

\* write_file_atomic(): the name shows the whole file or nothing.
WriteFile(w) ==
    /\ pc[w] = "write" /\ staging[w].files < FileCount
    /\ staging' = [staging EXCEPT ![w].files = @ + 1]
    /\ UNCHANGED <<output, pc, backup, published>>

ValidateWritten(w) ==
    /\ pc[w] = "write" /\ staging[w].files = FileCount
    /\ Goto(w, "publish")
    /\ UNCHANGED <<output, staging, backup, published>>

\* publish_directory_noreplace(), and cleanup.release().
Publish(w) ==
    /\ pc[w] = "publish"
    /\ IF output = None
       THEN /\ output' = staging[w]
            /\ staging' = [staging EXCEPT ![w] = None]
            /\ Goto(w, "done")
       ELSE /\ Goto(w, "cleanup")
            /\ UNCHANGED <<output, staging>>
    /\ UNCHANGED <<backup, published>>

\* Any step from the first file on may throw.
Throw(w) ==
    /\ pc[w] \in {"write", "publish"}
    /\ Goto(w, "cleanup")
    /\ UNCHANGED <<output, staging, backup, published>>

\* Mutant: the staging directory was released before it was published.
CleanupReleased(w) ==
    /\ pc[w] = "cleanup"
    /\ Goto(w, "failed")
    /\ UNCHANGED <<output, staging, backup, published>>

\* ~StagingCleanup().
Cleanup(w) ==
    /\ pc[w] = "cleanup"
    /\ staging' = [staging EXCEPT ![w] = None]
    /\ Goto(w, "failed")
    /\ UNCHANGED <<output, backup, published>>

-----------------------------------------------------------------------------
(* generate().                                                             *)

\* What is there already must be a package.
CheckExisting(g) ==
    /\ pc[g] = "start"
    /\ Goto(g, IF output = None \/ Valid(output) THEN "emit" ELSE "failed")
    /\ UNCHANGED <<output, staging, backup, published>>

\* The example writes its package into the scratch directory, where only this
\* run looks, and the validator accepts it; or one of them fails.
Emit(g) ==
    /\ pc[g] = "emit"
    /\ \/ /\ staging' = [staging EXCEPT ![g] = Package(g)]
          /\ Goto(g, "look")
       \/ /\ Goto(g, "finally")
          /\ UNCHANGED staging
    /\ UNCHANGED <<output, backup, published>>

Look(g) ==
    /\ pc[g] = "look"
    /\ Goto(g, IF output = None THEN "rename" ELSE "recheck")
    /\ UNCHANGED <<output, staging, backup, published>>

\* Mutant: any valid package may be replaced.
RecheckValid(g) ==
    /\ pc[g] = "recheck"
    /\ Goto(g, IF Valid(output) THEN "backup" ELSE "finally")
    /\ UNCHANGED <<output, staging, backup, published>>

\* "Recheck after generation, before touching any existing directory."
Recheck(g) ==
    /\ pc[g] = "recheck"
    /\ Goto(g, IF Valid(output) /\ output.case = CaseOf[g] THEN "backup" ELSE "finally")
    /\ UNCHANGED <<output, staging, backup, published>>

\* os.rename(output, backup)
BackUp(g) ==
    /\ pc[g] = "backup"
    /\ IF output = None
       THEN /\ Goto(g, "finally")
            /\ UNCHANGED <<output, backup>>
       ELSE /\ backup' = [backup EXCEPT ![g] = output]
            /\ output' = None
            /\ Goto(g, "rename")
    /\ UNCHANGED <<staging, published>>

\* os.rename(staging, output), which refuses to replace a directory with files.
Rename(g) ==
    /\ pc[g] = "rename"
    /\ IF output = None
       THEN /\ output' = staging[g]
            /\ staging' = [staging EXCEPT ![g] = None]
            /\ Goto(g, "mark")
       ELSE /\ Goto(g, "restore")
            /\ UNCHANGED <<output, staging>>
    /\ UNCHANGED <<backup, published>>

MarkPublished(g) ==
    /\ pc[g] = "mark"
    /\ published' = [published EXCEPT ![g] = TRUE]
    /\ Goto(g, "finally")
    /\ UNCHANGED <<output, staging, backup>>

\* except: os.rename(backup, output), which may itself fail.
Restore(g) ==
    /\ pc[g] = "restore"
    /\ Goto(g, "finally")
    /\ \/ /\ backup[g] # None /\ output = None
          /\ output' = backup[g]
          /\ backup' = [backup EXCEPT ![g] = None]
       \/ UNCHANGED <<output, backup>>
    /\ UNCHANGED <<staging, published>>

\* Mutant: the scratch directory always goes.
FinallyRemove(g) ==
    /\ pc[g] = "finally"
    /\ staging' = [staging EXCEPT ![g] = None]
    /\ backup' = [backup EXCEPT ![g] = None]
    /\ Goto(g, IF published[g] THEN "done" ELSE "failed")
    /\ UNCHANGED <<output, published>>

\* finally: the only copy of an earlier package is retained; else rmtree(scratch).
Finally(g) ==
    /\ pc[g] = "finally"
    /\ IF backup[g] # None /\ ~ published[g]
       THEN UNCHANGED <<staging, backup>>
       ELSE /\ staging' = [staging EXCEPT ![g] = None]
            /\ backup' = [backup EXCEPT ![g] = None]
    /\ Goto(g, IF published[g] THEN "done" ELSE "failed")
    /\ UNCHANGED <<output, published>>

\* A failing call or a KeyboardInterrupt.  The first rename is before the inner
\* try, so that an interrupt after it may skip the restoring.
Interrupt(g) ==
    /\ \/ pc[g] \in {"look", "recheck", "backup", "rename"} /\ Goto(g, "finally")
       \/ pc[g] \in {"rename", "mark"} /\ Goto(g, "restore")
    /\ UNCHANGED <<output, staging, backup, published>>

\* A kill or a power failure: whatever is on disk stays.
Crash(p) ==
    /\ pc[p] \notin {"done", "failed", "crashed"}
    /\ Goto(p, "crashed")
    /\ UNCHANGED <<output, staging, backup, published>>

-----------------------------------------------------------------------------

Init ==
    /\ output \in {Existing(c) : c \in InitialCases} \cup {Foreign, None}
    /\ pc = [p \in Publishers |-> "start"]
    /\ staging = [p \in Publishers |-> None]
    /\ backup = [g \in Generators |-> None]
    /\ published = [g \in Generators |-> FALSE]

Write(w) ==
    \/ InspectTarget(w) \/ CreateStaging(w) \/ WriteFile(w) \/ ValidateWritten(w)
    \/ Publish(w) \/ Throw(w) \/ Cleanup(w)

Generate(g) ==
    \/ CheckExisting(g) \/ Emit(g) \/ Look(g) \/ Recheck(g) \/ BackUp(g)
    \/ Rename(g) \/ MarkPublished(g) \/ Restore(g) \/ Finally(g) \/ Interrupt(g)

Next ==
    \/ \E w \in Writers : Write(w)
    \/ \E g \in Generators : Generate(g)
    \/ \E p \in Publishers : Crash(p)

Spec == Init /\ [][Next]_vars

-----------------------------------------------------------------------------
(* Properties.                                                             *)

Labels ==
    {"start", "stage", "write", "publish", "cleanup", "emit", "look", "recheck",
     "backup", "rename", "mark", "restore", "finally", "done", "failed", "crashed"}

Directories ==
    [owner : Publishers \cup {None}, case : {CaseOf[p] : p \in Publishers} \cup InitialCases \cup {None},
     files : 0 .. FileCount]

\* The file system holds directories.
TypeOK ==
    /\ output \in Directories \cup {None}
    /\ pc \in [Publishers -> Labels]
    /\ staging \in [Publishers -> Directories \cup {None}]
    /\ backup \in [Generators -> Directories \cup {None}]
    /\ published \in [Generators -> BOOLEAN]

\* Whoever looks at the destination sees no directory, a whole package, or what
\* was there before and is not a package; and what a generator holds as the
\* previous version is a whole package.
WholePackages ==
    /\ output \in Packages \cup {Foreign, None}
    /\ \A g \in Generators : backup[g] \in Packages \cup {None}

\* "Existing packages are kept if generation fails", a directory that is not a
\* package is never touched, and a version on show is always taken away before
\* the next appears: for publishers of one case, whatever fails and whoever else
\* is at work, publication is a PackageStore.
Kept == ({output} \cup {backup[g] : g \in Generators}) \cap Packages

Store == INSTANCE PackageStore WITH shown <- output, kept <- Kept

ImplementsStore == Store!Spec

\* A run that ended leaves nothing behind but a previous package that it could
\* not put back; until then there are only directories, none with too many files.
NoLitter ==
    /\ TypeOK
    /\ \A p \in Publishers :
          pc[p] \in {"done", "failed"} =>
              \/ staging[p] = None
              \/ p \in Generators /\ backup[p] # None /\ ~ published[p]

\* "Ordinary directories, damaged packages and other cases are not replaced":
\* they stay, as long as all publishers at the destination make the same case, or
\* only one of them is a generator.
OthersLeftAlone ==
    [][\A g \in Generators :
         output # None /\ ~ (Valid(output) /\ output.case = CaseOf[g])
         => output' = output]_vars

===============================================================================
