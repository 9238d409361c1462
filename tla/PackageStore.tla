----------------------------- MODULE PackageStore -----------------------------
(***************************************************************************)
(* What publication promises to those who use a package directory: it      *)
(* shows nothing or one whole package, a package on show is taken away     *)
(* before another takes its place, and no package is given up before       *)
(* another of the same case can be had.  A directory that is not a package *)
(* stays where it is.                                                      *)
(***************************************************************************)

CONSTANTS
    Packages,      \* whole packages: records with a case
    Foreign,       \* a directory that is not a package
    None

VARIABLES
    shown,         \* what the directory shows
    kept           \* the packages that can still be had

store == <<shown, kept>>

Init ==
    /\ shown \in Packages \cup {Foreign, None}
    /\ kept = {shown} \cap Packages

Publish ==
    /\ shown = None
    /\ \E p \in Packages : shown' = p /\ kept' = kept \cup {p}

Withdraw ==
    /\ shown \in Packages
    /\ shown' = None /\ UNCHANGED kept

Restore ==
    /\ shown = None
    /\ \E p \in kept : shown' = p
    /\ UNCHANGED kept

Discard ==
    /\ \E p \in kept \ {shown} :
          /\ \E q \in kept \ {p} : q.case = p.case
          /\ kept' = kept \ {p}
    /\ UNCHANGED shown

Next == Publish \/ Withdraw \/ Restore \/ Discard

Spec == Init /\ [][Next]_store

===============================================================================
