-------------------------- MODULE RuntimeApplication --------------------------
(***************************************************************************)
(* hpu::runtime::Application, which tracks where each object of an         *)
(* application is while its event stream is built, and the memory and      *)
(* slots as a backend that carries out the events leaves them.  A refused  *)
(* call changes nothing, except where an action of its own says so.        *)
(*                                                                         *)
(* Objects have disjoint backings, as allocations of one HpuMemImage have. *)
(***************************************************************************)
EXTENDS Naturals

CONSTANTS
    Objects,           \* object ids
    Slots,             \* 0 .. kObjectSlotCount - 1
    Representations,   \* domain, level, moduli and key domain of a polynomial
    MaxVersion,        \* bound: kernel results per object
    None

ASSUME VersionAssumption == MaxVersion \in Nat

AllContents == [version : 0 .. MaxVersion, representation : Representations]

ObjectState ==
    [slot : Slots \cup {None}, representation : Representations,
     dirty : BOOLEAN, required : BOOLEAN, stored : BOOLEAN]

ASSUME NoneAssumption == None \notin Slots \cup AllContents \cup ObjectState

VARIABLES
    objects,           \* objects_: the state of each registered object
    tableLoaded,       \* modulus_table_ has a value
    finished,          \* finished_
    chip,              \* machine: the contents of each object's slot
    backing,           \* machine: the contents of each object's backing
    latest             \* history: what the last kernel made of each object

runtimeVars == <<objects, tableLoaded, finished, chip, backing, latest>>
device == <<chip, backing, latest>>

-----------------------------------------------------------------------------

Contents(version, representation) ==
    [version |-> version, representation |-> representation]

Registered  == {id \in Objects : objects[id] # None}
Resident    == {id \in Registered : objects[id].slot # None}
Occupied    == {objects[id].slot : id \in Resident}

RuntimeInit ==
    /\ objects = [id \in Objects |-> None]
    /\ tableLoaded = FALSE
    /\ finished = FALSE
    /\ chip = [id \in Objects |-> None]
    /\ backing \in [Objects -> {Contents(0, r) : r \in Representations}]
    /\ latest = backing

\* The caller describes what its image holds.
RegisterObject(id, required) ==
    /\ ~ finished /\ id \notin Registered
    /\ objects' = [objects EXCEPT ![id] =
           [slot |-> None, representation |-> backing[id].representation,
            dirty |-> FALSE, required |-> required, stored |-> FALSE]]
    /\ UNCHANGED <<tableLoaded, finished, device>>

LoadModulusTable ==
    /\ ~ finished /\ ~ tableLoaded
    /\ tableLoaded' = TRUE
    /\ UNCHANGED <<objects, finished, device>>

\* Mutant: an object that is already resident may be loaded again.
LoadObjectAgain(id, slot) ==
    /\ ~ finished /\ tableLoaded
    /\ slot \notin Occupied
    /\ id \in Registered
    /\ objects' = [objects EXCEPT ![id].slot = slot, ![id].dirty = FALSE]
    /\ chip' = [chip EXCEPT ![id] = backing[id]]
    /\ UNCHANGED <<tableLoaded, finished, backing, latest>>

\* Mutant: the slot may be occupied.
LoadObjectOver(id, slot) ==
    /\ ~ finished /\ tableLoaded
    /\ id \in Registered \ Resident
    /\ objects' = [objects EXCEPT ![id].slot = slot, ![id].dirty = FALSE]
    /\ chip' = [chip EXCEPT ![id] = backing[id]]
    /\ UNCHANGED <<tableLoaded, finished, backing, latest>>

LoadObject(id, slot) ==
    /\ ~ finished /\ tableLoaded
    /\ slot \notin Occupied
    /\ id \in Registered \ Resident
    /\ objects' = [objects EXCEPT ![id].slot = slot, ![id].dirty = FALSE]
    /\ chip' = [chip EXCEPT ![id] = backing[id]]
    /\ UNCHANGED <<tableLoaded, finished, backing, latest>>

Dirtied(ids) ==
    [id \in Objects |->
        IF id \in ids THEN [objects[id] EXCEPT !.dirty = TRUE, !.stored = FALSE]
                      ELSE objects[id]]

Computed(id) == Contents(latest[id].version + 1, latest[id].representation)

RunKernel(written) ==
    /\ ~ finished
    /\ written \subseteq Resident
    /\ \A id \in written : latest[id].version < MaxVersion
    /\ objects' = Dirtied(written)
    /\ latest' = [id \in Objects |-> IF id \in written THEN Computed(id) ELSE latest[id]]
    /\ chip' = [id \in Objects |-> IF id \in written THEN Computed(id) ELSE chip[id]]
    /\ UNCHANGED <<tableLoaded, finished, backing>>

\* run_kernel() throws at the first object that is not resident; those listed
\* before it are dirty by then, but no event was emitted.
RunKernelFails(written) ==
    /\ ~ finished
    /\ ~ written \subseteq Resident
    /\ \E before \in SUBSET (written \cap Resident) : objects' = Dirtied(before)
    /\ UNCHANGED <<tableLoaded, finished, device>>

\* The caller describes the contents that its kernel left in the slot.
SetRepresentation(id, representation) ==
    /\ ~ finished /\ id \in Resident
    /\ objects' = [objects EXCEPT ![id].representation = representation,
                                  ![id].dirty = TRUE, ![id].stored = FALSE]
    /\ chip' = [chip EXCEPT ![id].representation = representation]
    /\ latest' = [latest EXCEPT ![id].representation = representation]
    /\ UNCHANGED <<tableLoaded, finished, backing>>

\* Mutant: REL=0 forgets the slot as well.
StoreObjectReleasing(id, release) ==
    /\ ~ finished /\ id \in Resident
    /\ objects' = [objects EXCEPT ![id].dirty = FALSE, ![id].stored = TRUE,
                                  ![id].slot = None]
    /\ backing' = [backing EXCEPT ![id] = chip[id]]
    /\ chip' = [chip EXCEPT ![id] = IF release THEN None ELSE @]
    /\ UNCHANGED <<tableLoaded, finished, latest>>

StoreObject(id, release) ==
    /\ ~ finished /\ id \in Resident
    /\ objects' = [objects EXCEPT ![id].dirty = FALSE, ![id].stored = TRUE,
                                  ![id].slot = IF release THEN None ELSE @]
    /\ backing' = [backing EXCEPT ![id] = chip[id]]
    /\ chip' = [chip EXCEPT ![id] = IF release THEN None ELSE @]
    /\ UNCHANGED <<tableLoaded, finished, latest>>

ReleaseObject(id) ==
    /\ ~ finished /\ id \in Resident
    /\ ~ objects[id].dirty
    /\ objects' = [objects EXCEPT ![id].slot = None]
    /\ chip' = [chip EXCEPT ![id] = None]
    /\ UNCHANGED <<tableLoaded, finished, backing, latest>>

\* Mutant: no check of the outputs.
FinishUnchecked ==
    /\ ~ finished
    /\ finished' = TRUE
    /\ UNCHANGED <<objects, tableLoaded, device>>

Finish ==
    /\ ~ finished
    /\ \A id \in Registered : objects[id].required => ~ objects[id].dirty /\ objects[id].stored
    /\ finished' = TRUE
    /\ UNCHANGED <<objects, tableLoaded, device>>

\* Every later call throws.
Closed == finished /\ UNCHANGED runtimeVars

RuntimeNext ==
    \/ \E id \in Objects : \E required \in BOOLEAN : RegisterObject(id, required)
    \/ LoadModulusTable
    \/ \E id \in Objects : \E slot \in Slots : LoadObject(id, slot)
    \/ \E written \in SUBSET Objects : RunKernel(written) \/ RunKernelFails(written)
    \/ \E id \in Objects : \E r \in Representations : SetRepresentation(id, r)
    \/ \E id \in Objects : \E release \in BOOLEAN : StoreObject(id, release)
    \/ \E id \in Objects : ReleaseObject(id)
    \/ Finish \/ Closed

RuntimeSpec == RuntimeInit /\ [][RuntimeNext]_runtimeVars

-----------------------------------------------------------------------------
(* Properties.                                                             *)

\* Objects and machine keep their types, and something is in a slot exactly if
\* the application thinks so.
TypeOK ==
    /\ objects \in [Objects -> ObjectState \cup {None}]
    /\ tableLoaded \in BOOLEAN /\ finished \in BOOLEAN
    /\ chip \in [Objects -> AllContents \cup {None}]
    /\ backing \in [Objects -> AllContents] /\ latest \in [Objects -> AllContents]
    /\ \A id \in Objects : chip[id] # None <=> id \in Resident

\* Two objects never share a slot.
SlotsExclusive ==
    \A id, other \in Resident : id # other => objects[id].slot # objects[other].slot

\* Through any mixture of kernels, stores that keep or release the slot,
\* releases, reloads and calls that fail half way, the last result of each object
\* is in its slot, or in its memory if it has none, and is what the recorded
\* representation describes.
NothingLost ==
    \A id \in Registered :
        /\ latest[id] = IF id \in Resident THEN chip[id] ELSE backing[id]
        /\ objects[id].representation = latest[id].representation

\* After the final psync, the memory of every required output holds the last
\* result.
OutputsWritten ==
    finished =>
        \A id \in Registered : objects[id].required => backing[id] = latest[id]

=============================================================================
