---------------------------- MODULE Execution_proofs ----------------------------
(***************************************************************************)
(* What executes an application: the interface it is executed through, the *)
(* arithmetic of the executors behind it, and the plan that they execute.  *)
(*                                                                         *)
(* The interface is RuntimeApplication, for any objects, slots and         *)
(* representations.                                                        *)
(*                                                                         *)
(* The arithmetic is that of a rounded division: dividing by a modulus and *)
(* rounding leaves the rounded quotient of the integers, for every degree, *)
(* all moduli and all coefficients, both by the tasks that rescaling,      *)
(* modulus switching and key switching emit (half is added to every        *)
(* residue, the remainder is converted and taken away, the inverse         *)
(* divides) and by the BFV software executor (half is added and taken away *)
(* around the conversion).  What the tasks compute comes first, then the   *)
(* arithmetic of remainders, then what pointwise instructions do to words  *)
(* that stand for integers.                                                *)
(*                                                                         *)
(* The plan is that of SealApplication, for any graph that the frontend    *)
(* can record.  The values have the metadata of their operations, the plan *)
(* holds every value as the output of one step, so what is delivered is the*)
(* value that was asked for; no task reads what it was not given; and what *)
(* the builder accepted is never refused: all that a step is checked for   *)
(* was made for it, every port is bound to an allocated limb, and every    *)
(* export is the output of a step.                                         *)
(***************************************************************************)
EXTENDS RuntimeApplication, SealApplication, SequenceTheorems, TLAPS
WF == INSTANCE WellFoundedInduction

-----------------------------------------------------------------------------
(* The interface.                                                          *)

\* What release_object() and finish() rely on: an object that is not dirty is
\* the same in its slot and in its memory.
CleanIsWritten ==
    \A id \in Registered : ~ objects[id].dirty => backing[id] = latest[id]

Types ==
    /\ objects \in [Objects -> ObjectState \cup {None}]
    /\ tableLoaded \in BOOLEAN /\ finished \in BOOLEAN
    /\ chip \in [Objects -> AllContents \cup {None}]
    /\ backing \in [Objects -> AllContents] /\ latest \in [Objects -> AllContents]

\* Something is in a slot exactly if the application thinks so.
Agreement == \A id \in Objects : chip[id] # None <=> id \in Resident

\* Nobody computes an object that is not registered.
Untouched == \A id \in Objects \ Registered : latest[id] = backing[id]

RuntimeIInv == Untouched /\ Types /\ Agreement /\ SlotsExclusive /\ NothingLost /\ CleanIsWritten /\ OutputsWritten

-----------------------------------------------------------------------------

\* The initial state.
LEMMA InitRuntimeIInv == RuntimeInit => RuntimeIInv
  <1> SUFFICES ASSUME RuntimeInit PROVE RuntimeIInv
    OBVIOUS
  <1>1. \A r \in Representations : Contents(0, r) \in AllContents
    BY VersionAssumption DEF Contents, AllContents
  <1>2. Types
    BY <1>1 DEF RuntimeInit, Types
  <1>3. Registered = {} /\ Resident = {}
    BY DEF RuntimeInit, Registered, Resident
  <1> QED
    BY <1>2, <1>3 DEF RuntimeIInv, Agreement, SlotsExclusive, NothingLost, CleanIsWritten, OutputsWritten,
       Untouched, RuntimeInit

\* An action on one object.
Update(id, state, inSlot, inMemory, last) ==
    /\ objects' = [objects EXCEPT ![id] = state]
    /\ chip' = [chip EXCEPT ![id] = inSlot]
    /\ backing' = [backing EXCEPT ![id] = inMemory]
    /\ latest' = [latest EXCEPT ![id] = last]
    /\ UNCHANGED finished
    /\ ~ finished
    /\ tableLoaded' \in BOOLEAN

\* What makes such an action safe: it describes the object as the machine leaves
\* it, and takes a slot that is free.
LEMMA UpdateSafe ==
    ASSUME RuntimeIInv,
           NEW id \in Objects, NEW state \in ObjectState,
           NEW inSlot \in AllContents \cup {None}, NEW inMemory \in AllContents,
           NEW last \in AllContents,
           Update(id, state, inSlot, inMemory, last),
           inSlot # None <=> state.slot # None,
           state.slot \notin Occupied \ (IF id \in Resident THEN {objects[id].slot} ELSE {}),
           last = IF state.slot # None THEN inSlot ELSE inMemory,
           state.representation = last.representation,
           ~ state.dirty => inMemory = last
    PROVE  RuntimeIInv'
  <1> USE DEF RuntimeIInv
  <1>1. Types'
    BY DEF Types, Update
  <1>2. /\ state # None
        /\ objects'[id] = state /\ \A q \in Objects \ {id} : objects'[q] = objects[q]
    BY NoneAssumption DEF Types, Update
  <1>3. /\ Registered' = Registered \cup {id}
        /\ Resident' = IF state.slot # None THEN Resident \cup {id} ELSE Resident \ {id}
    BY <1>2 DEF Registered, Resident
  <1>4. Agreement'
    BY <1>3 DEF Agreement, Update, Types
  <1>5. SlotsExclusive'
    BY <1>2, <1>3 DEF SlotsExclusive, Occupied, Resident, Registered
  <1>6. NothingLost' /\ CleanIsWritten' /\ Untouched'
    BY <1>2, <1>3 DEF NothingLost, CleanIsWritten, Untouched, Update, Types, Registered
  <1>7. OutputsWritten'
    BY DEF OutputsWritten, Update
  <1> QED
    BY <1>1, <1>4, <1>5, <1>6, <1>7

\* The facts about one registered object that the actions need.
LEMMA Known ==
    ASSUME RuntimeIInv, NEW id \in Registered
    PROVE  /\ id \in Objects /\ objects[id] \in ObjectState
           /\ backing[id] \in AllContents /\ latest[id] \in AllContents
           /\ id \in Resident => chip[id] \in AllContents
           /\ chip[id] # None <=> objects[id].slot # None
           /\ objects[id].representation = latest[id].representation
           /\ latest[id] = IF id \in Resident THEN chip[id] ELSE backing[id]
           /\ ~ objects[id].dirty => backing[id] = latest[id]
  BY NoneAssumption DEF RuntimeIInv, Types, Agreement, NothingLost, CleanIsWritten, Registered, Resident

\* register_object() of an object not seen before.
LEMMA RegisterSafe ==
    ASSUME RuntimeIInv, NEW id \in Objects, NEW required \in BOOLEAN, RegisterObject(id, required)
    PROVE  RuntimeIInv'
  <1> DEFINE state == [slot |-> None, representation |-> backing[id].representation,
                       dirty |-> FALSE, required |-> required, stored |-> FALSE]
  <1>1. backing[id] \in AllContents /\ state \in ObjectState
    BY DEF RuntimeIInv, Types, AllContents, ObjectState
  <1>2. chip[id] = None /\ latest[id] = backing[id]
    BY DEF RegisterObject, RuntimeIInv, Agreement, Untouched, Resident
  <1>3. None \notin Occupied
    BY DEF Occupied, Resident
  <1>4. Update(id, state, None, backing[id], backing[id])
    BY <1>2 DEF Update, RegisterObject, device, RuntimeIInv, Types
  <1> QED
    BY <1>1, <1>3, <1>4, UpdateSafe

\* load_object() of an object without a slot, into a free one.
LEMMA LoadSafe ==
    ASSUME RuntimeIInv, NEW id \in Objects, NEW slot \in Slots, LoadObject(id, slot)
    PROVE  RuntimeIInv'
  <1> DEFINE state == [objects[id] EXCEPT !.slot = slot, !.dirty = FALSE]
  <1>1. id \in Registered /\ id \notin Resident /\ slot \notin Occupied
    BY DEF LoadObject
  <1>2. /\ state \in ObjectState /\ state.slot = slot
        /\ state.representation = objects[id].representation
    BY <1>1, Known DEF ObjectState
  <1>3. backing[id] # None /\ slot # None
    BY <1>1, Known, NoneAssumption
  <1>4. Update(id, state, backing[id], backing[id], latest[id])
    BY DEF LoadObject, Update, RuntimeIInv, Types
  <1> QED
    BY <1>1, <1>2, <1>3, <1>4, Known, UpdateSafe

\* set_representation() of a resident object.
LEMMA DescribeSafe ==
    ASSUME RuntimeIInv, NEW id \in Objects, NEW r \in Representations, SetRepresentation(id, r)
    PROVE  RuntimeIInv'
  <1> DEFINE state == [objects[id] EXCEPT !.representation = r, !.dirty = TRUE, !.stored = FALSE]
             now   == [latest[id] EXCEPT !.representation = r]
  <1>1. id \in Registered /\ id \in Resident /\ chip[id] = latest[id] /\ objects[id].slot # None
    BY Known DEF SetRepresentation, Resident
  <1>2. /\ state \in ObjectState /\ state.slot = objects[id].slot /\ state.dirty
        /\ state.representation = r
    BY <1>1, Known DEF ObjectState
  <1>3. now \in AllContents /\ now.representation = r /\ now # None
    BY <1>1, Known, NoneAssumption DEF AllContents
  <1>4. Update(id, state, now, backing[id], now)
    BY <1>1 DEF SetRepresentation, Update, RuntimeIInv, Types
  <1>5. state.slot \notin Occupied \ (IF id \in Resident THEN {objects[id].slot} ELSE {})
    BY <1>1, <1>2
  <1>6. backing[id] \in AllContents /\ state.slot # None /\ (now # None <=> state.slot # None)
    BY <1>1, <1>2, <1>3, Known
  <1> HIDE DEF state, now
  <1> QED
    BY <1>2, <1>3, <1>4, <1>5, <1>6, UpdateSafe

\* store_object(), with and without REL.
LEMMA StoreSafe ==
    ASSUME RuntimeIInv, NEW id \in Objects, NEW release \in BOOLEAN, StoreObject(id, release)
    PROVE  RuntimeIInv'
  <1> DEFINE slot  == IF release THEN None ELSE objects[id].slot
             state == [objects[id] EXCEPT !.dirty = FALSE, !.stored = TRUE, !.slot = slot]
             left  == IF release THEN None ELSE chip[id]
  <1>1. id \in Registered /\ id \in Resident /\ chip[id] = latest[id] /\ objects[id].slot # None
    BY Known DEF StoreObject, Resident
  <1>2. /\ state \in ObjectState /\ state.slot = slot
        /\ state.representation = objects[id].representation
    BY <1>1, Known DEF ObjectState
  <1>3. Update(id, state, left, chip[id], latest[id])
    BY <1>1, Known DEF StoreObject, Update, RuntimeIInv, Types
  <1>4. state.slot \notin Occupied \ (IF id \in Resident THEN {objects[id].slot} ELSE {})
    BY <1>1, <1>2 DEF Occupied, Resident
  <1>5. /\ left \in AllContents \cup {None} /\ (left # None <=> state.slot # None)
        /\ latest[id] = IF state.slot # None THEN left ELSE chip[id]
        /\ chip[id] \in AllContents /\ latest[id] \in AllContents
        /\ state.representation = latest[id].representation
    BY <1>1, <1>2, Known, NoneAssumption
  <1> HIDE DEF state, left
  <1> QED
    BY <1>1, <1>2, <1>3, <1>4, <1>5, UpdateSafe

\* release_object() only of what memory also holds.
LEMMA ReleaseSafe ==
    ASSUME RuntimeIInv, NEW id \in Objects, ReleaseObject(id)
    PROVE  RuntimeIInv'
  <1> DEFINE state == [objects[id] EXCEPT !.slot = None]
  <1>1. id \in Registered /\ id \in Resident /\ ~ objects[id].dirty
    BY DEF ReleaseObject, Resident
  <1>2. /\ state \in ObjectState /\ state.slot = None /\ ~ state.dirty
        /\ state.representation = objects[id].representation
    BY <1>1, Known DEF ObjectState
  <1>3. Update(id, state, None, backing[id], latest[id])
    BY DEF ReleaseObject, Update, RuntimeIInv, Types
  <1>4. None \notin Occupied
    BY DEF Occupied, Resident
  <1> QED
    BY <1>1, <1>2, <1>3, <1>4, Known, UpdateSafe

-----------------------------------------------------------------------------

\* What dirtying some registered objects changes.
LEMMA DirtiedFacts ==
    ASSUME RuntimeIInv, NEW ids \in SUBSET Registered, objects' = Dirtied(ids)
    PROVE  /\ objects' \in [Objects -> ObjectState \cup {None}]
           /\ Registered' = Registered /\ Resident' = Resident
           /\ \A id \in Registered :
                 /\ objects'[id].slot = objects[id].slot
                 /\ objects'[id].representation = objects[id].representation
                 /\ objects'[id].required = objects[id].required
                 /\ id \in ids => objects'[id].dirty
                 /\ id \notin ids => objects'[id].dirty = objects[id].dirty
  <1>1. \A id \in ids :
          LET state == [objects[id] EXCEPT !.dirty = TRUE, !.stored = FALSE]
          IN  /\ state \in ObjectState /\ state # None
              /\ state.slot = objects[id].slot /\ state.dirty
              /\ state.representation = objects[id].representation
              /\ state.required = objects[id].required
    <2> TAKE id \in ids
    <2>1. objects[id] \in ObjectState
      BY Known
    <2>2. [objects[id] EXCEPT !.dirty = TRUE, !.stored = FALSE] \in ObjectState
      BY <2>1 DEF ObjectState
    <2> QED
      BY <2>1, <2>2, NoneAssumption DEF ObjectState
  <1>2. objects' \in [Objects -> ObjectState \cup {None}]
    BY <1>1, Zenon DEF Dirtied, RuntimeIInv, Types
  <1>3. \A id \in Objects : objects'[id] = None <=> objects[id] = None
    BY <1>1, Zenon DEF Dirtied, Registered
  <1>4. Registered' = Registered
    BY <1>3 DEF Registered
  <1>5. \A id \in Registered :
                 /\ objects'[id].slot = objects[id].slot
                 /\ objects'[id].representation = objects[id].representation
                 /\ objects'[id].required = objects[id].required
                 /\ id \in ids => objects'[id].dirty
                 /\ id \notin ids => objects'[id].dirty = objects[id].dirty
    BY <1>1, Zenon DEF Dirtied, Registered
  <1> QED
    BY <1>2, <1>4, <1>5 DEF Resident

\* run_kernel() that writes resident objects.
LEMMA KernelSafe ==
    ASSUME RuntimeIInv, NEW written \in SUBSET Objects, RunKernel(written)
    PROVE  RuntimeIInv'
  <1>1. written \in SUBSET Registered /\ written \subseteq Resident
    BY DEF RunKernel, Resident
  <1> USE <1>1, DirtiedFacts DEF RuntimeIInv
  <1>2. \A id \in written :
          /\ Computed(id) \in AllContents /\ Computed(id) # None
          /\ Computed(id).representation = latest[id].representation
    <2> SUFFICES ASSUME NEW id \in written
                 PROVE  /\ Computed(id) \in AllContents
                        /\ Computed(id).representation = latest[id].representation
      BY NoneAssumption
    <2>1. latest[id] \in AllContents /\ latest[id].version < MaxVersion
      BY Known DEF RunKernel
    <2> QED
      BY <2>1, VersionAssumption DEF Computed, Contents, AllContents
  <1>3. Types' /\ Agreement'
    <2>1. objects' = Dirtied(written)
      BY DEF RunKernel
    <2>2. objects' \in [Objects -> ObjectState \cup {None}] /\ Resident' = Resident
      BY <2>1
    <2>3. Types'
      BY <1>2, <2>2 DEF Types, RunKernel
    <2>4. Agreement'
      BY <1>2, <2>2 DEF Agreement, RunKernel
    <2> QED
      BY <2>3, <2>4
  <1>4. SlotsExclusive'
    BY DEF SlotsExclusive, RunKernel, Resident
  <1>5. NothingLost' /\ CleanIsWritten' /\ Untouched'
    <2>1. objects' = Dirtied(written)
      BY DEF RunKernel
    <2>2. /\ Registered' = Registered /\ Resident' = Resident
          /\ \A id \in Registered :
                 /\ objects'[id].representation = objects[id].representation
                 /\ id \in written => objects'[id].dirty
                 /\ id \notin written => objects'[id].dirty = objects[id].dirty
      BY <2>1
    <2>3. NothingLost'
      BY <1>2, <2>2 DEF NothingLost, RunKernel, Registered
    <2>4. CleanIsWritten'
      BY <2>2 DEF CleanIsWritten, RunKernel, Registered
    <2>5. Untouched'
      BY <2>2 DEF Untouched, RunKernel
    <2> QED
      BY <2>3, <2>4, <2>5
  <1>6. OutputsWritten'
    BY DEF OutputsWritten, RunKernel
  <1> QED
    BY <1>3, <1>4, <1>5, <1>6

\* A kernel call that throws half way leaves some objects dirty that need not be.
LEMMA FailureSafe ==
    ASSUME RuntimeIInv, NEW written \in SUBSET Objects, RunKernelFails(written)
    PROVE  RuntimeIInv'
  <1>1. PICK before \in SUBSET (written \cap Resident) : objects' = Dirtied(before)
    BY DEF RunKernelFails
  <1>2. before \in SUBSET Registered
    BY DEF Resident
  <1>3. /\ objects' \in [Objects -> ObjectState \cup {None}]
        /\ Registered' = Registered /\ Resident' = Resident
        /\ \A id \in Registered :
              /\ objects'[id].slot = objects[id].slot
              /\ objects'[id].representation = objects[id].representation
              /\ id \in before => objects'[id].dirty
              /\ id \notin before => objects'[id].dirty = objects[id].dirty
    BY <1>1, <1>2, DirtiedFacts
  <1>4. UNCHANGED <<chip, backing, latest, tableLoaded, finished>> /\ ~ finished
    BY DEF RunKernelFails, device
  <1> QED
    BY <1>3, <1>4 DEF RuntimeIInv, Types, Agreement, SlotsExclusive, NothingLost, CleanIsWritten, Untouched,
       OutputsWritten, Resident, Registered

\* finish(), with every required output clean and stored.
LEMMA FinishSafe ==
    ASSUME RuntimeIInv, Finish
    PROVE  RuntimeIInv'
  <1>1. UNCHANGED <<objects, tableLoaded, chip, backing, latest>> /\ finished' = TRUE
    BY DEF Finish, device
  <1>2. \A id \in Registered : objects[id].required => backing[id] = latest[id]
    BY DEF Finish, RuntimeIInv, CleanIsWritten
  <1> QED
    BY <1>1, <1>2 DEF RuntimeIInv, Types, Agreement, SlotsExclusive, NothingLost, CleanIsWritten, Untouched,
       OutputsWritten, Resident, Registered

\* Every step.
LEMMA NextRuntimeIInv == RuntimeIInv /\ [RuntimeNext]_runtimeVars => RuntimeIInv'
  <1> SUFFICES ASSUME RuntimeIInv, [RuntimeNext]_runtimeVars PROVE RuntimeIInv'
    OBVIOUS
  <1>1. CASE LoadModulusTable
    BY <1>1 DEF LoadModulusTable, device, RuntimeIInv, Types, Agreement, SlotsExclusive, NothingLost,
       CleanIsWritten, Untouched, OutputsWritten, Resident, Registered
  <1>2. CASE UNCHANGED runtimeVars
    BY <1>2 DEF runtimeVars, RuntimeIInv, Types, Agreement, SlotsExclusive, NothingLost, CleanIsWritten,
       Untouched, OutputsWritten, Resident, Registered
  <1> QED
    BY <1>1, <1>2, RegisterSafe, LoadSafe, KernelSafe, FailureSafe, DescribeSafe, StoreSafe,
       ReleaseSafe, FinishSafe DEF RuntimeNext, Closed

\* Everything below follows from one inductive invariant.
THEOREM Invariance == RuntimeSpec => []RuntimeIInv
  BY InitRuntimeIInv, NextRuntimeIInv, PTL DEF RuntimeSpec

\* Application and machine keep their types and agree on what is resident.
THEOREM TypeCorrectness == RuntimeSpec => []TypeOK
  <1>1. RuntimeIInv => TypeOK
    BY DEF RuntimeIInv, Types, Agreement, TypeOK
  <1> QED
    BY <1>1, Invariance, PTL

\* No slot ever holds two objects.
THEOREM Exclusion == RuntimeSpec => []SlotsExclusive
  <1>1. RuntimeIInv => SlotsExclusive
    BY DEF RuntimeIInv
  <1> QED
    BY <1>1, Invariance, PTL

\* No sequence of accepted and refused calls loses the last result of an object.
THEOREM Retention == RuntimeSpec => []NothingLost
  <1>1. RuntimeIInv => NothingLost
    BY DEF RuntimeIInv
  <1> QED
    BY <1>1, Invariance, PTL

\* The final psync comes after the last result of each required output was stored.
THEOREM Completion == RuntimeSpec => []OutputsWritten
  <1>1. RuntimeIInv => OutputsWritten
    BY DEF RuntimeIInv
  <1> QED
    BY <1>1, Invariance, PTL

-----------------------------------------------------------------------------
(* The tasks of a rounded division.                                        *)

\* What the instructions of those tasks compute: a sum, ...
LEMMA AddResult ==
  ASSUME NEW m, NEW args
  PROVE  Results(m, "add", args) = <<Add(m, args[1], args[2])>>
BY DEF Results

\* ... a product, ...
LEMMA MulResult ==
  ASSUME NEW m, NEW args
  PROVE  Results(m, "mul", args) = <<Mul(m, args[1], args[2])>>
BY DEF Results

\* ... a sum of products, ...
LEMMA DotResult ==
  ASSUME NEW m, NEW args
  PROVE  Results(m, "dot", args) = <<Accumulated(m, args)>>
BY DEF Results

\* ... and a product with a difference.
LEMMA ScaleDifferenceResult ==
  ASSUME NEW m, NEW args
  PROVE  Results(m, "scale_difference", args) = <<Mul(m, Sub(m, args[1], args[2]), args[3])>>
BY DEF Results

\* The same for two given operands, ...
LEMMA ResultOfTwo ==
  ASSUME NEW m, NEW a, NEW b
  PROVE  /\ Results(m, "add", <<a, b>>)[1] = Add(m, a, b)
         /\ Results(m, "mul", <<a, b>>)[1] = Mul(m, a, b)
         /\ Results(m, "dot", <<a, b>>)[1] = Accumulated(m, <<a, b>>)
<1>1. <<a, b>>[1] = a /\ <<a, b>>[2] = b
  OBVIOUS
<1>2. \A x : <<x>>[1] = x
  OBVIOUS
<1> QED BY <1>1, <1>2, AddResult, MulResult, DotResult

\* ... and for three.
LEMMA ResultOfThree ==
  ASSUME NEW m, NEW a, NEW b, NEW c
  PROVE  Results(m, "scale_difference", <<a, b, c>>)[1] = Mul(m, Sub(m, a, b), c)
<1>1. <<a, b, c>>[1] = a /\ <<a, b, c>>[2] = b /\ <<a, b, c>>[3] = c
  OBVIOUS
<1>2. \A x : <<x>>[1] = x
  OBVIOUS
<1> QED BY <1>1, <1>2, ScaleDifferenceResult

\* The tasks of RoundedModDown for one component, with what relocation binds to
\* their constants: half of p is added, ...
BiasTask(x, p, m) == Results(m, "add", <<x, Const(m, Q(p) \div 2)>>)[1]
\* ... the remainder is converted from p to m (the factors of a base conversion
\* from one modulus are 1), ...
NormalizeTask(x, p) == Results(p, "mul", <<x, Const(p, 1)>>)[1]
ConvertTask(x, m) == Results(m, "dot", <<x, Const(m, 1)>>)[1]
\* ... taken away, and the inverse of p divides.
DivideTask(x, y, p, m) == Results(m, "scale_difference", <<x, y, Const(m, InverseMod(Q(p), m))>>)[1]

HpuQuotient(value, remainder, p, m) ==
  DivideTask(BiasTask(value, p, m), ConvertTask(NormalizeTask(BiasTask(remainder, p, p), p), m), p, m)

\* Written out, without ports and tasks.
LEMMA HpuQuotientWritten ==
  ASSUME NEW value, NEW remainder, NEW p, NEW m
  PROVE  HpuQuotient(value, remainder, p, m)
           = Mul(m, Sub(m, Add(m, value, Const(m, Q(p) \div 2)),
                           Accumulated(m, <<Mul(p, Add(p, remainder, Const(p, Q(p) \div 2)), Const(p, 1)), Const(m, 1)>>)),
                    Const(m, InverseMod(Q(p), m)))
<1>1. ASSUME NEW x, NEW n PROVE BiasTask(x, p, n) = Add(n, x, Const(n, Q(p) \div 2))
  BY ResultOfTwo DEF BiasTask
<1>2. ASSUME NEW x PROVE NormalizeTask(x, p) = Mul(p, x, Const(p, 1))
  BY ResultOfTwo DEF NormalizeTask
<1>3. ASSUME NEW x PROVE ConvertTask(x, m) = Accumulated(m, <<x, Const(m, 1)>>)
  BY ResultOfTwo DEF ConvertTask
<1>4. ASSUME NEW x, NEW y
      PROVE  DivideTask(x, y, p, m) = Mul(m, Sub(m, x, y), Const(m, InverseMod(Q(p), m)))
  BY ResultOfThree DEF DivideTask
<1> QED BY <1>1, <1>2, <1>3, <1>4 DEF HpuQuotient
-----------------------------------------------------------------------------
(* The arithmetic of remainders.                                           *)

\* Quotient and remainder of the integers.
LEMMA Division ==
  ASSUME NEW a \in Int, NEW q \in Nat \ {0}
  PROVE  a = q * (a \div q) + (a % q) /\ a % q \in 0 .. q - 1 /\ a \div q \in Int
OBVIOUS

\* There is only one way to write a number with a remainder.
LEMMA UniqueRemainder ==
  ASSUME NEW q \in Nat \ {0}, NEW k \in Int, NEW l \in Int, NEW r \in 0 .. q - 1, NEW s \in 0 .. q - 1,
         q * k + r = q * l + s
  PROVE  k = l /\ r = s
<1>1. q * (k - l) = s - r
  OBVIOUS
<1>2. ASSUME k > l PROVE FALSE
  <2>1. q * (k - l) >= q
    BY <1>2
  <2> QED BY <2>1, <1>1
<1>3. ASSUME k < l PROVE FALSE
  <2>1. q * (l - k) >= q
    BY <1>3
  <2>2. q * (k - l) = - (q * (l - k))
    OBVIOUS
  <2> QED BY <2>1, <2>2, <1>1
<1> QED BY <1>2, <1>3

\* Whatever is written as a multiple and a remainder has that quotient.
LEMMA RemainderOf ==
  ASSUME NEW q \in Nat \ {0}, NEW k \in Int, NEW r \in 0 .. q - 1, NEW a \in Int, a = q * k + r
  PROVE  a % q = r /\ a \div q = k
<1>1. a = q * (a \div q) + (a % q) /\ a % q \in 0 .. q - 1 /\ a \div q \in Int
  BY Division
<1> QED BY <1>1, UniqueRemainder

\* Multiples of the modulus do not matter.
LEMMA MultiplesVanish ==
  ASSUME NEW q \in Nat \ {0}, NEW k \in Int, NEW a \in Int
  PROVE  (q * k + a) % q = a % q
<1>1. a = q * (a \div q) + (a % q) /\ a % q \in 0 .. q - 1 /\ a \div q \in Int
  BY Division
<1> DEFINE d == a \div q
           r == a % q
<1>2. a = q * d + r /\ r \in 0 .. q - 1 /\ d \in Int
  BY <1>1
<1> HIDE DEF d, r
<1>3. q * k + a = q * (k + d) + r
  BY <1>2
<1>4. (q * k + a) % q = r
  BY <1>2, <1>3, RemainderOf
<1> QED BY <1>4 DEF r

\* A factor may be reduced before it is multiplied.
LEMMA ProductOfRemainders ==
  ASSUME NEW q \in Nat \ {0}, NEW a \in Int, NEW b \in Int
  PROVE  ((a % q) * b) % q = (a * b) % q
<1>1. a = q * (a \div q) + (a % q) /\ a % q \in 0 .. q - 1 /\ a \div q \in Int
  BY Division
<1>2. a * b = q * ((a \div q) * b) + (a % q) * b
  <2> DEFINE d == a \div q
             r == a % q
  <2>1. a = q * d + r /\ d \in Int /\ r \in Int
    BY <1>1
  <2> HIDE DEF d, r
  <2>2. (q * d + r) * b = q * (d * b) + r * b
    BY <2>1
  <2> QED BY <2>1, <2>2 DEF d, r
<1> DEFINE k == (a \div q) * b
           y == (a % q) * b
<1>3. k \in Int /\ y \in Int
  BY <1>1
<1>4. (q * k + y) % q = y % q
  <2> HIDE DEF k, y
  <2> QED BY <1>3, MultiplesVanish
<1> QED BY <1>2, <1>4

\* A summand may be reduced before it is added.
LEMMA SumOfRemainders ==
  ASSUME NEW q \in Nat \ {0}, NEW a \in Int, NEW b \in Int
  PROVE  ((a % q) + b) % q = (a + b) % q
<1> DEFINE d == a \div q
           r == a % q
<1>1. a = q * d + r /\ d \in Int /\ r \in Int
  BY Division
<1> HIDE DEF d, r
<1>2. a + b = q * d + (r + b) /\ r + b \in Int
  BY <1>1
<1>3. (q * d + (r + b)) % q = (r + b) % q
  BY <1>1, <1>2, MultiplesVanish
<1> QED BY <1>2, <1>3 DEF r

\* What Sub computes, in integers.
LEMMA DifferenceOfRemainders ==
  ASSUME NEW q \in Nat \ {0}, NEW a \in Int, NEW b \in Int
  PROVE  ((a % q) + (q - (b % q))) % q = (a - b) % q
<1> DEFINE d == b \div q
           r == b % q
           x == a % q
<1>1. b = q * d + r /\ d \in Int /\ r \in Int /\ x \in Int
  BY Division
<1>2. (x + (q - r)) % q = (a + (q - r)) % q
  <2>1. q - r \in Int
    BY <1>1
  <2> HIDE DEF r
  <2> QED BY <2>1, SumOfRemainders
<1> HIDE DEF d, r, x
<1>3. a + (q - r) = q * (d + 1) + (a - b) /\ d + 1 \in Int /\ a - b \in Int
  BY <1>1
<1>4. (q * (d + 1) + (a - b)) % q = (a - b) % q
  BY <1>3, MultiplesVanish
<1>5. (x + (q - r)) % q = (a - b) % q
  BY <1>2, <1>3, <1>4
<1> QED BY <1>5 DEF r, x

\* The operands of a sum may both be reduced before.
LEMMA SumReduced ==
  ASSUME NEW q \in Nat \ {0}, NEW a \in Int, NEW b \in Int
  PROVE  ((a % q) + (b % q)) % q = (a + b) % q
<1>1. b % q \in Int
  OBVIOUS
<1>2. ((a % q) + (b % q)) % q = (a + (b % q)) % q
  BY <1>1, SumOfRemainders
<1>3. ((b % q) + a) % q = (b + a) % q
  BY SumOfRemainders
<1>4. a + (b % q) = (b % q) + a /\ a + b = b + a
  BY <1>1
<1> QED BY <1>2, <1>3, <1>4

\* So may those of a difference.
LEMMA DifferenceReduced ==
  ASSUME NEW q \in Nat \ {0}, NEW a \in Int, NEW b \in Int
  PROVE  ((a % q) - (b % q)) % q = (a - b) % q
<1> DEFINE x == a % q
           r == b % q
<1>1. x \in Int /\ r \in Int
  OBVIOUS
<1>2. (x + (q - r)) % q = (a - b) % q
  BY DifferenceOfRemainders
<1> HIDE DEF x, r
<1> DEFINE y == x - r
<1>3. x + (q - r) = q * 1 + y /\ y \in Int
  BY <1>1
<1> HIDE DEF y
<1>4. (q * 1 + y) % q = y % q
  <2>1. 1 \in Int
    OBVIOUS
  <2> QED BY <1>3, <2>1, MultiplesVanish
<1>5. y % q = (a - b) % q
  BY <1>2, <1>3, <1>4
<1> QED BY <1>5 DEF x, r, y

\* What is left after taking the remainder away is divided by multiplying with
\* the inverse.
LEMMA ExactQuotient ==
  ASSUME NEW q \in Nat \ {0, 1}, NEW p \in Nat \ {0}, NEW v \in Int, NEW s \in Int,
         (p * s) % q = 1
  PROVE  ((v - (v % p)) * s) % q = (v \div p) % q
<1> DEFINE k == v \div p
           r == v % p
           u == p * s
<1>1. v = p * k + r /\ k \in Int /\ r \in Int /\ u \in Int
  BY Division
<1> HIDE DEF k, r
<1>2. (v - r) * s = u * k
  BY <1>1
<1> HIDE DEF u
<1>3. ((u % q) * k) % q = (u * k) % q
  BY <1>1, ProductOfRemainders
<1>4. u % q = 1
  BY DEF u
<1>5. 1 * k = k
  BY <1>1
<1> QED BY <1>2, <1>3, <1>4, <1>5 DEF k, r
-----------------------------------------------------------------------------
(* Words and the instructions on them.                                     *)

\* What the theorems ask of a modulus: it exists and exceeds 1.
GoodModulus(m) == Q(m) \in Nat \ {0, 1}

\* The word that stands for an integer under a modulus.
Residues(v, m) == [i \in Index |-> v[i] % Q(m)]

\* Index is the domain of a sequence.
LEMMA DegreeType == Degree \in Nat
BY ScheduleAssumption

\* The words that TLC keeps are the words themselves.
LEMMA Kept ==
  ASSUME NEW f, f \in [Index -> Int]
  PROVE  f \o << >> = f
<1>1. f \in Seq(Int)
  BY DegreeType DEF Index
<1> QED BY <1>1, ConcatEmptySeq

\* One word of a sum.
LEMMA AddWord ==
  ASSUME NEW m, GoodModulus(m), NEW a \in [Index -> Int], NEW b \in [Index -> Int]
  PROVE  /\ Add(m, a, b) \in [Index -> Int]
         /\ \A i \in Index : Add(m, a, b)[i] = (a[i] + b[i]) % Q(m)
<1> DEFINE f == [i \in Index |-> (a[i] + b[i]) % Q(m)]
<1>1. f \in [Index -> Int]
  BY DEF GoodModulus
<1>2. Add(m, a, b) = f
  BY <1>1, Kept DEF Add
<1> QED BY <1>1, <1>2

\* One word of a difference.
LEMMA SubWord ==
  ASSUME NEW m, GoodModulus(m), NEW a \in [Index -> Int], NEW b \in [Index -> Int]
  PROVE  /\ Sub(m, a, b) \in [Index -> Int]
         /\ \A i \in Index : Sub(m, a, b)[i] = (a[i] - b[i]) % Q(m)
<1> DEFINE f == [i \in Index |-> ((a[i] % Q(m)) + Q(m) - (b[i] % Q(m))) % Q(m)]
<1>1. f \in [Index -> Int]
  BY DEF GoodModulus
<1>2. Sub(m, a, b) = f
  BY <1>1, Kept DEF Sub
<1>3. ASSUME NEW i \in Index PROVE f[i] = (a[i] - b[i]) % Q(m)
  BY DifferenceOfRemainders DEF GoodModulus
<1> QED BY <1>1, <1>2, <1>3

\* One word of a product.
LEMMA MulWord ==
  ASSUME NEW m, GoodModulus(m), NEW a \in [Index -> Int], NEW b \in [Index -> Int]
  PROVE  /\ Mul(m, a, b) \in [Index -> Int]
         /\ \A i \in Index : Mul(m, a, b)[i] = (a[i] * b[i]) % Q(m)
<1> DEFINE f == [i \in Index |-> ((a[i] % Q(m)) * (b[i] % Q(m))) % Q(m)]
<1>1. f \in [Index -> Int]
  BY DEF GoodModulus
<1>2. Mul(m, a, b) = f
  BY <1>1, Kept DEF Mul
<1>3. ASSUME NEW i \in Index PROVE f[i] = (a[i] * b[i]) % Q(m)
  <2> DEFINE x == a[i]
             y == b[i]
             q == Q(m)
  <2>1. x \in Int /\ y \in Int /\ q \in Nat \ {0} /\ y % q \in Int
    BY DEF GoodModulus
  <2> HIDE DEF x, y, q
  <2>2. ((x % q) * (y % q)) % q = (x * (y % q)) % q
    BY <2>1, ProductOfRemainders
  <2>3. x * (y % q) = (y % q) * x /\ x * y = y * x
    BY <2>1
  <2>4. ((y % q) * x) % q = (y * x) % q
    BY <2>1, ProductOfRemainders
  <2>5. ((x % q) * (y % q)) % q = (x * y) % q
    BY <2>2, <2>3, <2>4
  <2> QED BY <2>5 DEF x, y, q
<1> QED BY <1>1, <1>2, <1>3

\* A constant in every word.
LEMMA ConstWord ==
  ASSUME NEW m, GoodModulus(m), NEW v \in Int
  PROVE  /\ Const(m, v) \in [Index -> Int]
         /\ \A i \in Index : Const(m, v)[i] = v % Q(m)
<1> DEFINE f == [i \in Index |-> v % Q(m)]
<1>1. f \in [Index -> Int]
  BY DEF GoodModulus
<1>2. Const(m, v) = f
  BY <1>1, Kept DEF Const
<1> QED BY <1>1, <1>2

\* A one in every word.
LEMMA OneWord ==
  ASSUME NEW m, GoodModulus(m), NEW i \in Index
  PROVE  Const(m, 1)[i] = 1
<1>1. Const(m, 1)[i] = 1 % Q(m)
  <2>1. 1 \in Int
    OBVIOUS
  <2> QED BY <2>1, ConstWord
<1>2. \A q \in Nat \ {0, 1} : 1 % q = 1
  OBVIOUS
<1> QED BY <1>1, <1>2 DEF GoodModulus

\* Biasing a word that stands for an integer by a constant.
LEMMA BiasedWord ==
  ASSUME NEW m, GoodModulus(m), NEW v \in [Index -> Int], NEW h \in Int, NEW i \in Index
  PROVE  Add(m, Residues(v, m), Const(m, h))[i] = (v[i] + h) % Q(m)
<1>1. Residues(v, m) \in [Index -> Int] /\ Residues(v, m)[i] = v[i] % Q(m)
  BY DEF Residues, GoodModulus
<1>2. Const(m, h) \in [Index -> Int] /\ Const(m, h)[i] = h % Q(m)
  BY ConstWord
<1>3. Add(m, Residues(v, m), Const(m, h))[i] = ((v[i] % Q(m)) + (h % Q(m))) % Q(m)
  <2> DEFINE x == Residues(v, m)
             y == Const(m, h)
  <2>1. x \in [Index -> Int] /\ y \in [Index -> Int]
    BY <1>1, <1>2
  <2> HIDE DEF x, y
  <2>2. Add(m, x, y)[i] = (x[i] + y[i]) % Q(m)
    BY <2>1, AddWord
  <2> QED BY <1>1, <1>2, <2>2 DEF x, y
<1> DEFINE q == Q(m)
           a == v[i]
<1>4. q \in Nat \ {0} /\ a \in Int
  BY DEF GoodModulus
<1> HIDE DEF q, a
<1>5. ((a % q) + (h % q)) % q = (a + h) % q
  BY <1>4, SumReduced
<1> QED BY <1>3, <1>5 DEF q, a

\* A polynomial taken to another modulus.
LEMMA ReducedWord ==
  ASSUME NEW m, GoodModulus(m), NEW a \in [Index -> Int]
  PROVE  /\ Reduced(m, a) \in [Index -> Int]
         /\ \A i \in Index : Reduced(m, a)[i] = a[i] % Q(m)
<1> DEFINE f == [i \in Index |-> a[i] % Q(m)]
<1>1. f \in [Index -> Int]
  BY DEF GoodModulus
<1>2. Reduced(m, a) = f
  BY <1>1, Kept DEF Reduced
<1> QED BY <1>1, <1>2

\* The dot product of a base conversion with one source.
LEMMA DotWord ==
  ASSUME NEW m, GoodModulus(m), NEW a \in [Index -> Int], NEW b \in [Index -> Int]
  PROVE  /\ Accumulated(m, <<a, b>>) \in [Index -> Int]
         /\ \A i \in Index : Accumulated(m, <<a, b>>)[i] = (a[i] * b[i]) % Q(m)
<1> DEFINE args == <<a, b>>
           q == Q(m)
           Step(i, f) == [k \in 0 .. Len(args) \div 2 |->
              IF k = 0 THEN 0 ELSE (f[k - 1] + ((args[2 * k - 1][i] % q) * args[2 * k][i])) % q]
           Sums(i) == CHOOSE f : f = Step(i, f)
<1>1. Accumulated(m, args) = [i \in Index |-> Sums(i)[Len(args) \div 2]] \o << >>
  BY DEF Accumulated
<1>2. ASSUME NEW i \in Index PROVE Sums(i)[Len(args) \div 2] = (a[i] * b[i]) % q
  <2> DEFINE sum == ((a[i] % q) * b[i]) % q
             g == [k \in {0, 1} |-> IF k = 0 THEN 0 ELSE sum]
  <2>1. Len(args) \div 2 = 1 /\ args[1] = a /\ args[2] = b /\ 0 .. Len(args) \div 2 = {0, 1}
    OBVIOUS
  <2>2. a[i] \in Int /\ b[i] \in Int /\ q \in Nat \ {0}
    BY DEF GoodModulus
  <2>3. (0 + ((a[i] % q) * b[i])) % q = sum
    BY <2>2
  <2>4. g = Step(i, g)
    BY <2>1, <2>3
  <2>5. Sums(i) = Step(i, Sums(i))
    <3> HIDE DEF g, Step
    <3> QED BY <2>4
  <2>6. Sums(i)[0] = 0
    <3> HIDE DEF Sums
    <3> QED BY <2>1, <2>5
  <2>7. Sums(i)[1] = (Sums(i)[0] + ((a[i] % q) * b[i])) % q
    <3> HIDE DEF Sums
    <3> QED BY <2>1, <2>5
  <2>8. Sums(i)[1] = sum
    <3> HIDE DEF Sums
    <3> QED BY <2>3, <2>6, <2>7
  <2>9. sum = (a[i] * b[i]) % q
    BY <2>2, ProductOfRemainders
  <2> HIDE DEF Sums
  <2> QED BY <2>1, <2>8, <2>9
<1>3. [i \in Index |-> Sums(i)[Len(args) \div 2]] \in [Index -> Int]
  <2> HIDE DEF Sums, args
  <2>1. \A i \in Index : (a[i] * b[i]) % q \in Int
    BY DEF GoodModulus
  <2> QED BY <1>2, <2>1
<1> HIDE DEF Sums
<1>4. Accumulated(m, args) = [i \in Index |-> Sums(i)[Len(args) \div 2]]
  BY <1>1, <1>3, Kept
<1> QED BY <1>2, <1>3, <1>4
-----------------------------------------------------------------------------
(* Dividing by a modulus.                                                  *)

\* What ModDown and the rescaling constants rely on: p has an inverse under m
\* (the moduli of a context are different primes).
Invertible(p, m) == \E s \in 1 .. Q(m) - 1 : ((Q(p) % Q(m)) * s) % Q(m) = 1

\* The integers divided by Q(p) and rounded to the nearest, under m.
RoundedInteger(v, p, m) == [i \in Index |-> ((v[i] + (Q(p) \div 2)) \div Q(p)) % Q(m)]

\* The constant that relocation binds is the inverse.
LEMMA InverseWord ==
  ASSUME NEW m, NEW p, GoodModulus(m), GoodModulus(p), Invertible(p, m)
  PROVE  InverseMod(Q(p), m) \in Nat /\ (Q(p) * InverseMod(Q(p), m)) % Q(m) = 1
<1> DEFINE q == Q(m)
           s == InverseMod(Q(p), m)
<1>1. s \in 1 .. q - 1 /\ ((Q(p) % q) * s) % q = 1
  BY DEF Invertible, InverseMod
<1>2. ((Q(p) % q) * s) % q = (Q(p) * s) % q
  <2>1. Q(p) \in Int /\ s \in Int /\ q \in Nat \ {0}
    BY <1>1 DEF GoodModulus
  <2> HIDE DEF q, s
  <2> QED BY <2>1, ProductOfRemainders
<1> QED BY <1>1, <1>2 DEF GoodModulus

\* Both ways end here: a word that stands for w, less one that stands for the
\* remainder of w, times the inverse.
LEMMA QuotientWord ==
  ASSUME NEW m, NEW p, GoodModulus(m), GoodModulus(p), Invertible(p, m), NEW w \in Int,
         NEW x \in Int, NEW y \in Int, (x - y) % Q(m) = (w - (w % Q(p))) % Q(m)
  PROVE  (((x - y) % Q(m)) * (InverseMod(Q(p), m) % Q(m))) % Q(m) = (w \div Q(p)) % Q(m)
<1> DEFINE q == Q(m)
           pp == Q(p)
           s == InverseMod(pp, m)
           d == w - (w % pp)
<1>1. s \in Nat /\ (pp * s) % q = 1
  BY InverseWord
<1>2. q \in Nat \ {0, 1} /\ pp \in Nat \ {0} /\ s \in Int /\ d \in Int /\ s % q \in Int
  BY <1>1 DEF GoodModulus
<1>3. (x - y) % q = d % q
  OBVIOUS
<1> HIDE DEF q, pp, s
<1>4. (d * s) % q = (w \div pp) % q
  <2>1. (pp * s) % q = 1
    BY <1>1
  <2> QED BY <1>2, <2>1, ExactQuotient
<1> HIDE DEF d
<1>5. ((d % q) * (s % q)) % q = (d * (s % q)) % q
  BY <1>2, ProductOfRemainders
<1>6. d * (s % q) = (s % q) * d /\ d * s = s * d
  BY <1>2
<1>7. ((s % q) * d) % q = (s * d) % q
  BY <1>2, ProductOfRemainders
<1>8. ((d % q) * (s % q)) % q = (w \div pp) % q
  BY <1>4, <1>5, <1>6, <1>7
<1> QED BY <1>3, <1>8 DEF q, pp, s

\* Every residue gets the half, the remainder is taken to m and away, and the
\* inverse divides: the tasks of a rounded division under m and p leave the
\* integers divided by p, rounded to the nearest, whatever they were.
THEOREM HpuRounds ==
  ASSUME NEW m, NEW p, GoodModulus(m), GoodModulus(p), Invertible(p, m), NEW v \in [Index -> Int]
  PROVE  HpuQuotient(Residues(v, m), Residues(v, p), p, m) = RoundedInteger(v, p, m)
<1> DEFINE h == Q(p) \div 2
           w(i) == v[i] + h
           biasedM == Add(m, Residues(v, m), Const(m, h))
           biasedP == Add(p, Residues(v, p), Const(p, h))
           normalized == Mul(p, biasedP, Const(p, 1))
           correction == Accumulated(m, <<normalized, Const(m, 1)>>)
           s == InverseMod(Q(p), m)
           out == Mul(m, Sub(m, biasedM, correction), Const(m, s))
<1>1. HpuQuotient(Residues(v, m), Residues(v, p), p, m) = out
  BY HpuQuotientWritten
<1>2. /\ h \in Int /\ s \in Nat
      /\ Residues(v, m) \in [Index -> Int] /\ Residues(v, p) \in [Index -> Int]
  BY InverseWord DEF GoodModulus, Residues
<1>3. /\ Const(m, h) \in [Index -> Int] /\ Const(p, h) \in [Index -> Int]
      /\ Const(m, 1) \in [Index -> Int] /\ Const(p, 1) \in [Index -> Int]
      /\ Const(m, s) \in [Index -> Int]
  BY <1>2, ConstWord
<1>4. biasedM \in [Index -> Int] /\ biasedP \in [Index -> Int]
  BY <1>2, <1>3, AddWord
<1>5. normalized \in [Index -> Int]
  BY <1>3, <1>4, MulWord
<1>6. correction \in [Index -> Int]
  BY <1>3, <1>5, DotWord
<1>7. Sub(m, biasedM, correction) \in [Index -> Int]
  BY <1>4, <1>6, SubWord
<1>8. ASSUME NEW i \in Index
      PROVE  out[i] = (w(i) \div Q(p)) % Q(m)
  <2>1. biasedM[i] = w(i) % Q(m) /\ biasedP[i] = w(i) % Q(p)
    BY <1>2, BiasedWord
  <2>2. w(i) \in Int
    BY <1>2
  <2>3. normalized[i] = w(i) % Q(p)
    <3>1. normalized[i] = (biasedP[i] * Const(p, 1)[i]) % Q(p)
      BY <1>3, <1>4, MulWord
    <3>2. Const(p, 1)[i] = 1
      BY OneWord
    <3> HIDE DEF w, biasedP, normalized
    <3>3. (w(i) % Q(p)) * 1 = w(i) % Q(p) /\ (w(i) % Q(p)) % Q(p) = w(i) % Q(p)
      BY <2>2 DEF GoodModulus
    <3> QED BY <2>1, <3>1, <3>2, <3>3
  <2>4. correction[i] = (w(i) % Q(p)) % Q(m)
    <3>1. correction[i] = (normalized[i] * Const(m, 1)[i]) % Q(m)
      BY <1>3, <1>5, DotWord
    <3>2. Const(m, 1)[i] = 1
      BY OneWord
    <3> HIDE DEF w, normalized, correction
    <3>3. (w(i) % Q(p)) * 1 = w(i) % Q(p)
      BY <2>2 DEF GoodModulus
    <3> QED BY <2>3, <3>1, <3>2, <3>3
  <2>5. out[i] = (Sub(m, biasedM, correction)[i] * Const(m, s)[i]) % Q(m)
    BY <1>3, <1>7, MulWord
  <2>6. Sub(m, biasedM, correction)[i] = (biasedM[i] - correction[i]) % Q(m)
    BY <1>4, <1>6, SubWord
  <2>7. Const(m, s)[i] = s % Q(m)
    BY <1>2, ConstWord
  <2>8. biasedM[i] \in Int /\ correction[i] \in Int
    BY <1>4, <1>6
  <2> HIDE DEF w, biasedM, correction, out
  <2>9. (biasedM[i] - correction[i]) % Q(m) = (w(i) - (w(i) % Q(p))) % Q(m)
    <3> DEFINE q == Q(m)
               r == w(i) % Q(p)
    <3>1. q \in Nat \ {0} /\ r \in Int /\ w(i) % q \in Int /\ r % q \in Int
      BY <2>2 DEF GoodModulus
    <3>2. biasedM[i] = w(i) % q /\ correction[i] = r % q
      BY <2>1, <2>4
    <3> HIDE DEF q, r
    <3>3. ((w(i) % q) - (r % q)) % q = (w(i) - r) % q
      BY <2>2, <3>1, DifferenceReduced
    <3> QED BY <3>2, <3>3 DEF q, r
  <2> QED BY <2>2, <2>5, <2>6, <2>7, <2>8, <2>9, QuotientWord
<1>9. out \in [Index -> Int]
  BY <1>3, <1>7, MulWord
<1>10. out = [i \in Index |-> (w(i) \div Q(p)) % Q(m)]
  <2> HIDE DEF out, w
  <2> QED BY <1>8, <1>9
<1> QED BY <1>1, <1>10 DEF RoundedInteger

\* The software executor takes the half away again after reducing the remainder:
\* also its quotient is the integers divided by p and rounded to the nearest.
THEOREM SoftwareRounds ==
  ASSUME NEW m, NEW p, GoodModulus(m), GoodModulus(p), Invertible(p, m), NEW v \in [Index -> Int]
  PROVE  RoundedQuotient(Residues(v, m), Residues(v, p), p, m) = RoundedInteger(v, p, m)
<1> DEFINE h == Q(p) \div 2
           w(i) == v[i] + h
           remainder == Add(p, Residues(v, p), Const(p, h))
           reduced == Reduced(m, remainder)
           correction == Sub(m, reduced, Const(m, h))
           s == InverseMod(Q(p), m)
           difference == Sub(m, Residues(v, m), correction)
           out == Mul(m, difference, Const(m, s))
<1>1. RoundedQuotient(Residues(v, m), Residues(v, p), p, m) = out
  BY DEF RoundedQuotient
<1>2. /\ h \in Int /\ s \in Nat
      /\ Residues(v, m) \in [Index -> Int] /\ Residues(v, p) \in [Index -> Int]
  BY InverseWord DEF GoodModulus, Residues
<1>3. /\ Const(m, h) \in [Index -> Int] /\ Const(p, h) \in [Index -> Int]
      /\ Const(m, s) \in [Index -> Int]
  BY <1>2, ConstWord
<1>4. remainder \in [Index -> Int]
  BY <1>2, <1>3, AddWord
<1>5. reduced \in [Index -> Int]
  BY <1>4, ReducedWord
<1>6. correction \in [Index -> Int]
  BY <1>3, <1>5, SubWord
<1>7. difference \in [Index -> Int]
  BY <1>2, <1>6, SubWord
<1>8. ASSUME NEW i \in Index
      PROVE  out[i] = (w(i) \div Q(p)) % Q(m)
  <2>1. remainder[i] = w(i) % Q(p)
    BY <1>2, BiasedWord
  <2>2. w(i) \in Int /\ w(i) % Q(p) \in Int
    BY <1>2 DEF GoodModulus
  <2>3. reduced[i] = (w(i) % Q(p)) % Q(m)
    BY <1>4, <2>1, ReducedWord
  <2>4. correction[i] = (reduced[i] - Const(m, h)[i]) % Q(m)
    BY <1>3, <1>5, SubWord
  <2>5. Const(m, h)[i] = h % Q(m)
    BY <1>2, ConstWord
  <2>6. difference[i] = (Residues(v, m)[i] - correction[i]) % Q(m)
    BY <1>2, <1>6, SubWord
  <2>7. Residues(v, m)[i] = v[i] % Q(m)
    BY DEF Residues
  <2>8. out[i] = (difference[i] * Const(m, s)[i]) % Q(m)
    BY <1>3, <1>7, MulWord
  <2>9. Const(m, s)[i] = s % Q(m)
    BY <1>2, ConstWord
  <2>10. Residues(v, m)[i] \in Int /\ correction[i] \in Int /\ v[i] \in Int
    BY <1>2, <1>6
  <2>11. (Residues(v, m)[i] - correction[i]) % Q(m) = (w(i) - (w(i) % Q(p))) % Q(m)
    <3> DEFINE q == Q(m)
               r == w(i) % Q(p)
               x == v[i]
               hh == h
    <3>1. q \in Nat \ {0} /\ r \in Int /\ x \in Int /\ hh \in Int /\ w(i) = x + hh
      BY <1>2, <2>2, <2>10 DEF GoodModulus
    <3>2. correction[i] = ((r % q) - (hh % q)) % q /\ Residues(v, m)[i] = x % q
      BY <2>3, <2>4, <2>5, <2>7
    <3> HIDE DEF q, r, x, hh, correction, w
    <3> DEFINE d == r - hh
    <3>3. ((r % q) - (hh % q)) % q = d % q
      BY <3>1, DifferenceReduced
    <3>4. d \in Int /\ x - d = w(i) - r
      BY <3>1
    <3> HIDE DEF d
    <3>5. ((x % q) - (d % q)) % q = (x - d) % q
      BY <3>1, <3>4, DifferenceReduced
    <3>6. (Residues(v, m)[i] - correction[i]) % q = (w(i) - r) % q
      BY <3>2, <3>3, <3>4, <3>5
    <3> QED BY <3>6 DEF q, r
  <2> HIDE DEF w, difference, correction, out
  <2> QED BY <2>2, <2>6, <2>8, <2>9, <2>10, <2>11, QuotientWord
<1>9. out \in [Index -> Int]
  BY <1>3, <1>7, MulWord
<1>10. out = [i \in Index |-> (w(i) \div Q(p)) % Q(m)]
  <2> HIDE DEF out, w
  <2> QED BY <1>8, <1>9
<1> QED BY <1>1, <1>10 DEF RoundedInteger

\* What modulus switching and key switching leave on the HPU is what the golden
\* model has, for all inputs and not only for those of a test.
THEOREM RoundingAgrees ==
  ASSUME NEW m, NEW p, GoodModulus(m), GoodModulus(p), Invertible(p, m), NEW v \in [Index -> Int]
  PROVE  HpuQuotient(Residues(v, m), Residues(v, p), p, m)
           = RoundedQuotient(Residues(v, m), Residues(v, p), p, m)
BY HpuRounds, SoftwareRounds

-----------------------------------------------------------------------------
(* Sequences that only ever grow.                                          *)

\* A list, of any elements.
Sequence(s) == s \in Seq(Mods(s))

\* The elements of a list.
LEMMA RangeOf == ASSUME NEW s PROVE Mods(s) = {s[i] : i \in DOMAIN s}
  BY DEF Mods, ToSet

\* The positions of a list.
LEMMA Indexed ==
  ASSUME NEW s, Sequence(s)
  PROVE  Len(s) \in Nat /\ DOMAIN s = 1 .. Len(s)
  BY DEF Sequence

\* A list of one element.
LEMMA Single == ASSUME NEW x PROVE Mods(<<x>>) = {x}
  BY RangeOf

\* A list of nothing.
LEMMA EmptySequence == Sequence(<< >>)
  BY DEF Sequence

\* Appending keeps what is there.
LEMMA Appended ==
  ASSUME NEW s, Sequence(s), NEW e
  PROVE  /\ Sequence(Append(s, e))
         /\ Len(Append(s, e)) = Len(s) + 1 /\ DOMAIN Append(s, e) = 1 .. Len(s) + 1
         /\ Append(s, e)[Len(s) + 1] = e
         /\ \A i \in 1 .. Len(s) : Append(s, e)[i] = s[i]
         /\ \A i \in DOMAIN s : Append(s, e)[i] = s[i]
  <1> DEFINE T == Mods(s) \cup {e}
  <1>1. s \in Seq(T) /\ e \in T
    BY DEF Sequence
  <1>2. Append(s, e) \in Seq(T)
    BY <1>1
  <1>3. Len(Append(s, e)) = Len(s) + 1 /\ DOMAIN Append(s, e) = 1 .. Len(s) + 1
    BY <1>1
  <1>4. Append(s, e)[Len(s) + 1] = e /\ \A i \in 1 .. Len(s) : Append(s, e)[i] = s[i]
    BY <1>1
  <1>5. DOMAIN s = 1 .. Len(s) /\ Len(s) \in Nat
    BY <1>1
  <1>6. \A i \in 1 .. Len(s) + 1 : Append(s, e)[i] \in Mods(Append(s, e))
    BY <1>3, RangeOf
  <1>7. Append(s, e) \in Seq(Mods(Append(s, e)))
    <2> DEFINE r == Append(s, e)
               U == Mods(r)
    <2>1. r \in Seq(T) /\ \A i \in 1 .. Len(r) : r[i] \in U
      BY <1>2, <1>3, <1>6
    <2> HIDE DEF r, U
    <2>2. r \in Seq(U)
      BY <2>1
    <2> QED
      BY <2>2 DEF r, U
  <1> QED
    BY <1>3, <1>4, <1>5, <1>7 DEF Sequence

-----------------------------------------------------------------------------
(* What the builder records.                                               *)

\* The metadata of v are those that SEAL gives to the result.
Builds(sch, v, a, b) ==
  \/ v.kind = "input"
  \/ /\ v.kind \in {"add", "sub"} /\ Len(v.inputs) = 2
     /\ a.comps = 2 /\ b.comps = 2 /\ b.level = a.level /\ v.level = a.level /\ v.comps = 2
     /\ sch = "ckks" => a.scale = b.scale /\ v.scale = a.scale
  \/ /\ v.kind = "multiply" /\ Len(v.inputs) = 2
     /\ a.comps = 2 /\ b.comps = 2 /\ b.level = a.level /\ v.level = a.level /\ v.comps = 3
     /\ sch = "ckks" => v.scale = TimesScale(a.scale, b.scale)
     /\ sch = "bfv" => a.level >= 1
  \/ /\ v.kind = "square" /\ Len(v.inputs) = 1
     /\ a.comps = 2 /\ v.level = a.level /\ v.comps = 3
     /\ sch = "ckks" => v.scale = TimesScale(a.scale, a.scale)
     /\ sch = "bfv" => a.level >= 1
  \/ /\ v.kind = "negate" /\ Len(v.inputs) = 1
     /\ a.comps = 2 /\ v.level = a.level /\ v.comps = 2 /\ v.scale = a.scale
  \/ /\ v.kind = "rescale" /\ Len(v.inputs) = 1 /\ sch = "ckks"
     /\ a.level > 0 /\ v.level = NextLevel(a.level) /\ v.comps = a.comps /\ v.scale = DividedScale(a.scale, a.level)
  \/ /\ v.kind = "mod_switch" /\ Len(v.inputs) = 1 /\ sch = "bfv"
     /\ a.comps = 2 /\ a.level > 0 /\ v.level = NextLevel(a.level) /\ v.comps = 2
  \/ /\ v.kind \in {"add_plain", "sub_plain"} /\ Len(v.inputs) = 1
     /\ a.comps = 2 /\ v.level = a.level /\ v.comps = 2
     /\ sch = "ckks" => a.scale = Delta /\ v.scale = a.scale
  \/ /\ v.kind = "multiply_plain" /\ Len(v.inputs) = 1
     /\ a.comps = 2 /\ v.level = a.level /\ v.comps = 2
     /\ sch = "ckks" => v.scale = TimesScale(a.scale, Delta)
  \/ /\ v.kind = "relinearize" /\ Len(v.inputs) = 1
     /\ a.comps = 3 /\ v.level = a.level /\ v.comps = 2 /\ v.scale = a.scale
  \/ /\ v.kind = "rotate" /\ Len(v.inputs) = 1 /\ v.element \in Elements
     /\ a.comps = 2 /\ v.level = a.level /\ v.comps = 2 /\ v.scale = a.scale
  \/ /\ v.kind = "scale_view" /\ Len(v.inputs) = 1 /\ sch = "ckks"
     /\ v.level = a.level /\ v.comps = a.comps

\* v is recorded at position i after the values before.
Built(sch, values, v, i) ==
  /\ v.kind = "input" => v.data \in DOMAIN Ciphertexts /\ v.level = Ciphertexts[v.data].level /\ v.comps = Ciphertexts[v.data].comps
  /\ v.kind # "input" => v.inputs[1] \in 1 .. i - 1
  /\ Len(v.inputs) = 2 => v.inputs[2] \in 1 .. i - 1
  /\ v.level \in Levels /\ v.comps \in {2, 3}
  /\ Builds(sch, v, values[v.inputs[1]], values[v.inputs[2]])

\* Every value of the graph has the level, size and scale that SEAL gives to
\* the result of its operation, and takes only values before it.
NodesRight ==
  /\ scheme \in {"ckks", "bfv"} /\ Sequence(nodes)
  /\ \A i \in DOMAIN nodes : Built(scheme, nodes, nodes[i], i)

\* The values before i decide.
LEMMA BuiltLocal ==
  ASSUME NEW sch, NEW values, NEW others, NEW v, NEW i \in Nat, Built(sch, values, v, i),
         \A j \in 1 .. i - 1 : others[j] = values[j]
  PROVE  Built(sch, others, v, i)
  <1>1. v.kind # "input" => others[v.inputs[1]] = values[v.inputs[1]]
    BY DEF Built
  <1>2. Len(v.inputs) = 2 => others[v.inputs[2]] = values[v.inputs[2]]
    BY DEF Built
  <1>3. Builds(sch, v, others[v.inputs[1]], others[v.inputs[2]])
    <2> DEFINE a == values[v.inputs[1]]
               b == values[v.inputs[2]]
               c == others[v.inputs[1]]
               d == others[v.inputs[2]]
    <2> SUFFICES Builds(sch, v, c, d)
      OBVIOUS
    <2>1. Builds(sch, v, a, b)
      BY DEF Built
    <2>2. v.kind # "input" => c = a
      BY <1>1
    <2>3. Len(v.inputs) = 2 => d = b
      BY <1>2
    <2> HIDE DEF a, b, c, d
    <2> QED
      BY <2>1, <2>2, <2>3 DEF Builds
  <1> QED
    BY <1>3 DEF Built

\* One more value.
LEMMA Recording ==
  ASSUME NodesRight, NEW v, Built(scheme, nodes, v, Len(nodes) + 1), Commit(v), scheme' = scheme
  PROVE  NodesRight'
  <1>1. /\ Sequence(nodes') /\ DOMAIN nodes' = 1 .. Len(nodes) + 1 /\ nodes'[Len(nodes) + 1] = v
        /\ \A i \in 1 .. Len(nodes) : nodes'[i] = nodes[i]
    BY Appended DEF NodesRight, Commit
  <1>2. Len(nodes) \in Nat /\ DOMAIN nodes = 1 .. Len(nodes)
    BY Indexed DEF NodesRight
  <1>3. ASSUME NEW i \in DOMAIN nodes' PROVE Built(scheme', nodes', nodes'[i], i)
    <2>1. CASE i = Len(nodes) + 1
      BY <2>1, <1>1, <1>2, BuiltLocal
    <2>2. CASE i # Len(nodes) + 1
      <3>1. i \in 1 .. Len(nodes)
        BY <2>2, <1>1, <1>2
      <3>2. Built(scheme, nodes, nodes[i], i)
        BY <3>1, <1>2 DEF NodesRight
      <3> QED
        BY <3>1, <3>2, <1>1, <1>2, BuiltLocal
    <2> QED BY <2>1, <2>2
  <1> QED
    BY <1>1, <1>3 DEF NodesRight

\* What an action may take from the values so far.
LEMMA Earlier ==
  ASSUME NodesRight, NEW i \in DOMAIN nodes
  PROVE  /\ i \in 1 .. (Len(nodes) + 1) - 1 /\ Len(nodes) \in Nat
         /\ nodes[i].level \in Levels /\ nodes[i].comps \in {2, 3}
  BY Indexed DEF NodesRight, Built

\* Levels are counted down to 0.
LEMMA LowerLevel ==
  ASSUME NEW level \in Levels
  PROVE  level \in Nat /\ (level > 0 => NextLevel(level) \in Levels)
  <1>1. TopLevel \in Int
    BY LevelsAssumption DEF TopLevel
  <1> QED
    BY <1>1 DEF Levels, NextLevel

\* The frontend records each operation with the metadata of its result.
LEMMA BinaryRight ==
  ASSUME NodesRight, NEW kind \in {"add", "sub", "multiply"}, Binary(kind)
  PROVE  NodesRight'
  <1>1. PICK i \in DOMAIN nodes, j \in DOMAIN nodes :
          LET left == nodes[i]
              right == nodes[j]
              scale == IF kind = "multiply" THEN TimesScale(left.scale, right.scale) ELSE left.scale
          IN  /\ left.comps = 2 /\ right.comps = 2 /\ left.level = right.level
              /\ scheme = "ckks" => /\ kind # "multiply" => ScalesCompatible(left.scale, right.scale)
                                    /\ ValidScale(left.level, scale)
              /\ (scheme = "bfv" /\ kind = "multiply") => left.level >= 1
              /\ Commit(Value(kind, <<i, j>>, left.level, IF kind = "multiply" THEN 3 ELSE 2, scale))
    BY DEF Binary
  <1> DEFINE a == nodes[i]
             b == nodes[j]
             scale == IF kind = "multiply" THEN TimesScale(a.scale, b.scale) ELSE a.scale
             v == Value(kind, <<i, j>>, a.level, IF kind = "multiply" THEN 3 ELSE 2, scale)
  <1>2. /\ v.kind = kind /\ v.inputs = <<i, j>> /\ v.level = a.level /\ v.scale = scale
        /\ v.comps = IF kind = "multiply" THEN 3 ELSE 2
    BY DEF Value
  <1>3. Commit(v) /\ scheme' = scheme
    BY <1>1 DEF Binary
  <1>4. Builds(scheme, v, a, b)
    BY <1>1, <1>2 DEF Builds, ScalesCompatible
  <1>5. Built(scheme, nodes, v, Len(nodes) + 1)
    BY <1>2, <1>4, Earlier DEF Built
  <1> QED
    BY <1>3, <1>5, Recording

\* A square is a product of a value with itself.
LEMMA SquareRight == ASSUME NodesRight, Square PROVE NodesRight'
  <1>1. PICK i \in DOMAIN nodes :
          LET scale == TimesScale(nodes[i].scale, nodes[i].scale)
          IN  /\ nodes[i].comps = 2
              /\ scheme = "ckks" => ValidScale(nodes[i].level, scale)
              /\ scheme = "bfv" => nodes[i].level >= 1
              /\ Commit(Value("square", <<i>>, nodes[i].level, 3, scale))
    BY DEF Square
  <1> DEFINE a == nodes[i]
             v == Value("square", <<i>>, a.level, 3, TimesScale(a.scale, a.scale))
  <1>2. v.kind = "square" /\ v.inputs = <<i>> /\ v.level = a.level /\ v.scale = TimesScale(a.scale, a.scale) /\ v.comps = 3
    BY DEF Value
  <1>3. Commit(v) /\ scheme' = scheme
    BY <1>1, SMTT(30) DEF Square
  <1>4. Builds(scheme, v, a, nodes[v.inputs[2]])
    BY <1>1, <1>2 DEF Builds
  <1>5. Built(scheme, nodes, v, Len(nodes) + 1)
    BY <1>2, <1>4, Earlier DEF Built
  <1> QED
    BY <1>3, <1>5, Recording

\* A negation has the metadata of its operand.
LEMMA NegateRight == ASSUME NodesRight, NegateValue PROVE NodesRight'
  <1>1. PICK i \in DOMAIN nodes : nodes[i].comps = 2 /\ Commit(Value("negate", <<i>>, nodes[i].level, 2, nodes[i].scale))
    BY DEF NegateValue
  <1> DEFINE a == nodes[i]
             v == Value("negate", <<i>>, a.level, 2, a.scale)
  <1>2. v.kind = "negate" /\ v.inputs = <<i>> /\ v.level = a.level /\ v.scale = a.scale /\ v.comps = 2
    BY DEF Value
  <1>3. Commit(v) /\ scheme' = scheme
    BY <1>1 DEF NegateValue
  <1>4. Builds(scheme, v, a, nodes[v.inputs[2]])
    BY <1>1, <1>2 DEF Builds
  <1>5. Built(scheme, nodes, v, Len(nodes) + 1)
    BY <1>2, <1>4, Earlier DEF Built
  <1> QED
    BY <1>3, <1>5, Recording

\* Rescaling divides the scale by the modulus it drops.
LEMMA RescaleRight == ASSUME NodesRight, RescaleToNext PROVE NodesRight'
  <1>1. PICK i \in DOMAIN nodes :
          /\ HasNextLevel(nodes[i].level)
          /\ Commit(Value("rescale", <<i>>, NextLevel(nodes[i].level), nodes[i].comps, DividedScale(nodes[i].scale, nodes[i].level)))
    BY DEF RescaleToNext
  <1> DEFINE a == nodes[i]
             v == Value("rescale", <<i>>, NextLevel(a.level), a.comps, DividedScale(a.scale, a.level))
  <1>2. /\ v.kind = "rescale" /\ v.inputs = <<i>> /\ v.level = NextLevel(a.level) /\ v.comps = a.comps
        /\ v.scale = DividedScale(a.scale, a.level)
    BY DEF Value
  <1>3. Commit(v) /\ scheme' = scheme /\ scheme = "ckks"
    BY <1>1, SMTT(30) DEF RescaleToNext
  <1>4. Builds(scheme, v, a, nodes[v.inputs[2]])
    BY <1>1, <1>2, <1>3, SMTT(30) DEF Builds, HasNextLevel
  <1>5. Built(scheme, nodes, v, Len(nodes) + 1)
    BY <1>1, <1>2, <1>4, Earlier, LowerLevel DEF Built, HasNextLevel
  <1> QED
    BY <1>3, <1>5, Recording

\* Modulus switching drops a modulus and keeps the size.
LEMMA ModSwitchRight == ASSUME NodesRight, ModSwitchToNext PROVE NodesRight'
  <1>1. PICK i \in DOMAIN nodes :
          /\ nodes[i].comps = 2 /\ HasNextLevel(nodes[i].level)
          /\ Commit(Value("mod_switch", <<i>>, NextLevel(nodes[i].level), 2, nodes[i].scale))
    BY DEF ModSwitchToNext
  <1> DEFINE a == nodes[i]
             v == Value("mod_switch", <<i>>, NextLevel(a.level), 2, a.scale)
  <1>2. v.kind = "mod_switch" /\ v.inputs = <<i>> /\ v.level = NextLevel(a.level) /\ v.comps = 2
    BY DEF Value
  <1>3. Commit(v) /\ scheme' = scheme /\ scheme = "bfv"
    BY <1>1 DEF ModSwitchToNext
  <1>4. Builds(scheme, v, a, nodes[v.inputs[2]])
    BY <1>1, <1>2, <1>3 DEF Builds, HasNextLevel
  <1>5. Built(scheme, nodes, v, Len(nodes) + 1)
    BY <1>1, <1>2, <1>4, Earlier, LowerLevel DEF Built, HasNextLevel
  <1> QED
    BY <1>3, <1>5, Recording

\* A plaintext is encoded at the level of its operand.
LEMMA PlainRight ==
  ASSUME NodesRight, NEW kind \in {"add_plain", "sub_plain", "multiply_plain"}, Plain(kind)
  PROVE  NodesRight'
  <1>1. PICK i \in DOMAIN nodes, p \in DOMAIN plains :
          LET scale == IF kind = "multiply_plain" THEN TimesScale(nodes[i].scale, Delta) ELSE nodes[i].scale
          IN  /\ nodes[i].comps = 2
              /\ scheme = "ckks" => /\ Plaintexts[plains[p]] = nodes[i].level
                                    /\ kind # "multiply_plain" => ScalesCompatible(nodes[i].scale, Delta)
                                    /\ ValidScale(nodes[i].level, scale)
              /\ Commit([Value(kind, <<i>>, nodes[i].level, 2, IF scheme = "ckks" THEN scale ELSE nodes[i].scale) EXCEPT !.plain = p])
    BY DEF Plain
  <1> DEFINE a == nodes[i]
             scale == IF kind = "multiply_plain" THEN TimesScale(a.scale, Delta) ELSE a.scale
             v == [Value(kind, <<i>>, a.level, 2, IF scheme = "ckks" THEN scale ELSE a.scale) EXCEPT !.plain = p]
  <1>2. /\ v.kind = kind /\ v.inputs = <<i>> /\ v.level = a.level /\ v.comps = 2
        /\ v.scale = IF scheme = "ckks" THEN scale ELSE a.scale
    BY DEF Value
  <1>3. Commit(v) /\ scheme' = scheme
    BY <1>1 DEF Plain
  <1>4. Builds(scheme, v, a, nodes[v.inputs[2]])
    BY <1>1, <1>2, SMTT(30) DEF Builds, ScalesCompatible
  <1>5. Built(scheme, nodes, v, Len(nodes) + 1)
    BY <1>2, <1>4, Earlier DEF Built
  <1> QED
    BY <1>3, <1>5, Recording

\* Relinearization takes three polynomials to two.
LEMMA RelinearizeRight == ASSUME NodesRight, Relinearize PROVE NodesRight'
  <1>1. PICK i \in DOMAIN nodes, k \in Given(RelinKeySets) :
          /\ nodes[i].comps = 3
          /\ Commit([Value("relinearize", <<i>>, nodes[i].level, 2, nodes[i].scale) EXCEPT !.data = k, !.key = PositionOf(relinRegistry', k)])
    BY Zenon DEF Relinearize
  <1> DEFINE a == nodes[i]
             v == [Value("relinearize", <<i>>, a.level, 2, a.scale) EXCEPT !.data = k, !.key = PositionOf(relinRegistry', k)]
  <1>2. v.kind = "relinearize" /\ v.inputs = <<i>> /\ v.level = a.level /\ v.comps = 2 /\ v.scale = a.scale
    BY DEF Value
  <1>3. Commit(v) /\ scheme' = scheme
    BY <1>1 DEF Relinearize
  <1>4. Builds(scheme, v, a, nodes[v.inputs[2]])
    BY <1>1, <1>2 DEF Builds
  <1>5. Built(scheme, nodes, v, Len(nodes) + 1)
    BY <1>2, <1>4, Earlier DEF Built
  <1> QED
    BY <1>3, <1>5, Recording

\* A rotation is by a Galois element that has a key.
LEMMA RotationRight == ASSUME NodesRight, Rotation PROVE NodesRight'
  <1>1. PICK i \in DOMAIN nodes, k \in Given(DOMAIN GaloisKeySets), element \in Elements :
          /\ nodes[i].comps = 2
          /\ Commit([Value("rotate", <<i>>, nodes[i].level, 2, nodes[i].scale)
                       EXCEPT !.data = k, !.key = PositionOf(galoisRegistry', k), !.element = element])
    BY Zenon DEF Rotation
  <1> DEFINE a == nodes[i]
             v == [Value("rotate", <<i>>, a.level, 2, a.scale) EXCEPT !.data = k, !.key = PositionOf(galoisRegistry', k), !.element = element]
  <1>2. /\ v.kind = "rotate" /\ v.inputs = <<i>> /\ v.level = a.level /\ v.comps = 2 /\ v.scale = a.scale
        /\ v.element = element
    BY DEF Value
  <1>3. Commit(v) /\ scheme' = scheme
    BY <1>1 DEF Rotation
  <1>4. Builds(scheme, v, a, nodes[v.inputs[2]])
    BY <1>1, <1>2 DEF Builds
  <1>5. Built(scheme, nodes, v, Len(nodes) + 1)
    BY <1>2, <1>4, Earlier DEF Built
  <1> QED
    BY <1>3, <1>5, Recording

\* set_scale() changes no polynomial.
LEMMA ViewRight == ASSUME NodesRight, SetScale PROVE NodesRight'
  <1>1. PICK i \in DOMAIN nodes : Commit(Value("scale_view", <<i>>, nodes[i].level, nodes[i].comps, Delta))
    BY DEF SetScale
  <1> DEFINE a == nodes[i]
             v == Value("scale_view", <<i>>, a.level, a.comps, Delta)
  <1>2. v.kind = "scale_view" /\ v.inputs = <<i>> /\ v.level = a.level /\ v.comps = a.comps
    BY DEF Value
  <1>3. Commit(v) /\ scheme' = scheme /\ scheme = "ckks"
    BY <1>1 DEF SetScale
  <1>4. Builds(scheme, v, a, nodes[v.inputs[2]])
    BY <1>1, <1>2, <1>3 DEF Builds
  <1>5. Built(scheme, nodes, v, Len(nodes) + 1)
    BY <1>2, <1>4, Earlier DEF Built
  <1> QED
    BY <1>3, <1>5, Recording

\* An import has the metadata of its ciphertext.
LEMMA ImportRight == ASSUME NodesRight, ImportCiphertext PROVE NodesRight'
  <1>1. PICK d \in Given(DOMAIN Ciphertexts) :
          Commit([Value("input", << >>, Ciphertexts[d].level, Ciphertexts[d].comps,
                        IF scheme = "ckks" THEN Delta ELSE NoScale) EXCEPT !.data = d])
    BY DEF ImportCiphertext
  <1> DEFINE v == [Value("input", << >>, Ciphertexts[d].level, Ciphertexts[d].comps,
                         IF scheme = "ckks" THEN Delta ELSE NoScale) EXCEPT !.data = d]
  <1>2. /\ v.kind = "input" /\ v.inputs = << >> /\ v.level = Ciphertexts[d].level /\ v.comps = Ciphertexts[d].comps
        /\ v.data = d
    BY DEF Value
  <1>3. Commit(v) /\ scheme' = scheme
    BY <1>1 DEF ImportCiphertext
  <1>4. d \in DOMAIN Ciphertexts
    BY DEF Given
  <1>5. Built(scheme, nodes, v, Len(nodes) + 1)
    <2>1. Builds(scheme, v, nodes[v.inputs[1]], nodes[v.inputs[2]])
      BY <1>2, Zenon DEF Builds
    <2>2. Len(v.inputs) = 0
      BY <1>2
    <2> QED
      BY <1>2, <1>4, <2>1, <2>2, CiphertextAssumption DEF Built
  <1> QED
    BY <1>3, <1>5, Recording

\* Every call leaves a graph that SEAL can evaluate.
LEMMA FrontendRight == ASSUME NodesRight, FrontendNext PROVE NodesRight'
  <1>1. CASE ImportPlaintext
    BY <1>1 DEF ImportPlaintext, NodesRight
  <1>2. CASE MarkOutput
    BY <1>2 DEF MarkOutput, NodesRight
  <1> QED
    BY <1>1, <1>2, ImportRight, BinaryRight, SquareRight, NegateRight, RescaleRight, ModSwitchRight,
       PlainRight, RelinearizeRight, RotationRight, ViewRight DEF FrontendNext

-----------------------------------------------------------------------------
(* How far an application has come.                                        *)

\* The phases that the graph has been executed by SEAL in.
AfterOracle == {"plan", "software", "lower", "package", "hardware", "done"}
\* The phases that the plan is complete in.
AfterPlan == {"software", "lower", "package", "hardware", "done"}

\* The results of SEAL and the plan grow along the graph, in the phases that
\* they are made in.
PhasesRight ==
  /\ Sequence(oracle) /\ Sequence(prepared) /\ Sequence(steps)
  /\ phase = "build" => oracle = << >>
  /\ phase \in {"build", "oracle"} => prepared = << >> /\ steps = << >>
  /\ phase = "oracle" => Len(oracle) < Len(nodes)
  /\ phase # "build" => \E i \in DOMAIN nodes : nodes[i].kind \in Computations
  /\ phase \in AfterOracle => Len(oracle) = Len(nodes)
  /\ Len(oracle) <= Len(nodes) /\ Len(prepared) <= Len(oracle)
  /\ phase \in AfterPlan => Len(prepared) = Len(nodes)

\* A view has the value that it is a view of.
ViewsRight ==
  \A i \in DOMAIN oracle : nodes[i].kind \in Views => oracle[i] = oracle[nodes[i].inputs[1]]

\* What the plan holds for value i is an import, or the output of a step for
\* a value that is the same polynomial.
Holding(i) ==
  LET v == nodes[i]
      held == prepared[i]
  IN  /\ held = Holds(held.object, v.level, v.comps, held.scale)
      /\ scheme = "ckks" => held.scale = v.scale
      /\ held.object[4] = v.level
      /\ \/ held.object[1] = "input"
         \/ \E k \in DOMAIN steps :
              LET o == steps[k].node
              IN  /\ o \in 1 .. i /\ held.object = OutputObject(o, v.level)
                  /\ nodes[o].level = v.level /\ nodes[o].comps = v.comps /\ oracle[i] = oracle[o]
      /\ v.kind \in Computations => held.object = OutputObject(i, v.level) /\ \E k \in DOMAIN steps : steps[k].node = i

\* Step k is what is made of its node.
Stepping(k) ==
  LET n == steps[k].node
      a == prepared[nodes[n].inputs[1]]
  IN  /\ n \in DOMAIN prepared /\ nodes[n].kind \in Computations
      /\ steps[k] = StepOf(n, nodes[n], a, SecondOperand(nodes[n], a), k - 1)

\* The plan is right for every value it has come to, and has a step for each
\* operation, in the order of the graph.
Planning ==
  /\ \A i \in DOMAIN prepared : Holding(i)
  /\ \A k \in DOMAIN steps : Stepping(k)
  /\ \A j, k \in DOMAIN steps : j < k => steps[j].node < steps[k].node

\* The inductive invariant of compiling an application.
CompileIInv == NodesRight /\ PhasesRight /\ ViewsRight /\ Planning

\* Nothing is recorded yet.
LEMMA InitCompileIInv == Init => CompileIInv
  <1> SUFFICES ASSUME Init PROVE CompileIInv
    OBVIOUS
  <1>1. /\ scheme \in {"ckks", "bfv"} /\ nodes = << >> /\ phase = "build"
        /\ oracle = << >> /\ prepared = << >> /\ steps = << >>
    BY DEF Init, FrontendInit
  <1>2. Sequence(<< >>) /\ Len(<< >>) = 0 /\ DOMAIN << >> = {}
    BY EmptySequence
  <1>3. NodesRight
    BY <1>1, <1>2 DEF NodesRight
  <1>4. PhasesRight
    BY <1>1, <1>2 DEF PhasesRight, AfterOracle, AfterPlan
  <1> QED
    BY <1>1, <1>2, <1>3, <1>4 DEF CompileIInv, ViewsRight, Planning

\* The graph is closed once it is compiled.
LEMMA BuildKeeps == ASSUME CompileIInv, Build PROVE CompileIInv'
  <1>1. NodesRight'
    BY FrontendRight DEF CompileIInv, Build
  <1>2. /\ phase = "build" /\ phase' = "build"
        /\ UNCHANGED <<oracle, prepared, steps>>
    BY Zenon DEF Build, compiled, FrontendNext, Called, ImportCiphertext, ImportPlaintext, Binary, Square, NegateValue,
       RescaleToNext, ModSwitchToNext, Plain, Relinearize, Rotation, SetScale, MarkOutput
  <1>3. oracle = << >> /\ prepared = << >> /\ steps = << >>
    BY <1>2 DEF CompileIInv, PhasesRight
  <1>4. Sequence(<< >>) /\ Len(<< >>) = 0 /\ DOMAIN << >> = {}
    BY EmptySequence
  <1>5. Len(nodes') \in Nat
    BY <1>1, Indexed DEF NodesRight
  <1>6. PhasesRight'
    BY <1>2, <1>3, <1>4, <1>5 DEF PhasesRight, AfterOracle, AfterPlan
  <1> QED
    BY <1>1, <1>2, <1>3, <1>4, <1>6 DEF CompileIInv, ViewsRight, Planning

\* The graph stays as it is.
LEMMA FrontendKept == ASSUME NodesRight, UNCHANGED frontend PROVE NodesRight'
  BY DEF NodesRight, frontend

\* The state that the invariant is about stays as it is.
LEMMA PlanKept ==
  ASSUME CompileIInv, UNCHANGED <<frontend, oracle, prepared, steps>>
  PROVE  NodesRight' /\ ViewsRight' /\ Planning'
  <1>1. /\ scheme' = scheme /\ nodes' = nodes /\ plains' = plains
        /\ oracle' = oracle /\ prepared' = prepared /\ steps' = steps
    BY DEF frontend
  <1>2. ASSUME NEW i PROVE Holding(i)' <=> Holding(i)
    BY <1>1 DEF Holding
  <1>3. ASSUME NEW value, NEW a PROVE SecondOperand(value, a)' = SecondOperand(value, a)
    BY <1>1 DEF SecondOperand, PlainObject, Identity, Variant
  <1>4. ASSUME NEW n, NEW value, NEW a, NEW b, NEW before
        PROVE  StepOf(n, value, a, b, before)' = StepOf(n, value, a, b, before)
    BY <1>1 DEF StepOf, Place, WorkspaceObject
  <1>5. ASSUME NEW k PROVE Stepping(k)' <=> Stepping(k)
    BY <1>1, <1>3, <1>4 DEF Stepping
  <1>6. Planning'
    BY <1>1, <1>2, <1>5 DEF CompileIInv, Planning
  <1> QED
    BY <1>1, <1>6 DEF CompileIInv, NodesRight, ViewsRight

\* Compiling starts with the evaluation of the first value.
LEMMA CompileKeeps == ASSUME CompileIInv, Compile PROVE CompileIInv'
  <1>1. /\ phase = "build" /\ \E i \in DOMAIN nodes : nodes[i].kind \in Computations
        /\ phase' \in {"oracle", "rejected"} /\ UNCHANGED <<frontend, oracle, prepared, steps>>
    BY DEF Compile
  <1>2. nodes' = nodes
    BY <1>1 DEF frontend
  <1>3. oracle = << >> /\ prepared = << >> /\ steps = << >> /\ Len(<< >>) = 0
    BY <1>1 DEF CompileIInv, PhasesRight
  <1>4. Len(nodes) \in Nat /\ DOMAIN nodes = 1 .. Len(nodes)
    BY Indexed DEF CompileIInv, NodesRight
  <1>5. PhasesRight'
    BY <1>1, <1>2, <1>3, <1>4, EmptySequence DEF PhasesRight, AfterOracle, AfterPlan
  <1> QED
    BY <1>1, <1>5, PlanKept DEF CompileIInv

\* SEAL gives the value of the next node, or refuses to.
LEMMA OracleSteps ==
  ASSUME ExecuteOracle
  PROVE  /\ phase = "oracle" /\ UNCHANGED <<frontend, prepared, image, steps>>
         /\ \/ /\ \E words \in ValueOf(nodes[Len(oracle) + 1]) : oracle' = Append(oracle, words)
               /\ phase' = IF Len(oracle') = Len(nodes) THEN "plan" ELSE phase
            \/ /\ oracle' = oracle /\ phase' = "rejected"
               /\ nodes[Len(oracle) + 1].kind \in Computations
               /\ \E words \in ValueOf(nodes[Len(oracle) + 1]) : Transparent(words)
BY DEF ExecuteOracle

\* The values are computed in the order in which they were recorded.
LEMMA OracleKeeps ==
  ASSUME CompileIInv, ExecuteOracle, phase' # "rejected"
  PROVE  CompileIInv'
  <1>1. PICK words \in ValueOf(nodes[Len(oracle) + 1]) : oracle' = Append(oracle, words)
    BY OracleSteps
  <1>2. /\ phase = "oracle" /\ UNCHANGED <<frontend, prepared, steps>>
        /\ phase' = IF Len(oracle') = Len(nodes) THEN "plan" ELSE phase
    BY OracleSteps
  <1>3. nodes' = nodes /\ prepared' = << >> /\ steps' = << >> /\ prepared = << >> /\ Len(<< >>) = 0 /\ DOMAIN << >> = {}
    BY <1>2 DEF frontend, CompileIInv, PhasesRight
  <1>4. Sequence(oracle) /\ Len(oracle) < Len(nodes) /\ Len(oracle) \in Nat /\ Len(nodes) \in Nat
    BY <1>2, Indexed DEF CompileIInv, NodesRight, PhasesRight
  <1>5. /\ Sequence(oracle') /\ Len(oracle') = Len(oracle) + 1 /\ DOMAIN oracle' = 1 .. Len(oracle) + 1
        /\ oracle'[Len(oracle) + 1] = words /\ \A i \in 1 .. Len(oracle) : oracle'[i] = oracle[i]
    BY <1>1, <1>4, Appended
  <1>6. PhasesRight'
    BY <1>2, <1>3, <1>4, <1>5, EmptySequence DEF CompileIInv, PhasesRight, AfterOracle, AfterPlan
  <1>7. ViewsRight'
    <2> SUFFICES ASSUME NEW i \in DOMAIN oracle', nodes[i].kind \in Views
                 PROVE  oracle'[i] = oracle'[nodes[i].inputs[1]]
      BY <1>3 DEF ViewsRight
    <2>1. i \in DOMAIN nodes /\ i \in Nat
      BY <1>4, <1>5, Indexed DEF CompileIInv, NodesRight
    <2>2. nodes[i].inputs[1] \in 1 .. i - 1
      BY <2>1 DEF CompileIInv, NodesRight, Built, Views
    <2>3. CASE i = Len(oracle) + 1
      <3>1. words = oracle[nodes[i].inputs[1]]
        BY <2>3, <1>1 DEF ValueOf, Views
      <3>2. nodes[i].inputs[1] \in 1 .. Len(oracle)
        BY <2>2, <2>3, <1>4
      <3> QED
        BY <3>1, <3>2, <2>3, <1>5
    <2>4. CASE i # Len(oracle) + 1
      <3>1. i \in DOMAIN oracle
        BY <2>4, <1>4, <1>5, Indexed
      <3>2. i \in 1 .. Len(oracle)
        BY <2>4, <1>4, <1>5
      <3>3. nodes[i].inputs[1] \in 1 .. Len(oracle)
        BY <3>2, <2>2, <1>4
      <3>4. oracle[i] = oracle[nodes[i].inputs[1]]
        BY <3>1 DEF CompileIInv, ViewsRight
      <3> QED
        BY <3>2, <3>3, <3>4, <1>5
    <2> QED
      BY <2>3, <2>4
  <1>8. NodesRight'
    BY <1>2, FrontendKept DEF CompileIInv
  <1> QED
    BY <1>3, <1>6, <1>7, <1>8 DEF CompileIInv, Planning

\* A refusal leaves what there is.
LEMMA RefusalKeeps ==
  ASSUME CompileIInv, ExecuteOracle, phase' = "rejected"
  PROVE  CompileIInv'
  <1>1. phase = "oracle" /\ UNCHANGED <<frontend, oracle, prepared, steps>>
    BY OracleSteps
  <1>2. nodes' = nodes
    BY <1>1 DEF frontend
  <1>3. PhasesRight'
    BY <1>1, <1>2 DEF CompileIInv, PhasesRight, AfterOracle, AfterPlan
  <1> QED
    BY <1>1, <1>3, PlanKept DEF CompileIInv

-----------------------------------------------------------------------------
(* The plan grows by one value at a time.                                  *)

\* One more value in the plan, and perhaps one more step.
Extends(h) ==
  /\ phase = "plan" /\ Len(prepared) < Len(nodes) /\ phase' = phase
  /\ UNCHANGED <<frontend, oracle>> /\ prepared' = Append(prepared, h)

\* The plan before an extension and after it.
LEMMA Extension ==
  ASSUME CompileIInv, NEW h, Extends(h), NEW s, steps' = steps \/ steps' = Append(steps, s)
  PROVE  /\ scheme' = scheme /\ nodes' = nodes /\ plains' = plains /\ oracle' = oracle
         /\ Len(prepared) \in Nat /\ DOMAIN prepared = 1 .. Len(prepared)
         /\ Len(prepared) + 1 \in DOMAIN nodes
         /\ DOMAIN prepared' = 1 .. Len(prepared) + 1 /\ prepared'[Len(prepared) + 1] = h
         /\ \A i \in DOMAIN prepared : i \in DOMAIN prepared' /\ prepared'[i] = prepared[i]
         /\ \A k \in DOMAIN steps : k \in DOMAIN steps' /\ steps'[k] = steps[k]
         /\ Len(steps) \in Nat /\ DOMAIN steps = 1 .. Len(steps)
         /\ PhasesRight' /\ NodesRight' /\ ViewsRight'
  <1>1. scheme' = scheme /\ nodes' = nodes /\ plains' = plains /\ oracle' = oracle
    BY DEF Extends, frontend
  <1>2. /\ Sequence(prepared) /\ Sequence(steps) /\ Sequence(nodes)
        /\ Len(oracle) = Len(nodes) /\ Len(prepared) < Len(nodes) /\ phase = "plan"
        /\ prepared' = Append(prepared, h)
    BY DEF CompileIInv, PhasesRight, NodesRight, Extends, AfterOracle
  <1>3. /\ Len(prepared) \in Nat /\ DOMAIN prepared = 1 .. Len(prepared)
        /\ Len(nodes) \in Nat /\ DOMAIN nodes = 1 .. Len(nodes)
        /\ Len(steps) \in Nat /\ DOMAIN steps = 1 .. Len(steps)
    BY <1>2, Indexed
  <1>4. /\ DOMAIN prepared' = 1 .. Len(prepared) + 1 /\ prepared'[Len(prepared) + 1] = h
        /\ \A i \in DOMAIN prepared : prepared'[i] = prepared[i]
        /\ Sequence(prepared') /\ Len(prepared') = Len(prepared) + 1
    BY <1>2, Appended
  <1>5. Sequence(steps') /\ \A k \in DOMAIN steps : k \in DOMAIN steps' /\ steps'[k] = steps[k]
    <2>1. CASE steps' = steps
      BY <2>1, <1>2
    <2>2. CASE steps' = Append(steps, s)
      BY <2>2, <1>2, <1>3, Appended
    <2> QED BY <2>1, <2>2
  <1>6. PhasesRight'
    BY <1>1, <1>2, <1>3, <1>4, <1>5 DEF CompileIInv, PhasesRight, AfterOracle, AfterPlan, Extends
  <1>7. NodesRight' /\ ViewsRight'
    BY <1>1 DEF CompileIInv, NodesRight, ViewsRight
  <1>8. Len(prepared) + 1 \in DOMAIN nodes
    BY <1>2, <1>3
  <1>9. \A i \in DOMAIN prepared : i \in DOMAIN prepared'
    BY <1>3, <1>4
  <1> QED
    BY <1>1, <1>3, <1>4, <1>5, <1>6, <1>7, <1>8, <1>9

\* What a value takes comes before it.
LEMMA Operands ==
  ASSUME NodesRight, NEW i \in DOMAIN nodes
  PROVE  /\ i \in Nat /\ Built(scheme, nodes, nodes[i], i)
         /\ nodes[i].kind # "input" => nodes[i].inputs[1] \in 1 .. i - 1
         /\ Len(nodes[i].inputs) = 2 => nodes[i].inputs[2] \in 1 .. i - 1
  BY Indexed DEF NodesRight, Built

\* What was planned before stays as it is.
LEMMA HoldingKept ==
  ASSUME CompileIInv, NEW h, Extends(h), NEW s, steps' = steps \/ steps' = Append(steps, s), NEW i \in DOMAIN prepared
  PROVE  Holding(i)'
  <1>1. Holding(i)
    BY DEF CompileIInv, Planning
  <1>2. nodes' = nodes /\ oracle' = oracle /\ scheme' = scheme /\ prepared'[i] = prepared[i]
    BY Extension
  <1>3. \A k \in DOMAIN steps : k \in DOMAIN steps' /\ steps'[k] = steps[k]
    BY Extension
  <1> DEFINE held == prepared[i]
             v == nodes[i]
             Same(k, o) == /\ o \in 1 .. i /\ held.object = OutputObject(o, v.level)
                           /\ nodes[o].level = v.level /\ nodes[o].comps = v.comps /\ oracle[i] = oracle[o]
  <1>4. (\E k \in DOMAIN steps : Same(k, steps[k].node)) => \E k \in DOMAIN steps' : Same(k, steps'[k].node)
    <2> HIDE DEF Same
    <2> QED BY <1>3
  <1>5. (\E k \in DOMAIN steps : steps[k].node = i) => \E k \in DOMAIN steps' : steps'[k].node = i
    BY <1>3
  <1> QED
    BY <1>1, <1>2, <1>4, <1>5 DEF Holding

\* So does a step.
LEMMA SteppingKept ==
  ASSUME CompileIInv, NEW h, Extends(h), NEW s, steps' = steps \/ steps' = Append(steps, s), NEW k \in DOMAIN steps
  PROVE  Stepping(k)'
  <1> DEFINE n == steps[k].node
             v == nodes[n]
             a == prepared[v.inputs[1]]
  <1>1. n \in DOMAIN prepared /\ v.kind \in Computations /\ steps[k] = StepOf(n, v, a, SecondOperand(v, a), k - 1)
    BY DEF CompileIInv, Planning, Stepping
  <1>2. /\ nodes' = nodes /\ scheme' = scheme /\ plains' = plains /\ steps'[k] = steps[k]
        /\ \A i \in DOMAIN prepared : i \in DOMAIN prepared' /\ prepared'[i] = prepared[i]
        /\ DOMAIN prepared = 1 .. Len(prepared) /\ Len(prepared) \in Nat
    BY Extension
  <1>3. n \in DOMAIN nodes /\ Len(nodes) \in Nat
    BY <1>1, <1>2, Indexed DEF CompileIInv, NodesRight, PhasesRight
  <1>4. v.inputs[1] \in DOMAIN prepared /\ (Len(v.inputs) = 2 => v.inputs[2] \in DOMAIN prepared)
    BY <1>1, <1>2, <1>3, Operands DEF CompileIInv, Computations
  <1>5. prepared'[v.inputs[1]] = a /\ (Len(v.inputs) = 2 => prepared'[v.inputs[2]] = prepared[v.inputs[2]])
    BY <1>2, <1>4
  <1> HIDE DEF v, a, n
  <1>6. SecondOperand(v, a)' = SecondOperand(v, a)
    <2>1. v' = v /\ a' = a
      BY <1>2, <1>5 DEF v, a, n
    <2>2. PlainObject(v, a.level)' = PlainObject(v, a.level)
      BY <1>2, <2>1 DEF PlainObject, Identity, Variant
    <2> QED
      BY <2>1, <2>2, <1>2, <1>5 DEF SecondOperand
  <1>7. ASSUME NEW m, NEW value, NEW x, NEW b, NEW before
        PROVE  StepOf(m, value, x, b, before)' = StepOf(m, value, x, b, before)
    BY <1>2 DEF StepOf, Place, WorkspaceObject
  <1> QED
    BY <1>1, <1>2, <1>5, <1>6, <1>7 DEF Stepping, n, v, a

\* The plan has a value's own metadata for it.
LEMMA HeldMetadata ==
  ASSUME CompileIInv, NEW i \in DOMAIN prepared
  PROVE  /\ i \in DOMAIN nodes
         /\ prepared[i] = Holds(prepared[i].object, nodes[i].level, nodes[i].comps, prepared[i].scale)
         /\ prepared[i].level = nodes[i].level /\ prepared[i].comps = nodes[i].comps
         /\ scheme = "ckks" => prepared[i].scale = nodes[i].scale
  <1>1. DOMAIN prepared = 1 .. Len(prepared) /\ DOMAIN nodes = 1 .. Len(nodes) /\ Len(prepared) <= Len(nodes)
    /\ Len(prepared) \in Nat /\ Len(nodes) \in Nat /\ Len(oracle) \in Nat
    BY Indexed DEF CompileIInv, NodesRight, PhasesRight
  <1>2. i \in DOMAIN nodes
    BY <1>1
  <1>3. Holding(i)
    BY DEF CompileIInv, Planning
  <1> QED
    BY <1>2, <1>3 DEF Holding, Holds

\* An import is planned as its object, at the level it has.
LEMMA InputHeld ==
  ASSUME CompileIInv, NEW n, n = Len(prepared) + 1, phase = "plan", Len(prepared) < Len(nodes), phase' = phase, UNCHANGED <<frontend, oracle>>,
         nodes[n].kind = "input", PlanInput(n)
  PROVE  CompileIInv'
  <1> DEFINE v == nodes[n]
             object == Object("input", CHOOSE i \in DOMAIN nodes : nodes[i].kind = "input" /\ nodes[i].data = nodes[n].data
                                   /\ \A j \in 1 .. i - 1 : nodes[j].kind = "input" => nodes[j].data # nodes[n].data, 0, nodes[n].level)
             h == Holds(object, v.level, v.comps, v.scale)
  <1>1. prepared' = Append(prepared, h) /\ steps' = steps
    BY DEF PlanInput
  <1>2. Extends(h)
    BY <1>1 DEF Extends
  <1>3. /\ nodes' = nodes /\ scheme' = scheme /\ DOMAIN prepared' = 1 .. Len(prepared) + 1 /\ prepared'[n] = h
        /\ DOMAIN prepared = 1 .. Len(prepared) /\ Len(prepared) \in Nat
        /\ PhasesRight' /\ NodesRight' /\ ViewsRight'
    BY <1>1, <1>2, Extension, SMTT(30)
  <1>4. h = Holds(h.object, v.level, v.comps, h.scale) /\ h.object[1] = "input" /\ h.object[4] = v.level /\ h.scale = v.scale
    <2>1. h.object = object /\ h.scale = v.scale
      BY DEF Holds
    <2>2. object[1] = "input" /\ object[4] = v.level
      BY DEF Object
    <2> QED BY <2>1, <2>2
  <1>5. Holding(n)'
    <2> HIDE DEF h
    <2> QED
      BY <1>3, <1>4 DEF Holding, Computations
  <1>6. \A i \in DOMAIN prepared' : Holding(i)'
    <2> SUFFICES ASSUME NEW i \in DOMAIN prepared' PROVE Holding(i)'
      OBVIOUS
    <2>1. CASE i = n
      BY <2>1, <1>5
    <2>2. CASE i # n
      <3>1. i \in DOMAIN prepared
        BY <2>2, <1>3
      <3> QED
        BY <3>1, <1>1, <1>2, HoldingKept
    <2> QED BY <2>1, <2>2
  <1>7. \A k \in DOMAIN steps' : Stepping(k)'
    <2> SUFFICES ASSUME NEW k \in DOMAIN steps PROVE Stepping(k)'
      BY <1>1
    <2> QED
      BY <1>1, <1>2, SteppingKept
  <1>8. Planning'
    BY <1>1, <1>6, <1>7 DEF CompileIInv, Planning
  <1> QED
    BY <1>3, <1>8 DEF CompileIInv

\* A view is planned as what holds the value that it is a view of.
LEMMA ViewHeld ==
  ASSUME CompileIInv, NEW n, n = Len(prepared) + 1, phase = "plan", Len(prepared) < Len(nodes), phase' = phase, UNCHANGED <<frontend, oracle>>,
         nodes[n].kind \in Views, PlanView(n)
  PROVE  CompileIInv'
  <1> DEFINE v == nodes[n]
             j == v.inputs[1]
             h == [prepared[j] EXCEPT !.scale = v.scale]
  <1>1. prepared' = Append(prepared, h) /\ steps' = steps
    BY DEF PlanView
  <1>2. Extends(h)
    BY <1>1 DEF Extends
  <1>3. /\ nodes' = nodes /\ scheme' = scheme /\ oracle' = oracle
        /\ DOMAIN prepared' = 1 .. Len(prepared) + 1 /\ prepared'[n] = h
        /\ DOMAIN prepared = 1 .. Len(prepared) /\ Len(prepared) \in Nat /\ n \in DOMAIN nodes
        /\ PhasesRight' /\ NodesRight' /\ ViewsRight'
    BY <1>1, <1>2, Extension
  <1>4. Built(scheme, nodes, v, n) /\ j \in 1 .. n - 1 /\ j \in DOMAIN prepared /\ v.kind = "scale_view"
    BY <1>3, Operands DEF CompileIInv, Views
  <1>5. v.level = nodes[j].level /\ v.comps = nodes[j].comps
    BY <1>4 DEF Built, Builds
  <1>6. oracle[n] = oracle[j]
    <2>1. n \in DOMAIN oracle
      BY <1>3, Indexed DEF CompileIInv, NodesRight, PhasesRight, AfterOracle
    <2> QED
      BY <2>1 DEF CompileIInv, ViewsRight
  <1>7. Holding(j)
    BY <1>4 DEF CompileIInv, Planning
  <1>8. prepared[j] = Holds(prepared[j].object, v.level, v.comps, prepared[j].scale)
    BY <1>4, <1>5, HeldMetadata
  <1>9. h = Holds(h.object, v.level, v.comps, h.scale) /\ h.object = prepared[j].object /\ h.scale = v.scale
    BY <1>8 DEF Holds
  <1> HIDE DEF h
  <1>10. /\ h.object[4] = v.level
         /\ \/ h.object[1] = "input"
            \/ \E k \in DOMAIN steps :
                 LET o == steps[k].node
                 IN  /\ o \in 1 .. n /\ h.object = OutputObject(o, v.level)
                     /\ nodes[o].level = v.level /\ nodes[o].comps = v.comps /\ oracle[n] = oracle[o]
    <2>1. h.object[4] = v.level
      BY <1>5, <1>7, <1>9, Zenon DEF Holding
    <2>2. CASE prepared[j].object[1] = "input"
      BY <2>1, <2>2, <1>9, Zenon
    <2>3. ASSUME NEW k \in DOMAIN steps, steps[k].node \in 1 .. j,
                 prepared[j].object = OutputObject(steps[k].node, nodes[j].level),
                 nodes[steps[k].node].level = nodes[j].level, nodes[steps[k].node].comps = nodes[j].comps,
                 oracle[j] = oracle[steps[k].node]
          PROVE  <1>10!2!2
      <3>1. steps[k].node \in 1 .. n
        BY <2>3, <1>3, <1>4, SMTT(30)
      <3> QED
        BY <2>3, <3>1, <1>5, <1>6, <1>9, Zenon
    <2> QED
      BY <2>1, <2>2, <2>3, <1>7, Zenon DEF Holding
  <1>11. Holding(n)'
    BY <1>1, <1>3, <1>4, <1>9, <1>10 DEF Holding, Computations
  <1>12. \A i \in DOMAIN prepared' : Holding(i)'
    <2> SUFFICES ASSUME NEW i \in DOMAIN prepared' PROVE Holding(i)'
      OBVIOUS
    <2>1. CASE i = n
      BY <2>1, <1>11
    <2>2. CASE i # n
      <3>1. i \in DOMAIN prepared
        BY <2>2, <1>3
      <3> QED
        BY <3>1, <1>1, <1>2, HoldingKept
    <2> QED BY <2>1, <2>2
  <1>13. \A k \in DOMAIN steps' : Stepping(k)'
    <2> SUFFICES ASSUME NEW k \in DOMAIN steps PROVE Stepping(k)'
      BY <1>1
    <2> QED
      BY <1>1, <1>2, SteppingKept
  <1>14. Planning'
    BY <1>1, <1>12, <1>13 DEF CompileIInv, Planning
  <1> QED
    BY <1>3, <1>14 DEF CompileIInv

\* What the plan takes as the operands of the next value.
LEMMA OperandsHeld ==
  ASSUME CompileIInv, NEW n \in DOMAIN nodes, n \in 1 .. Len(prepared) + 1, nodes[n].kind \in Computations
  PROVE  LET v == nodes[n]
             a == prepared[v.inputs[1]]
             b == prepared[v.inputs[2]]
         IN  /\ v.inputs[1] \in DOMAIN prepared
             /\ a.level = nodes[v.inputs[1]].level /\ a.comps = nodes[v.inputs[1]].comps
             /\ scheme = "ckks" => a.scale = nodes[v.inputs[1]].scale
             /\ Len(v.inputs) = 2 => /\ v.inputs[2] \in DOMAIN prepared
                                     /\ b.level = nodes[v.inputs[2]].level /\ b.comps = nodes[v.inputs[2]].comps
                                     /\ scheme = "ckks" => b.scale = nodes[v.inputs[2]].scale
  <1>1. DOMAIN prepared = 1 .. Len(prepared) /\ Len(prepared) \in Nat
    BY Indexed DEF CompileIInv, PhasesRight
  <1>2. nodes[n].kind # "input"
    BY DEF Computations
  <1>3. nodes[n].inputs[1] \in DOMAIN prepared /\ (Len(nodes[n].inputs) = 2 => nodes[n].inputs[2] \in DOMAIN prepared)
    BY <1>1, <1>2, Operands DEF CompileIInv
  <1> QED
    BY <1>3, HeldMetadata

\* The plan arrives at the metadata that the builder gave.
LEMMA PlannedMetadata ==
  ASSUME CompileIInv, NEW n \in DOMAIN nodes, n \in 1 .. Len(prepared) + 1, nodes[n].kind \in Computations
  PROVE  LET v == nodes[n]
             a == prepared[v.inputs[1]]
         IN  /\ PlannedLevel(v, a) = v.level /\ PlannedComponents(v, a) = v.comps
             /\ scheme = "ckks" => PlannedScale(v, a, SecondOperand(v, a)) = v.scale
  <1> DEFINE v == nodes[n]
             a == prepared[v.inputs[1]]
             b == prepared[v.inputs[2]]
             x == nodes[v.inputs[1]]
             y == nodes[v.inputs[2]]
  <1>1. Builds(scheme, v, x, y)
    BY Operands DEF CompileIInv, Built
  <1>2. /\ a.level = x.level /\ a.comps = x.comps /\ (scheme = "ckks" => a.scale = x.scale)
        /\ Len(v.inputs) = 2 => b.level = y.level /\ b.comps = y.comps /\ (scheme = "ckks" => b.scale = y.scale)
    BY OperandsHeld
  <1>3. v.kind \in Computations
    OBVIOUS
  <1>4. Len(v.inputs) = 2 => ~ WithPlain(v.kind)
    <2> HIDE DEF v, x, y
    <2> QED
      BY <1>1, <1>3 DEF Builds, Computations, WithPlain
  <1>5. SecondOperand(v, a) = IF Len(v.inputs) = 2 THEN b
                              ELSE IF WithPlain(v.kind) THEN Holds(PlainObject(v, a.level), a.level, 1, Delta) ELSE a
    <2> HIDE DEF v
    <2> QED
      BY <1>4 DEF SecondOperand
  <1>6. SecondOperand(v, a).scale = IF Len(v.inputs) = 2 THEN b.scale ELSE IF WithPlain(v.kind) THEN Delta ELSE a.scale
    BY <1>5 DEF Holds
  <1> DEFINE second == SecondOperand(v, a)
  <1> HIDE DEF v, a, b, x, y, second
  <1>7. PlannedLevel(v, a) = v.level
    BY <1>1, <1>2, <1>3 DEF Builds, PlannedLevel, Computations
  <1>8. PlannedComponents(v, a) = v.comps
    BY <1>1, <1>2, <1>3 DEF Builds, PlannedComponents, Computations
  <1>9. scheme = "ckks" => PlannedScale(v, a, second) = v.scale
    <2>1. second.scale = IF Len(v.inputs) = 2 THEN b.scale ELSE IF WithPlain(v.kind) THEN Delta ELSE a.scale
      BY <1>6 DEF second
    <2> SUFFICES ASSUME scheme = "ckks" PROVE PlannedScale(v, a, second) = v.scale
      OBVIOUS
    <2>2. CASE v.kind \in {"multiply", "multiply_plain"}
      <3>1. CASE v.kind = "multiply"
        <4>1. Len(v.inputs) = 2 /\ v.scale = TimesScale(x.scale, y.scale)
          BY <3>1, <1>1 DEF Builds
        <4> QED
          BY <3>1, <4>1, <2>1, <1>2 DEF PlannedScale
      <3>2. CASE v.kind = "multiply_plain"
        <4>1. Len(v.inputs) = 1 /\ v.scale = TimesScale(x.scale, Delta)
          BY <3>2, <1>1 DEF Builds
        <4>2. second.scale = Delta
          BY <3>2, <4>1, <2>1 DEF WithPlain
        <4> QED
          BY <3>2, <4>1, <4>2, <1>2 DEF PlannedScale
      <3> QED
        BY <2>2, <3>1, <3>2
    <2>3. CASE v.kind = "square"
      BY <2>3, <1>1, <1>2 DEF Builds, PlannedScale
    <2>4. CASE v.kind = "rescale"
      BY <2>4, <1>1, <1>2 DEF Builds, PlannedScale
    <2>5. CASE v.kind \notin {"multiply", "multiply_plain", "square", "rescale"}
      <3>1. v.scale = a.scale
        BY <2>5, <1>1, <1>2, <1>3 DEF Builds, Computations
      <3> QED
        BY <3>1, <2>5 DEF PlannedScale
    <2> QED
      BY <2>2, <2>3, <2>4, <2>5
  <1> QED
    BY <1>7, <1>8, <1>9 DEF v, a, second

\* An operation is planned as a step, and its output holds the value.
LEMMA OperationHeld ==
  ASSUME CompileIInv, NEW n, n = Len(prepared) + 1, phase = "plan", Len(prepared) < Len(nodes), UNCHANGED <<frontend, oracle>>,
         nodes[n].kind \in Computations, PlanOperation(n)
  PROVE  CompileIInv'
  <1> DEFINE v == nodes[n]
             a == prepared[v.inputs[1]]
             b == SecondOperand(v, a)
             out == OutputObject(n, PlannedLevel(v, a))
             h == Holds(out, PlannedLevel(v, a), PlannedComponents(v, a), PlannedScale(v, a, b))
             s == StepOf(n, v, a, b, Len(steps))
  <1>1. \/ steps' = Append(steps, s) /\ prepared' = Append(prepared, h) /\ phase' = phase
        \/ phase' = "rejected" /\ UNCHANGED <<steps, prepared>>
    BY DEF PlanOperation
  <1>2. CASE phase' = "rejected" /\ UNCHANGED <<steps, prepared>>
    <2>1. NodesRight' /\ ViewsRight' /\ Planning'
      BY <1>2, PlanKept
    <2>2. nodes' = nodes /\ oracle' = oracle
      BY DEF frontend
    <2>3. PhasesRight'
      BY <1>2, <2>2 DEF CompileIInv, PhasesRight, AfterOracle, AfterPlan
    <2> QED
      BY <2>1, <2>3 DEF CompileIInv
  <1>3. CASE steps' = Append(steps, s) /\ prepared' = Append(prepared, h) /\ phase' = phase
    <2>1. Extends(h)
      BY <1>3 DEF Extends
    <2>2. /\ nodes' = nodes /\ scheme' = scheme /\ oracle' = oracle /\ plains' = plains
          /\ DOMAIN prepared' = 1 .. Len(prepared) + 1 /\ prepared'[n] = h
          /\ DOMAIN prepared = 1 .. Len(prepared) /\ Len(prepared) \in Nat /\ n \in DOMAIN nodes
          /\ \A i \in DOMAIN prepared : i \in DOMAIN prepared' /\ prepared'[i] = prepared[i]
          /\ Len(steps) \in Nat /\ DOMAIN steps = 1 .. Len(steps)
          /\ \A k \in DOMAIN steps : k \in DOMAIN steps' /\ steps'[k] = steps[k]
          /\ PhasesRight' /\ NodesRight' /\ ViewsRight'
      BY <1>3, <2>1, Extension, Zenon
    <2>3. /\ DOMAIN steps' = 1 .. Len(steps) + 1 /\ steps'[Len(steps) + 1] = s
      BY <1>3, Appended DEF CompileIInv, PhasesRight
    <2>4. s.node = n
      BY DEF StepOf
    <2>5. PlannedLevel(v, a) = v.level /\ PlannedComponents(v, a) = v.comps /\ (scheme = "ckks" => PlannedScale(v, a, b) = v.scale)
      <3>1. n \in 1 .. Len(prepared) + 1
        BY <2>2
      <3> QED
        BY <2>2, <3>1, PlannedMetadata
    <2>6. Holding(n)'
      <3>1. /\ h = Holds(h.object, v.level, v.comps, h.scale) /\ h.object = OutputObject(n, v.level)
            /\ scheme = "ckks" => h.scale = v.scale
        BY <2>5 DEF Holds
      <3>2. OutputObject(n, v.level)[4] = v.level
        BY DEF OutputObject, Object
      <3>3. n \in 1 .. n
        BY <2>2
      <3>4. Len(steps) + 1 \in DOMAIN steps' /\ steps'[Len(steps) + 1].node = n
        BY <2>2, <2>3, <2>4
      <3> HIDE DEF h, s
      <3> QED
        BY <2>2, <3>1, <3>2, <3>3, <3>4 DEF Holding
    <2>7. \A i \in DOMAIN prepared' : Holding(i)'
      <3> SUFFICES ASSUME NEW i \in DOMAIN prepared' PROVE Holding(i)'
        OBVIOUS
      <3>1. CASE i = n
        BY <3>1, <2>6, Zenon
      <3>2. CASE i # n
        <4>1. i \in DOMAIN prepared
          BY <3>2, <2>2, SMTT(30)
        <4> QED
          BY <4>1, <1>3, <2>1, HoldingKept
      <3> QED BY <3>1, <3>2
    <2>8. v.inputs[1] \in DOMAIN prepared /\ (Len(v.inputs) = 2 => v.inputs[2] \in DOMAIN prepared)
      <3>1. n \in 1 .. Len(prepared) + 1
        BY <2>2
      <3> QED
        BY <2>2, <3>1, OperandsHeld
    <2>9. ASSUME NEW k, k = Len(steps) + 1 PROVE Stepping(k)'
      <3>1. /\ v' = v
            /\ prepared'[v.inputs[1]] = a /\ (Len(v.inputs) = 2 => prepared'[v.inputs[2]] = prepared[v.inputs[2]])
        BY <2>2, <2>8
      <3> HIDE DEF v, a
      <3>2. PlainObject(v, a.level)' = PlainObject(v, a.level)
        <4>1. ASSUME NEW u, NEW level PROVE PlainObject(u, level)' = PlainObject(u, level)
          BY <2>2 DEF PlainObject, Identity, Variant
        <4>2. a' = a
          BY <3>1 DEF a, v
        <4> QED
          BY <4>1, <4>2, <3>1
      <3>3. SecondOperand(v, a)' = SecondOperand(v, a)
        <4>1. a' = a
          BY <3>1 DEF a, v
        <4> QED
          BY <3>1, <3>2, <4>1 DEF SecondOperand
      <3>4. ASSUME NEW m, NEW value, NEW x, NEW y, NEW before
            PROVE  StepOf(m, value, x, y, before)' = StepOf(m, value, x, y, before)
        BY <2>2 DEF StepOf, Place, WorkspaceObject
      <3>5. steps'[k] = StepOf(n, v, a, SecondOperand(v, a), k - 1)
        <4>1. k - 1 = Len(steps)
          BY <2>2, <2>9
        <4> QED
          BY <2>3, <2>9, <4>1
      <3>6. n \in DOMAIN prepared' /\ v.kind \in Computations
        BY <2>2 DEF v
      <3>7. steps'[k].node = n
        BY <2>3, <2>4, <2>9
      <3>8. v = nodes'[n]
        BY <2>2 DEF v
      <3>9. a = prepared'[nodes'[n].inputs[1]]
        BY <3>1, <3>8
      <3>10. steps'[k] = StepOf(n, v, a, SecondOperand(v, a), k - 1)'
        <4>1. v' = v /\ a' = a
          BY <3>1, <3>8, <3>9 DEF a, v
        <4>2. StepOf(n, v, a, SecondOperand(v, a), k - 1)' = StepOf(n, v, a, SecondOperand(v, a), k - 1)
          BY <3>3, <3>4, <4>1
        <4> QED
          BY <4>2, <3>5
      <3>11. /\ n = steps[k].node' /\ v' = nodes[steps[k].node]' /\ a' = prepared[nodes[steps[k].node].inputs[1]]'
        BY <2>2, <3>1, <3>7, <3>8, <3>9 DEF v, a
      <3> QED
        BY <2>2, <3>6, <3>7, <3>8, <3>10, <3>11, Zenon DEF Stepping
    <2>10. \A k \in DOMAIN steps' : Stepping(k)'
      <3> SUFFICES ASSUME NEW k \in DOMAIN steps' PROVE Stepping(k)'
        OBVIOUS
      <3>1. CASE k = Len(steps) + 1
        BY <3>1, <2>9
      <3>2. CASE k # Len(steps) + 1
        <4>1. k \in DOMAIN steps
          BY <3>2, <2>2, <2>3
        <4> QED
          BY <4>1, <1>3, <2>1, SteppingKept, Zenon
      <3> QED BY <3>1, <3>2
    <2>11. \A j, k \in DOMAIN steps' : j < k => steps'[j].node < steps'[k].node
      <3> SUFFICES ASSUME NEW j \in DOMAIN steps', NEW k \in DOMAIN steps', j < k PROVE steps'[j].node < steps'[k].node
        OBVIOUS
      <3>1. j \in DOMAIN steps /\ steps'[j] = steps[j] /\ steps[j].node \in DOMAIN prepared
        BY <2>2, <2>3 DEF CompileIInv, Planning, Stepping
      <3>2. CASE k = Len(steps) + 1
        BY <3>1, <3>2, <2>2, <2>3, <2>4
      <3>3. CASE k # Len(steps) + 1
        <4>1. k \in DOMAIN steps /\ steps'[k] = steps[k]
          BY <3>3, <2>2, <2>3
        <4> QED
          BY <3>1, <4>1 DEF CompileIInv, Planning
      <3> QED BY <3>2, <3>3
    <2> QED
      BY <2>2, <2>7, <2>10, <2>11 DEF CompileIInv, Planning
  <1> QED
    BY <1>1, <1>2, <1>3

\* The plan goes through the values in order.
LEMMA PlanKeeps == ASSUME CompileIInv, Plan PROVE CompileIInv'
  <1> DEFINE n == Len(prepared) + 1
  <1>1. phase = "plan" /\ Len(prepared) < Len(nodes) /\ UNCHANGED <<frontend, oracle>>
    BY DEF Plan
  <1>2. CASE nodes[n].kind = "input" /\ PlanInput(n) /\ UNCHANGED phase
    BY <1>1, <1>2, InputHeld
  <1>3. CASE nodes[n].kind \in Views /\ PlanView(n) /\ UNCHANGED phase
    BY <1>1, <1>3, ViewHeld
  <1>4. CASE nodes[n].kind \in Computations /\ PlanOperation(n)
    BY <1>1, <1>4, OperationHeld
  <1> QED
    BY <1>2, <1>3, <1>4 DEF Plan

\* What follows leaves the plan alone.
LEMMA ExecutionKeeps ==
  ASSUME CompileIInv, StartSoftware \/ ExecuteSoftware \/ Relocate \/ Package \/ ExecuteTask \/ UNCHANGED vars
  PROVE  CompileIInv'
  <1>1. UNCHANGED <<frontend, oracle, prepared, steps>>
    BY DEF StartSoftware, ExecuteSoftware, Relocate, Package, ExecuteTask, compiled, vars
  <1>2. nodes' = nodes
    BY <1>1 DEF frontend
  <1>3. \/ phase' = phase \/ phase' = "rejected"
        \/ phase \in AfterOracle /\ phase' \in AfterPlan /\ (phase \in AfterPlan \/ Len(prepared) = Len(nodes))
    BY DEF StartSoftware, ExecuteSoftware, Relocate, Package, ExecuteTask, vars, AfterOracle, AfterPlan
  <1>4. PhasesRight'
    <2>1. CASE phase' = phase
      BY <2>1, <1>1, <1>2 DEF CompileIInv, PhasesRight
    <2>2. CASE phase' = "rejected"
      <3>1. phase # "build"
        BY <2>2 DEF StartSoftware, ExecuteSoftware, Relocate, Package, ExecuteTask, vars
      <3> QED
        BY <2>2, <3>1, <1>1, <1>2 DEF CompileIInv, PhasesRight, AfterOracle, AfterPlan
    <2>3. CASE phase \in AfterOracle /\ phase' \in AfterPlan /\ (phase \in AfterPlan \/ Len(prepared) = Len(nodes))
      BY <2>3, <1>1, <1>2 DEF CompileIInv, PhasesRight, AfterOracle, AfterPlan
    <2> QED BY <1>3, <2>1, <2>2, <2>3
  <1> QED
    BY <1>1, <1>4, PlanKept DEF CompileIInv

\* Every step keeps the invariant.
LEMMA NextKeeps == ASSUME CompileIInv, [Next]_vars PROVE CompileIInv'
  BY BuildKeeps, CompileKeeps, OracleKeeps, RefusalKeeps, PlanKeeps, ExecutionKeeps DEF Next, Progress, Ended

\* The plan holds the values of the graph.
THEOREM PlanInvariance == Spec => []CompileIInv
  <1>1. Init => CompileIInv
    BY InitCompileIInv
  <1>2. CompileIInv /\ [Next]_vars => CompileIInv'
    BY NextKeeps
  <1> QED
    BY <1>1, <1>2, PTL DEF Spec

-----------------------------------------------------------------------------
(* Delivery.                                                               *)

\* A package is written only after the outputs were compared.
Compared ==
  phase \in {"hardware", "done"} =>
    /\ exports = Deliveries
    /\ \A k \in DOMAIN steps : MatchesOracle(steps[k])
    /\ \A delivery \in Deliveries : \E k \in DOMAIN steps : steps[k].at.out = delivery[1]

\* Nothing changes the plan, the outputs or the exports after the package.
LEMMA ComparedKept == ASSUME Compared, [Next]_vars PROVE Compared'
  <1> SUFFICES ASSUME phase' \in {"hardware", "done"} PROVE Compared!2'
    BY DEF Compared
  <1>1. CASE Package
    <2>1. phase' = "hardware" /\ UNCHANGED <<frontend, oracle, prepared, steps, golden>>
      BY <1>1 DEF Package
    <2>2. /\ \A delivery \in Deliveries : delivery[1] \in {steps[k].at.out : k \in DOMAIN steps}
          /\ \A k \in DOMAIN steps : MatchesOracle(steps[k]) /\ MetadataAgrees(steps[k])
          /\ exports' = Deliveries
      BY <1>1, <2>1 DEF Package
    <2>3. Deliveries' = Deliveries
      BY <2>1 DEF Deliveries, OutputIndices, PhysicalOrigin, LastComputation, frontend
    <2>4. ASSUME NEW step PROVE MatchesOracle(step)' <=> MatchesOracle(step)
      BY <2>1 DEF MatchesOracle, ToSeal, frontend
    <2> QED
      BY <2>1, <2>2, <2>3, <2>4
  <1>2. CASE ExecuteTask \/ UNCHANGED vars
    <2>1. phase \in {"hardware", "done"} /\ UNCHANGED <<frontend, oracle, prepared, steps, golden, exports>>
      BY <1>2 DEF ExecuteTask, compiled, vars
    <2>3. Deliveries' = Deliveries
      BY <2>1 DEF Deliveries, OutputIndices, PhysicalOrigin, LastComputation, frontend
    <2>4. ASSUME NEW step PROVE MatchesOracle(step)' <=> MatchesOracle(step)
      BY <2>1 DEF MatchesOracle, ToSeal, frontend
    <2> QED
      BY <2>1, <2>3, <2>4 DEF Compared
  <1>3. CASE Build \/ Compile \/ ExecuteOracle \/ Plan \/ StartSoftware \/ ExecuteSoftware \/ Relocate
    <2>1. FrontendNext => phase = "build" /\ phase' = "build"
      BY Zenon DEF FrontendNext, Called, ImportCiphertext, ImportPlaintext, Binary, Square, NegateValue,
       RescaleToNext, ModSwitchToNext, Plain, Relinearize, Rotation, SetScale, MarkOutput
    <2>2. Plan => phase = "plan" /\ phase' \in {"plan", "rejected"}
      BY Zenon DEF Plan, PlanOperation
    <2> QED
      BY <1>3, <2>1, <2>2, OracleSteps DEF Build, Compile, StartSoftware, ExecuteSoftware, Relocate
  <1> QED
    BY <1>1, <1>2, <1>3 DEF Next, Progress, Ended

\* The value that is delivered without marks is the one that Delivered names.
LEMMA Exported ==
  ASSUME CompileIInv, NEW n \in DOMAIN nodes,
         IF marked # << >> THEN n \in Mods(marked)
         ELSE PhysicalOrigin(n) = LastComputation /\ \A j \in n + 1 .. Len(nodes) : PhysicalOrigin(j) # LastComputation
  PROVE  n \in Mods(OutputIndices)
  <1>1. CASE marked # << >>
    BY <1>1 DEF OutputIndices
  <1>2. CASE marked = << >>
    <2> DEFINE Latest(i) == PhysicalOrigin(i) = LastComputation /\ \A j \in i + 1 .. Len(nodes) : PhysicalOrigin(j) # LastComputation
    <2>1. DOMAIN nodes = 1 .. Len(nodes) /\ Len(nodes) \in Nat
      BY Indexed DEF CompileIInv, NodesRight
    <2>2. ASSUME NEW i \in DOMAIN nodes, Latest(i) PROVE i = n
      <3>1. ~ i < n
        <4> SUFFICES ASSUME i < n PROVE FALSE
          OBVIOUS
        <4>1. n \in i + 1 .. Len(nodes)
          BY <2>1
        <4> QED BY <4>1, <1>2, <2>2
      <3>2. ~ n < i
        <4> SUFFICES ASSUME n < i PROVE FALSE
          OBVIOUS
        <4>1. i \in n + 1 .. Len(nodes)
          BY <2>1
        <4> QED BY <4>1, <1>2, <2>2
      <3> QED BY <3>1, <3>2, <2>1
    <2>3. Latest(n)
      BY <1>2
    <2>4. OutputIndices = <<CHOOSE i \in DOMAIN nodes : Latest(i)>>
      BY <1>2 DEF OutputIndices
    <2> HIDE DEF Latest
    <2>5. (CHOOSE i \in DOMAIN nodes : Latest(i)) = n
      BY <2>2, <2>3
    <2> QED
      BY <2>4, <2>5, Single
  <1> QED BY <1>1, <1>2

\* A step has the metadata of its value, and writes the object that the plan
\* holds for it.
LEMMA StepMetadata ==
  ASSUME CompileIInv, NEW k \in DOMAIN steps
  PROVE  LET o == steps[k].node
         IN  /\ o \in DOMAIN prepared /\ o \in DOMAIN nodes /\ nodes[o].kind \in Computations
             /\ steps[k].at.out = OutputObject(o, nodes[o].level) /\ prepared[o].object = steps[k].at.out
             /\ steps[k].outLevel = nodes[o].level /\ steps[k].outComps = nodes[o].comps
  <1> DEFINE o == steps[k].node
             v == nodes[o]
             a == prepared[v.inputs[1]]
  <1>1. /\ o \in DOMAIN prepared /\ v.kind \in Computations
        /\ steps[k] = StepOf(o, v, a, SecondOperand(v, a), k - 1)
    BY DEF CompileIInv, Planning, Stepping
  <1>2. o \in DOMAIN nodes
    BY <1>1, HeldMetadata
  <1>3. o \in 1 .. Len(prepared) + 1
    BY <1>1, Indexed DEF CompileIInv, PhasesRight
  <1>4. PlannedLevel(v, a) = v.level /\ PlannedComponents(v, a) = v.comps
    BY <1>1, <1>2, <1>3, PlannedMetadata
  <1>5. /\ steps[k].at.out = OutputObject(o, PlannedLevel(v, a))
        /\ steps[k].outLevel = PlannedLevel(v, a) /\ steps[k].outComps = PlannedComponents(v, a)
    BY <1>1 DEF StepOf, Place
  <1>6. prepared[o].object = OutputObject(o, v.level)
    BY <1>1 DEF CompileIInv, Planning, Holding
  <1> QED
    BY <1>1, <1>2, <1>4, <1>5, <1>6

\* Once the operations agree, so do the deliveries.
LEMMA DeliveryRight == ASSUME CompileIInv, Compared, HardwareAgrees PROVE Delivered
  <1> SUFFICES ASSUME phase = "done", NEW n \in DOMAIN nodes,
                      IF marked # << >> THEN n \in Mods(marked)
                      ELSE PhysicalOrigin(n) = LastComputation /\ \A j \in n + 1 .. Len(nodes) : PhysicalOrigin(j) # LastComputation
               PROVE  /\ <<prepared[n].object, nodes[n].scale>> \in exports
                      /\ \A cm \in Limbs(nodes[n].comps, QIds(nodes[n].level)) :
                           ToSeal(cm[2], memory[Limb(prepared[n].object, "c", cm[1], cm[2])]) = oracle[n][cm]
    BY DEF Delivered
  <1>1. n \in Mods(OutputIndices)
    BY Exported
  <1>2. <<prepared[n].object, nodes[n].scale>> \in Deliveries
    BY <1>1 DEF Deliveries
  <1>3. <<prepared[n].object, nodes[n].scale>> \in exports
    BY <1>2 DEF Compared
  <1>4. PICK k \in DOMAIN steps : steps[k].at.out = prepared[n].object
    BY <1>2 DEF Compared
  <1>5. n \in DOMAIN prepared /\ Holding(n)
    BY DEF CompileIInv, PhasesRight, AfterPlan, Planning, NodesRight, Sequence
  <1> DEFINE o == steps[k].node
  <1>6. o \in DOMAIN prepared /\ steps[k].at.out = OutputObject(o, nodes[o].level)
        /\ steps[k].outLevel = nodes[o].level /\ steps[k].outComps = nodes[o].comps
    BY StepMetadata DEF CompileIInv
  <1>7. nodes[o].level = nodes[n].level /\ nodes[o].comps = nodes[n].comps /\ oracle[n] = oracle[o]
    <2>1. prepared[n].object[1] # "input"
      BY <1>4, <1>6 DEF OutputObject, Object
    <2>2. PICK j \in DOMAIN steps :
            /\ prepared[n].object = OutputObject(steps[j].node, nodes[n].level)
            /\ nodes[steps[j].node].level = nodes[n].level /\ nodes[steps[j].node].comps = nodes[n].comps
            /\ oracle[n] = oracle[steps[j].node]
      BY <2>1, <1>5 DEF Holding
    <2>3. steps[j].node = o
      BY <2>2, <1>4, <1>6 DEF OutputObject, Object
    <2> QED
      BY <2>2, <2>3
  <1>8. ASSUME NEW cm \in Limbs(nodes[n].comps, QIds(nodes[n].level))
        PROVE  ToSeal(cm[2], memory[Limb(prepared[n].object, "c", cm[1], cm[2])]) = oracle[n][cm]
    <2> DEFINE limb == Limb(prepared[n].object, "c", cm[1], cm[2])
    <2>1. cm \in Limbs(steps[k].outComps, QIds(steps[k].outLevel))
      BY <1>6, <1>7
    <2>2. limb \in OutputLimbs(steps[k])
      BY <2>1, <1>4 DEF OutputLimbs
    <2>3. memory[limb] = golden[limb]
      BY <2>2 DEF HardwareAgrees, Completed
    <2>4. ToSeal(cm[2], golden[limb]) = oracle[o][cm]
      BY <2>1, <1>4 DEF Compared, MatchesOracle
    <2> QED
      BY <2>3, <2>4, <1>7
  <1> QED
    BY <1>3, <1>8

\* Whatever the HPU computes for the operations as the software executor does
\* is delivered as the value of the graph that was asked for, at its scale.
THEOREM Delivery == Spec => ([]HardwareAgrees => []Delivered)
  <1>1. Init => Compared
    BY DEF Init, Compared
  <1>2. Compared /\ [Next]_vars => Compared'
    BY ComparedKept
  <1>3. CompileIInv /\ Compared /\ HardwareAgrees => Delivered
    BY DeliveryRight
  <1> QED
    BY <1>1, <1>2, <1>3, PlanInvariance, PTL DEF Spec

-----------------------------------------------------------------------------
(* Execution.                                                              *)

\* A list of limbs, at the places of an operation.
LEMMA LimbsOfList ==
  ASSUME NEW step, NEW slots, Sequence(slots)
  PROVE  Mods(LimbsAt(step, slots)) = {LimbAt(step, slot) : slot \in Mods(slots)}
  <1> DEFINE limbs == [i \in DOMAIN slots |-> LimbAt(step, slots[i])]
             S == {LimbAt(step, slot) : slot \in Mods(slots)}
  <1>1. Len(slots) \in Nat /\ DOMAIN slots = 1 .. Len(slots)
    BY Indexed
  <1>2. Mods(slots) = {slots[i] : i \in DOMAIN slots}
    BY RangeOf
  <1>3. limbs \in Seq(S)
    <2>1. limbs \in [1 .. Len(slots) -> S]
      BY <1>1, <1>2
    <2> QED
      BY <2>1, <1>1
  <1>4. LimbsAt(step, slots) = limbs
    <2>1. limbs \o << >> = limbs
      <3> HIDE DEF limbs, S
      <3> QED BY <1>3
    <2> QED
      BY <2>1 DEF LimbsAt
  <1>5. DOMAIN limbs = DOMAIN slots /\ \A i \in DOMAIN slots : limbs[i] = LimbAt(step, slots[i])
    BY SMTT(30)
  <1> HIDE DEF limbs
  <1> QED
    BY <1>2, <1>4, <1>5, RangeOf

\* What the operands of a step are at its places.
LEMMA StepPlaces ==
  ASSUME CompileIInv, NEW k \in DOMAIN steps
  PROVE  LET n == steps[k].node
             v == nodes[n]
             a == prepared[v.inputs[1]]
             b == SecondOperand(v, a)
         IN  /\ n \in DOMAIN nodes /\ v.kind \in Computations /\ v.inputs[1] \in DOMAIN prepared
             /\ Len(v.inputs) = 2 => v.inputs[2] \in DOMAIN prepared
             /\ Builds(scheme, v, nodes[v.inputs[1]], nodes[v.inputs[2]])
             /\ v.inputs[1] \in 1 .. n - 1 /\ (Len(v.inputs) = 2 => v.inputs[2] \in 1 .. n - 1)
             /\ a.level = nodes[v.inputs[1]].level /\ a.comps = nodes[v.inputs[1]].comps
             /\ steps[k] = StepOf(n, v, a, b, k - 1)
  <1> DEFINE n == steps[k].node
             v == nodes[n]
             a == prepared[v.inputs[1]]
  <1>1. /\ n \in DOMAIN prepared /\ v.kind \in Computations
        /\ steps[k] = StepOf(n, v, a, SecondOperand(v, a), k - 1)
    BY DEF CompileIInv, Planning, Stepping
  <1>2. n \in DOMAIN nodes
    BY <1>1, HeldMetadata
  <1>3. n \in 1 .. Len(prepared) + 1
    BY <1>1, Indexed DEF CompileIInv, PhasesRight
  <1>4. Builds(scheme, v, nodes[v.inputs[1]], nodes[v.inputs[2]])
    BY <1>2, Operands DEF CompileIInv, Built
  <1>5. v.inputs[1] \in 1 .. n - 1 /\ (Len(v.inputs) = 2 => v.inputs[2] \in 1 .. n - 1)
    BY <1>1, <1>2, Operands DEF CompileIInv, Computations
  <1> QED
    BY <1>1, <1>2, <1>3, <1>4, <1>5, OperandsHeld

\* There is a program for every step.
LEMMA ShapeRight == ASSUME CompileIInv, NEW k \in DOMAIN steps PROVE ShapeOf(steps[k]) \in Shapes
  <1> DEFINE v == nodes[steps[k].node]
             i == v.inputs[1]
             x == nodes[i]
             y == nodes[v.inputs[2]]
             kind == v.kind
             level == x.level
             comps == x.comps
  <1>1. /\ Builds(scheme, v, x, y) /\ kind \in Computations /\ i \in DOMAIN nodes
        /\ ShapeOf(steps[k]) = <<scheme, <<kind, level, comps>> >>
    <2>1. /\ v.inputs[1] \in DOMAIN prepared /\ steps[k].kind = kind
          /\ steps[k].level = level /\ steps[k].comps = comps
      BY StepPlaces DEF StepOf
    <2>2. i \in DOMAIN nodes
      BY <2>1, HeldMetadata, SMTT(30)
    <2> QED
      BY <2>1, <2>2, StepPlaces, Zenon DEF ShapeOf
  <1>2. level \in Levels /\ comps \in {2, 3} /\ scheme \in {"ckks", "bfv"} /\ level \in Nat
    BY <1>1, Operands, LowerLevel DEF CompileIInv, NodesRight, Built
  <1> DEFINE plain == {"add", "sub", "add_plain", "sub_plain", "multiply_plain", "negate", "rotate"}
  <1> HIDE DEF v, x, y, i, kind, level, comps
  <1>3. v.kind = kind /\ x.level = level /\ x.comps = comps
    BY DEF kind, level, comps
  <1>4. CASE kind \in plain
    <2>1. comps = 2
      BY <1>1, <1>3, <1>4 DEF Builds
    <2>2. <<kind, level, comps>> \in plain \X Levels \X {2}
      BY <1>2, <1>4, <2>1
    <2> QED
      BY <1>1, <1>2, <2>2 DEF Shapes
  <1>5. CASE kind = "relinearize"
    <2>1. comps = 3
      BY <1>1, <1>3, <1>5 DEF Builds
    <2>2. <<kind, level, comps>> \in {"relinearize"} \X Levels \X {3}
      BY <1>2, <1>5, <2>1
    <2> QED
      BY <1>1, <1>2, <2>2 DEF Shapes
  <1>6. CASE kind = "rescale"
    <2>1. scheme = "ckks" /\ level # 0
      BY <1>1, <1>3, <1>6, <1>2 DEF Builds
    <2>2. <<kind, level, comps>> \in {"rescale"} \X (Levels \ {0}) \X {2, 3}
      BY <1>2, <1>6, <2>1
    <2> QED
      BY <1>1, <2>1, <2>2 DEF Shapes
  <1>7. CASE kind = "mod_switch"
    <2>1. scheme = "bfv" /\ level # 0 /\ comps = 2
      BY <1>1, <1>3, <1>7, <1>2 DEF Builds
    <2>2. <<kind, level, comps>> \in {"multiply", "square", "mod_switch"} \X (Levels \ {0}) \X {2}
      BY <1>2, <1>7, <2>1
    <2> QED
      BY <1>1, <2>1, <2>2 DEF Shapes
  <1>8. CASE kind \in {"multiply", "square"}
    <2>1. comps = 2 /\ (scheme = "bfv" => level # 0)
      BY <1>1, <1>3, <1>8, <1>2 DEF Builds
    <2>2. scheme = "bfv" => <<kind, level, comps>> \in {"multiply", "square", "mod_switch"} \X (Levels \ {0}) \X {2}
      BY <1>2, <1>8, <2>1
    <2>3. <<kind, level, comps>> \in {"multiply", "square"} \X Levels \X {2}
      BY <1>2, <1>8, <2>1
    <2> QED
      BY <1>1, <1>2, <2>2, <2>3 DEF Shapes
  <1> QED
    BY <1>1, <1>4, <1>5, <1>6, <1>7, <1>8 DEF Computations

\* The program of a step.
LEMMA ProgramRight ==
  ASSUME CompileIInv, ProgramsContained, NEW k \in DOMAIN steps, NEW program, program = Lowered[ShapeOf(steps[k])]
  PROVE  /\ Len(program) \in Nat \ {0} /\ DOMAIN program = 1 .. Len(program)
         /\ \A j \in DOMAIN program :
              /\ Sequence(program[j].in) /\ Sequence(program[j].out)
              /\ \A slot \in Mods(program[j].in) : slot[1] \in Places
              /\ \A slot \in Mods(program[j].in) : Stores(slot) => \E i \in 1 .. j - 1 : slot \in Mods(program[i].out)
  <1>1. /\ program # << >> /\ Sequence(program)
        /\ \A j \in DOMAIN program :
              /\ Sequence(program[j].in) /\ Sequence(program[j].out)
              /\ \A slot \in Mods(program[j].in) : slot[1] \in Places
              /\ \A slot \in Mods(program[j].in) : Stores(slot) => \E i \in 1 .. j - 1 : slot \in Mods(program[i].out)
    <2>1. ShapeOf(steps[k]) \in Shapes
      BY ShapeRight
    <2>2. PICK p \in {Lowered[ShapeOf(steps[k])]} :
            /\ p # << >> /\ p \in Seq(Mods(p))
            /\ \A j \in DOMAIN p :
                 /\ p[j].in \in Seq(Mods(p[j].in)) /\ p[j].out \in Seq(Mods(p[j].out))
                 /\ \A slot \in Mods(p[j].in) \cup Mods(p[j].out) : slot[1] \in Places
                 /\ \A slot \in Mods(p[j].in) : Stores(slot) => \E i \in 1 .. j - 1 : slot \in Mods(p[i].out)
      BY <2>1 DEF ProgramsContained
    <2>3. p = program
      OBVIOUS
    <2> QED
      BY <2>2, <2>3 DEF Sequence
  <1>2. Len(program) \in Nat /\ DOMAIN program = 1 .. Len(program)
    BY <1>1, Indexed
  <1>3. Len(program) # 0
    <2> SUFFICES ASSUME Len(program) = 0 PROVE FALSE
      OBVIOUS
    <2>1. program \in Seq(Mods(program)) /\ Len(program) = 0
      BY <1>1 DEF Sequence
    <2>2. program = << >>
      BY <2>1
    <2> QED
      BY <2>2, <1>1
  <1> QED
    BY <1>1, <1>2, <1>3

\* There is something to execute.
LEMMA StepsExist == ASSUME CompileIInv, phase \in AfterPlan PROVE 1 \in DOMAIN steps
  <1>1. PICK i \in DOMAIN nodes : nodes[i].kind \in Computations
    BY DEF CompileIInv, PhasesRight, AfterPlan
  <1>2. i \in DOMAIN prepared
    BY <1>1, Indexed DEF CompileIInv, NodesRight, PhasesRight
  <1>3. \E k \in DOMAIN steps : TRUE
    BY <1>1, <1>2 DEF CompileIInv, Planning, Holding
  <1> QED
    BY <1>3, Indexed DEF CompileIInv, PhasesRight

\* fresh has what the tasks of the operation in progress have stored.
Executing ==
  phase = "hardware" =>
    \E k \in DOMAIN steps : \E j \in DOMAIN Lowered[ShapeOf(steps[k])] :
      /\ running = <<k, j>>
      /\ \A i \in 1 .. j - 1 : \A slot \in Mods(Lowered[ShapeOf(steps[k])][i].out) : LimbAt(steps[k], slot) \in fresh

\* Each task adds what it stores, and an operation begins with an empty set
\* of its own.
LEMMA ExecutingKept == ASSUME ProgramsContained, CompileIInv, Executing, [Next]_vars PROVE Executing'
  <1> SUFFICES ASSUME phase' = "hardware" PROVE Executing!2'
    BY DEF Executing
  <1>1. ASSUME NEW step, UNCHANGED frontend PROVE ShapeOf(step)' = ShapeOf(step)
    BY <1>1 DEF ShapeOf, frontend
  <1>2. CASE Package
    <2>1. phase = "package" /\ running' = <<1, 1>> /\ UNCHANGED frontend /\ steps' = steps
      BY <1>2 DEF Package
    <2>2. 1 \in DOMAIN steps
      BY <2>1, StepsExist DEF AfterPlan
    <2> DEFINE program == Lowered[ShapeOf(steps[1])]
    <2>3. 1 \in DOMAIN program
      <3>1. Len(program) \in Nat \ {0} /\ DOMAIN program = 1 .. Len(program)
        BY <2>2, ProgramRight
      <3> HIDE DEF program
      <3> QED BY <3>1
    <2>4. ShapeOf(steps[1])' = ShapeOf(steps[1])
      BY <2>1 DEF ShapeOf, frontend
    <2>5. 1 .. 1 - 1 = {}
      OBVIOUS
    <2> QED
      BY <2>1, <2>2, <2>3, <2>4, <2>5
  <1>3. CASE ExecuteTask
    <2>1. phase = "hardware" /\ UNCHANGED <<frontend, steps>>
      BY <1>3 DEF ExecuteTask, compiled
    <2>2. PICK k \in DOMAIN steps : \E j \in DOMAIN Lowered[ShapeOf(steps[k])] :
            /\ running = <<k, j>>
            /\ \A i \in 1 .. j - 1 : \A slot \in Mods(Lowered[ShapeOf(steps[k])][i].out) : LimbAt(steps[k], slot) \in fresh
      BY <2>1 DEF Executing
    <2> DEFINE program == Lowered[ShapeOf(steps[k])]
    <2>3. PICK j \in DOMAIN program :
            /\ running = <<k, j>>
            /\ \A i \in 1 .. j - 1 : \A slot \in Mods(program[i].out) : LimbAt(steps[k], slot) \in fresh
      BY <2>2
    <2>4. CurrentProgram = program /\ CurrentStep = steps[k] /\ running[1] = k /\ running[2] = j
      BY <2>3 DEF CurrentProgram, CurrentStep
    <2>5. /\ Len(program) \in Nat \ {0} /\ DOMAIN program = 1 .. Len(program) /\ Sequence(program[j].out)
      BY <2>3, ProgramRight
    <2>6. steps' = steps /\ \A s : ShapeOf(s)' = ShapeOf(s)
      BY <2>1 DEF ShapeOf, frontend
    <2>7. Len(steps) \in Nat /\ DOMAIN steps = 1 .. Len(steps)
      BY Indexed DEF CompileIInv, PhasesRight
    <2> DEFINE last == j = Len(program)
    <2>8. /\ running' = IF last THEN <<k + 1, 1>> ELSE <<k, j + 1>>
          /\ phase' = IF last /\ k = Len(steps) THEN "done" ELSE phase
          /\ Compute(program[j])
      BY <1>3, <2>4, SMTT(30) DEF ExecuteTask
    <2>9. fresh' = IF running'[2] = 1 THEN {} ELSE fresh \cup Mods(LimbsAt(steps[k], program[j].out))
      BY <2>4, <2>8 DEF Compute
    <2>10. CASE last
      <3>1. k # Len(steps) /\ running' = <<k + 1, 1>>
        BY <2>8, <2>10
      <3>2. k + 1 \in DOMAIN steps
        BY <3>1, <2>7
      <3> DEFINE next == Lowered[ShapeOf(steps[k + 1])]
      <3>3. 1 \in DOMAIN next
        <4>1. Len(next) \in Nat \ {0} /\ DOMAIN next = 1 .. Len(next)
          BY <3>2, ProgramRight
        <4> HIDE DEF next
        <4> QED BY <4>1
      <3>4. ShapeOf(steps[k + 1])' = ShapeOf(steps[k + 1])
        BY <2>1 DEF ShapeOf, frontend
      <3>5. 1 .. 1 - 1 = {}
        OBVIOUS
      <3> HIDE DEF program
      <3> QED
        BY <3>1, <3>2, <3>3, <3>4, <3>5, <2>1
    <2>11. CASE ~ last
      <3>1. running' = <<k, j + 1>>
        BY <2>8, <2>11
      <3> HIDE DEF program
      <3>2. j + 1 \in DOMAIN program /\ j + 1 # 1 /\ (j + 1) - 1 = j /\ j \in Nat
        BY <2>3, <2>5, <2>11
      <3>3. fresh' = fresh \cup {LimbAt(steps[k], slot) : slot \in Mods(program[j].out)}
        <4>1. running'[2] # 1
          BY <3>1, <3>2
        <4> QED
          BY <4>1, <2>5, <2>9, LimbsOfList
      <3>4. \A i \in 1 .. j : \A slot \in Mods(program[i].out) : LimbAt(steps[k], slot) \in fresh'
        <4> SUFFICES ASSUME NEW i \in 1 .. j, NEW slot \in Mods(program[i].out) PROVE LimbAt(steps[k], slot) \in fresh'
          OBVIOUS
        <4>1. CASE i = j
          BY <4>1, <3>3
        <4>2. CASE i # j
          <5>1. i \in 1 .. j - 1
            BY <4>2, <3>2
          <5> QED
            BY <5>1, <2>3, <3>3
        <4> QED BY <4>1, <4>2
      <3>5. ShapeOf(steps[k])' = ShapeOf(steps[k])
        BY <2>1 DEF ShapeOf, frontend
      <3>6. LimbAt(steps[k], 1)' = LimbAt(steps[k], 1) /\ \A slot : LimbAt(steps'[k], slot) = LimbAt(steps[k], slot)
        BY <2>1
      <3>7. Lowered[ShapeOf(steps[k])'] = program
        BY <3>5 DEF program
      <3> QED
        BY <2>1, <3>1, <3>2, <3>4, <3>6, <3>7
    <2> QED BY <2>10, <2>11
  <1>4. CASE UNCHANGED vars
    <2>1. phase = "hardware" /\ UNCHANGED <<frontend, steps, running, fresh>>
      BY <1>4 DEF vars, compiled, machine
    <2>2. \A k \in DOMAIN steps : ShapeOf(steps[k])' = ShapeOf(steps[k])
      BY <2>1 DEF ShapeOf, frontend
    <2> QED
      BY <2>1, <2>2 DEF Executing
  <1>5. CASE Build \/ Compile \/ ExecuteOracle \/ Plan \/ StartSoftware \/ ExecuteSoftware \/ Relocate
    <2>1. FrontendNext => phase = "build" /\ phase' = "build"
      BY Zenon DEF FrontendNext, Called, ImportCiphertext, ImportPlaintext, Binary, Square, NegateValue,
       RescaleToNext, ModSwitchToNext, Plain, Relinearize, Rotation, SetScale, MarkOutput
    <2>2. Plan => phase = "plan" /\ phase' \in {"plan", "rejected"}
      BY DEF Plan, PlanOperation
    <2> QED
      BY <1>5, <2>1, <2>2, OracleSteps DEF Build, Compile, StartSoftware, ExecuteSoftware, Relocate
  <1> QED
    BY <1>2, <1>3, <1>4, <1>5 DEF Next, Progress, Ended

\* An operand that can be written is the output of an earlier step.
LEMMA OperandEarlier ==
  ASSUME CompileIInv, NEW k \in DOMAIN steps, NEW i \in DOMAIN prepared, i \in 1 .. steps[k].node - 1,
         prepared[i].object[1] \in {"output", "workspace"}
  PROVE  \E j \in 1 .. k - 1 : prepared[i].object = steps[j].at.out
  <1>1. PICK j \in DOMAIN steps :
          /\ steps[j].node \in 1 .. i /\ prepared[i].object = OutputObject(steps[j].node, nodes[i].level)
          /\ nodes[steps[j].node].level = nodes[i].level
    BY DEF CompileIInv, Planning, Holding
  <1>2. prepared[i].object = steps[j].at.out
    BY <1>1, StepMetadata
  <1>3. /\ Len(steps) \in Nat /\ DOMAIN steps = 1 .. Len(steps)
        /\ Len(prepared) \in Nat /\ DOMAIN prepared = 1 .. Len(prepared)
        /\ steps[k].node \in DOMAIN prepared
    BY Indexed, StepMetadata DEF CompileIInv, PhasesRight
  <1>4. ~ j >= k
    <2> SUFFICES ASSUME j >= k PROVE FALSE
      OBVIOUS
    <2>1. steps[j].node < steps[k].node
      BY <1>1, <1>3
    <2>2. j = k \/ steps[k].node < steps[j].node
      BY <1>3 DEF CompileIInv, Planning
    <2>3. steps[j].node \in Nat /\ steps[k].node \in Nat
      BY <1>1, <1>3
    <2> QED
      BY <2>1, <2>2, <2>3
  <1> QED
    BY <1>2, <1>3, <1>4

\* What else a step has was made by no program.
LEMMA PlaceOf ==
  ASSUME CompileIInv, NEW k \in DOMAIN steps, NEW place \in Places \ {"out", "work"},
         steps[k].at[place][1] \in {"output", "workspace"}
  PROVE  \E j \in 1 .. k - 1 : steps[k].at[place] = steps[j].at.out
  <1> DEFINE n == steps[k].node
             v == nodes[n]
             a == prepared[v.inputs[1]]
             b == SecondOperand(v, a)
             level == PlannedLevel(v, a)
  <1>1. /\ n \in DOMAIN nodes /\ v.kind \in Computations /\ v.inputs[1] \in DOMAIN prepared
        /\ Len(v.inputs) = 2 => v.inputs[2] \in DOMAIN prepared
        /\ v.inputs[1] \in 1 .. n - 1 /\ (Len(v.inputs) = 2 => v.inputs[2] \in 1 .. n - 1)
        /\ steps[k] = StepOf(n, v, a, b, k - 1)
    BY StepPlaces
  <1>2. steps[k].at = Place(n, v, a, b, level, k - 1)
    BY <1>1 DEF StepOf
  <1>3. ASSUME NEW object, object = prepared[v.inputs[1]].object \/ (Len(v.inputs) = 2 /\ object = prepared[v.inputs[2]].object),
               object[1] \in {"output", "workspace"}
        PROVE  \E j \in 1 .. k - 1 : object = steps[j].at.out
    <2> HIDE DEF v
    <2>1. v.inputs[1] \in 1 .. steps[k].node - 1 /\ (Len(v.inputs) = 2 => v.inputs[2] \in 1 .. steps[k].node - 1)
      BY <1>1, SMTT(30)
    <2> QED
      BY <1>1, <1>3, <2>1, OperandEarlier
  <1>4. CASE place = "left"
    <2>1. steps[k].at[place] = a.object
      BY <1>2, <1>4 DEF Place
    <2> QED
      BY <2>1, <1>3
  <1>5. CASE place = "right"
    <2>1. steps[k].at[place] = b.object
      BY <1>2, <1>5 DEF Place
    <2>2. b.object = a.object \/ (Len(v.inputs) = 2 /\ b.object = prepared[v.inputs[2]].object) \/ b.object[1] = "plain"
      <3>1. b.object = IF Len(v.inputs) = 2 THEN prepared[v.inputs[2]].object
                       ELSE IF WithPlain(v.kind) THEN PlainObject(v, a.level) ELSE a.object
        <4>1. Len(v.inputs) = 2 => ~ WithPlain(v.kind)
          <5>1. Builds(scheme, v, nodes[v.inputs[1]], nodes[v.inputs[2]]) /\ v.kind \in Computations
            BY StepPlaces
          <5> HIDE DEF v
          <5> QED
            BY <5>1 DEF Builds, Computations, WithPlain
        <4>2. b = IF Len(v.inputs) = 2 THEN prepared[v.inputs[2]]
                  ELSE IF WithPlain(v.kind) THEN Holds(PlainObject(v, a.level), a.level, 1, Delta) ELSE a
          <5> HIDE DEF v
          <5> QED
            BY <4>1 DEF SecondOperand
        <4> HIDE DEF v, a, b
        <4> QED
          BY <4>2 DEF Holds
      <3>2. PlainObject(v, a.level)[1] = "plain"
        BY DEF PlainObject, Object
      <3> HIDE DEF v, a, b
      <3> QED
        BY <3>1, <3>2
    <2>3. b.object[1] # "plain"
      BY <2>1
    <2> HIDE DEF v, b
    <2> QED
      BY <2>1, <2>2, <2>3, <1>3
  <1>6. CASE place \in {"key", "constants", "fused", "canonical"}
    <2>1. KeyObject(v, a.level)[1] \in {"relin_key", "galois_key"}
      BY DEF KeyObject, KeyKind, Object
    <2>2. ConstantsObject(v.kind, a.level)[1] \in {"keyswitch", "multiply"} \cup Computations
      BY <1>1 DEF ConstantsObject, Object
    <2>3. FusedObject(v.element, a.level)[1] = "fused" /\ Canonical[1] = "canonical"
      BY DEF FusedObject, Canonical, Object
    <2>4. steps[k].at[place] \in {KeyObject(v, a.level), ConstantsObject(v.kind, a.level), FusedObject(v.element, a.level), Canonical}
      <3> HIDE DEF v, a, b, level
      <3>1. /\ steps[k].at.key = KeyObject(v, a.level) /\ steps[k].at.constants = ConstantsObject(v.kind, a.level)
            /\ steps[k].at.fused = FusedObject(v.element, a.level) /\ steps[k].at.canonical = Canonical
        BY <1>2 DEF Place
      <3> QED
        BY <3>1, <1>6
    <2> HIDE DEF v, a
    <2> QED
      BY <2>1, <2>2, <2>3, <2>4 DEF Computations
  <1> QED
    BY <1>4, <1>5, <1>6 DEF Places

\* A slot that the program stores to was stored by an earlier task, and any
\* other one is an input, or the output of an earlier step.
LEMMA FreshRight == ASSUME ProgramsContained, CompileIInv, Executing PROVE WorkspaceFresh
  <1> SUFFICES ASSUME phase = "hardware",
                      NEW limb \in Mods(LimbsAt(CurrentStep, CurrentProgram[running[2]].in)), Writable(limb),
                      limb \notin fresh
               PROVE  \E k \in 1 .. running[1] - 1 : limb[1] = steps[k].at.out
    BY DEF WorkspaceFresh
  <1>1. PICK k \in DOMAIN steps : \E j \in DOMAIN Lowered[ShapeOf(steps[k])] :
          /\ running = <<k, j>>
          /\ \A i \in 1 .. j - 1 : \A slot \in Mods(Lowered[ShapeOf(steps[k])][i].out) : LimbAt(steps[k], slot) \in fresh
    BY DEF Executing
  <1> DEFINE program == Lowered[ShapeOf(steps[k])]
  <1>2. PICK j \in DOMAIN program :
          /\ running = <<k, j>>
          /\ \A i \in 1 .. j - 1 : \A slot \in Mods(program[i].out) : LimbAt(steps[k], slot) \in fresh
    BY <1>1
  <1>3. CurrentProgram = program /\ CurrentStep = steps[k] /\ running[1] = k /\ running[2] = j
    BY <1>2 DEF CurrentProgram, CurrentStep
  <1>4. /\ Sequence(program[j].in)
        /\ \A slot \in Mods(program[j].in) : slot[1] \in Places
        /\ \A slot \in Mods(program[j].in) : Stores(slot) => \E i \in 1 .. j - 1 : slot \in Mods(program[i].out)
    BY <1>2, ProgramRight
  <1> HIDE DEF program
  <1>5. PICK slot \in Mods(program[j].in) : limb = LimbAt(steps[k], slot)
    BY <1>3, <1>4, LimbsOfList
  <1>6. ~ Stores(slot)
    BY <1>2, <1>4, <1>5
  <1>7. slot[1] \in Places \ {"out", "work"} /\ slot[2] \notin Scratch
    BY <1>4, <1>6 DEF Stores
  <1>8. limb[1] = steps[k].at[slot[1]] /\ limb[2] = slot[2]
    BY <1>5 DEF LimbAt, Limb
  <1>9. limb[1][1] \in {"output", "workspace"}
    BY <1>7, <1>8 DEF Writable
  <1> QED
    BY <1>3, <1>7, <1>8, <1>9, PlaceOf

\* Whatever the application, no task reads what an earlier operation or nobody
\* at all left in a workspace, if the programs stay within their operations.
THEOREM Freshness == ProgramsContained => (Spec => []WorkspaceFresh)
  <1>1. Init => Executing
    BY DEF Init, Executing
  <1>2. ProgramsContained /\ CompileIInv /\ Executing /\ [Next]_vars => Executing'
    BY ExecutingKept
  <1>3. ProgramsContained /\ CompileIInv /\ Executing => WorkspaceFresh
    BY FreshRight
  <1>4. ProgramsContained => ProgramsContained'
    BY DEF ProgramsContained
  <1> QED
    BY <1>1, <1>2, <1>3, <1>4, PlanInvariance, PTL DEF Spec

-----------------------------------------------------------------------------
(* What is in the image.                                                    *)

\* A set of natural numbers has a least element.
LEMMA LeastNumber ==
  ASSUME NEW S \in SUBSET Nat, S # {}
  PROVE  \E x \in S : \A y \in S : x <= y
  <1> DEFINE R == WF!OpToRel(<, Nat)
  <1>1. WF!IsWellFoundedOn(R, Nat)
    BY WF!NatLessThanWellFounded
  <1>2. PICK x \in S : \A y \in S : ~ (<<y, x>> \in R)
    <2> HIDE DEF R
    <2> QED BY <1>1, WF!WFMin
  <1>3. \A y, z \in Nat : y < z => <<y, z>> \in R
    BY DEF WF!OpToRel
  <1>4. \A y \in S : ~ (y < x)
    BY <1>2, <1>3, Zenon
  <1> QED BY <1>4

\* What an object was made for, by its kind, and how large that makes it.
MadeFor(o, capacity) ==
  /\ o[1] # "none"
  /\ o[1] = "input" => capacity = nodes[o[2]].comps
  /\ o[1] = "output" => \E k \in DOMAIN steps : o = steps[k].at.out /\ capacity = steps[k].outComps
  /\ o[1] = "workspace" => \E k \in DOMAIN steps : o = steps[k].at.work /\ capacity = steps[k].comps
  /\ o[1] = "rescale" => capacity = RescaleCapacity(o[4])
  /\ o[1] = "mod_switch" => capacity = 2

\* All objects of an image were.
AllMade(resources) == \A o \in DOMAIN resources : MadeFor(o, resources[o].capacity)

\* An image that has what another one has, and more of other kinds.
Enlarges(larger, resources, kinds) ==
  /\ \A o \in DOMAIN resources : o \in DOMAIN larger /\ larger[o] = resources[o]
  /\ \A o \in DOMAIN larger \ DOMAIN resources : o[1] \in kinds

\* An object is found, or made.
LEMMA FoundOrMade ==
  ASSUME NEW resources, NEW o, NEW capacity, NEW data, AllMade(resources), MadeFor(o, capacity)
  PROVE  /\ AllMade(Cached(resources, o, capacity, data))
         /\ Enlarges(Cached(resources, o, capacity, data), resources, {o[1]})
         /\ o \notin DOMAIN resources => Cached(resources, o, capacity, data)[o].capacity = capacity
  <1> DEFINE larger == Cached(resources, o, capacity, data)
             value(x) == IF x \in DOMAIN resources THEN resources[x] ELSE Stored(capacity, data)
  <1>1. larger = [x \in DOMAIN resources \cup {o} |-> value(x)]
    BY DEF Cached
  <1>2. DOMAIN larger = DOMAIN resources \cup {o} /\ \A x \in DOMAIN resources \cup {o} : larger[x] = value(x)
    BY <1>1
  <1>3. \A x \in DOMAIN resources : x \in DOMAIN larger /\ larger[x] = resources[x]
    BY <1>2
  <1>4. o \notin DOMAIN resources => larger[o] = Stored(capacity, data)
    BY <1>2
  <1>5. Stored(capacity, data).capacity = capacity
    BY DEF Stored
  <1> HIDE DEF value, larger
  <1>6. AllMade(larger)
    BY <1>2, <1>3, <1>4, <1>5 DEF AllMade
  <1>7. Enlarges(larger, resources, {o[1]})
    BY <1>2, <1>3, <1>4, <1>5, <1>6 DEF Enlarges
  <1> QED
    BY <1>2, <1>4, <1>5, <1>6, <1>7 DEF larger

\* The same where an object is wanted on a condition.
LEMMA CachedObject ==
  ASSUME NEW resources, NEW condition \in BOOLEAN, NEW o, NEW capacity, NEW data, AllMade(resources),
         condition => MadeFor(o, capacity),
         NEW larger, larger = CachedIf(resources, condition, o, capacity, data)
  PROVE  /\ AllMade(larger) /\ Enlarges(larger, resources, {o[1]})
         /\ condition => o \in DOMAIN larger
         /\ condition /\ o \notin DOMAIN resources => larger[o].capacity = capacity
         /\ DOMAIN larger \subseteq DOMAIN resources \cup {o}
  <1>1. CASE ~ condition
    <2>1. larger = resources
      BY <1>1 DEF CachedIf
    <2> QED
      BY <1>1, <2>1 DEF Enlarges
  <1>2. CASE condition
    <2> DEFINE found == Cached(resources, o, capacity, data)
    <2>1. larger = found
      BY <1>2 DEF CachedIf
    <2>2. MadeFor(o, capacity)
      BY <1>2
    <2>3. AllMade(found)
      BY <2>2, FoundOrMade
    <2>4. Enlarges(found, resources, {o[1]})
      BY <2>2, FoundOrMade
    <2>5. DOMAIN found = DOMAIN resources \cup {o}
      BY DEF Cached
    <2>6. o \notin DOMAIN resources => found[o].capacity = capacity
      BY <2>2, FoundOrMade
    <2> HIDE DEF found
    <2>7. AllMade(larger) /\ Enlarges(larger, resources, {o[1]})
      BY <2>1, <2>3, <2>4
    <2>8. o \in DOMAIN larger /\ DOMAIN larger \subseteq DOMAIN resources \cup {o}
      BY <2>1, <2>5
    <2>9. o \notin DOMAIN resources => larger[o].capacity = capacity
      BY <2>1, <2>6
    <2> QED
      BY <2>7, <2>8, <2>9
  <1> QED BY <1>1, <1>2

\* Enlarging twice.
LEMMA EnlargesTwice ==
  ASSUME NEW x, NEW y, NEW z, NEW S, NEW T, Enlarges(y, x, S), Enlarges(z, y, T)
  PROVE  Enlarges(z, x, S \cup T)
  BY DEF Enlarges

\* The resources that an operation finds or makes before its output.
ResourceKinds == {"plain", "relin_key", "galois_key", "keyswitch", "rescale", "mod_switch", "multiply", "fused"}
ConstantsKind(kind) == Switches(kind) \/ kind = "rescale" \/ (scheme = "bfv" /\ kind \in {"mod_switch", "multiply", "square"})
ResourcesOf(resources, value, level) ==
  IF scheme = "ckks" THEN CkksResources(resources, value, level) ELSE BfvResources(resources, value, level)

\* They are there afterwards.
LEMMA Resources ==
  ASSUME AllMade(image), NEW value, NEW level, NEW resources, resources = ResourcesOf(image, value, level),
         scheme \in {"ckks", "bfv"}, value.kind = "rescale" => scheme = "ckks"
  PROVE  /\ AllMade(resources) /\ Enlarges(resources, image, ResourceKinds)
         /\ WithPlain(value.kind) => PlainObject(value, level) \in DOMAIN resources
         /\ Switches(value.kind) => KeyObject(value, level) \in DOMAIN resources
         /\ ConstantsKind(value.kind) => ConstantsObject(value.kind, level) \in DOMAIN resources
         /\ value.kind = "rotate" => FusedObject(value.element, level) \in DOMAIN resources
  <1> DEFINE kind == value.kind
             data == IF WithPlain(kind) THEN plains[value.plain] ELSE "none"
             capacity == IF kind = "rescale" THEN RescaleCapacity(level) ELSE 2
             r1 == CachedIf(image, WithPlain(kind), PlainObject(value, level), 1, data)
             r2 == CachedIf(r1, Switches(kind), KeyObject(value, level), 0, value.data)
             r3 == CachedIf(r2, ConstantsKind(kind), ConstantsObject(kind, level), capacity, "none")
             r4 == CachedIf(r3, kind = "rotate", FusedObject(value.element, level), 0, "none")
  <1>1. resources = r4
    <2>1. CASE scheme = "ckks"
      <3>1. ConstantsKind(kind) = (Switches(kind) \/ kind = "rescale")
        BY <2>1 DEF ConstantsKind
      <3> QED
        BY <2>1, <3>1 DEF ResourcesOf, CkksResources, WithOperandData
    <2>2. CASE scheme = "bfv"
      <3>1. kind # "rescale" /\ capacity = 2
        BY <2>2
      <3>2. ConstantsKind(kind) = (Switches(kind) \/ kind \in {"mod_switch", "multiply", "square"})
        BY <2>2, <3>1 DEF ConstantsKind
      <3> QED
        BY <2>2, <3>1, <3>2 DEF ResourcesOf, BfvResources, WithOperandData
    <2> QED BY <2>1, <2>2
  <1>2. MadeFor(PlainObject(value, level), 1) /\ PlainObject(value, level)[1] = "plain"
    BY DEF MadeFor, PlainObject, Object
  <1>3. MadeFor(KeyObject(value, level), 0) /\ KeyObject(value, level)[1] \in {"relin_key", "galois_key"}
    BY DEF MadeFor, KeyObject, Object, KeyKind
  <1>4. ConstantsKind(kind) => /\ MadeFor(ConstantsObject(kind, level), capacity)
                               /\ ConstantsObject(kind, level)[1] \in {"keyswitch", "rescale", "mod_switch", "multiply"}
    <2> SUFFICES ASSUME ConstantsKind(kind) PROVE <1>4!2
      OBVIOUS
    <2> DEFINE o == ConstantsObject(kind, level)
    <2>1. o[4] = level
      BY DEF ConstantsObject, Object
    <2>2. CASE Switches(kind)
      <3>1. o[1] = "keyswitch"
        BY <2>2 DEF ConstantsObject, Object, Switches
      <3> QED
        BY <3>1 DEF MadeFor
    <2>3. CASE kind = "rescale"
      <3>1. o[1] = "rescale" /\ capacity = RescaleCapacity(level)
        BY <2>3 DEF ConstantsObject, Object, Switches
      <3> QED
        BY <2>1, <3>1 DEF MadeFor
    <2>4. CASE kind = "mod_switch"
      <3>1. o[1] = "mod_switch" /\ capacity = 2
        BY <2>4 DEF ConstantsObject, Object, Switches
      <3> QED
        BY <2>1, <3>1 DEF MadeFor
    <2>5. CASE kind \in {"multiply", "square"}
      <3>1. o[1] = "multiply"
        BY <2>5 DEF ConstantsObject, Object, Switches
      <3> QED
        BY <2>1, <3>1 DEF MadeFor
    <2> QED
      BY <2>2, <2>3, <2>4, <2>5 DEF ConstantsKind
  <1>5. MadeFor(FusedObject(value.element, level), 0) /\ FusedObject(value.element, level)[1] = "fused"
    BY DEF MadeFor, FusedObject, Object
  <1>6. WithPlain(kind) \in BOOLEAN /\ Switches(kind) \in BOOLEAN /\ ConstantsKind(kind) \in BOOLEAN /\ (kind = "rotate") \in BOOLEAN
    BY DEF WithPlain, Switches, ConstantsKind
  <1>7. /\ AllMade(r1) /\ Enlarges(r1, image, {"plain"})
        /\ WithPlain(kind) => PlainObject(value, level) \in DOMAIN r1
    <2> DEFINE o == PlainObject(value, level)
               adds == WithPlain(kind)
               r0 == image
    <2>1. adds \in BOOLEAN /\ MadeFor(o, 1) /\ r1 = CachedIf(r0, adds, o, 1, data) /\ AllMade(r0)
      BY <1>2, <1>6
    <2> HIDE DEF r0, r1, o, adds, data
    <2>2. AllMade(r1) /\ Enlarges(r1, r0, {o[1]}) /\ (adds => o \in DOMAIN r1)
      BY <2>1, CachedObject
    <2> QED
      BY <1>2, <2>2 DEF o, adds, r0
  <1>8. /\ AllMade(r2) /\ Enlarges(r2, r1, {"relin_key", "galois_key"})
        /\ Switches(kind) => KeyObject(value, level) \in DOMAIN r2
    <2> DEFINE o == KeyObject(value, level)
    <2>1. AllMade(r2) /\ Enlarges(r2, r1, {o[1]}) /\ (Switches(kind) => o \in DOMAIN r2)
      <3> DEFINE adds == Switches(kind)
                 secret == value.data
      <3>1. adds \in BOOLEAN /\ MadeFor(o, 0) /\ r2 = CachedIf(r1, adds, o, 0, secret) /\ AllMade(r1)
        BY <1>3, <1>6, <1>7
      <3> HIDE DEF r1, r2, o, adds, secret
      <3>2. AllMade(r2) /\ Enlarges(r2, r1, {o[1]}) /\ (adds => o \in DOMAIN r2)
        BY <3>1, CachedObject
      <3> QED
        BY <3>2 DEF adds
    <2> HIDE DEF r1, r2, o
    <2> QED
      BY <1>3, <2>1 DEF Enlarges, o
  <1>9. /\ AllMade(r3) /\ Enlarges(r3, r2, {"keyswitch", "rescale", "mod_switch", "multiply"})
        /\ ConstantsKind(kind) => ConstantsObject(kind, level) \in DOMAIN r3
    <2> DEFINE o == ConstantsObject(kind, level)
    <2>1. /\ AllMade(r3) /\ Enlarges(r3, r2, {o[1]}) /\ (ConstantsKind(kind) => o \in DOMAIN r3)
          /\ ~ ConstantsKind(kind) => r3 = r2
      <3>1. ~ ConstantsKind(kind) => r3 = r2
        BY DEF CachedIf
      <3> DEFINE adds == ConstantsKind(kind)
      <3>2. adds \in BOOLEAN /\ (adds => MadeFor(o, capacity)) /\ r3 = CachedIf(r2, adds, o, capacity, "none") /\ AllMade(r2)
        BY <1>4, <1>6, <1>8
      <3> HIDE DEF r2, r3, o, adds, capacity
      <3>3. AllMade(r3) /\ Enlarges(r3, r2, {o[1]}) /\ (adds => o \in DOMAIN r3)
        <4>1. CASE ~ adds
          <5>1. r3 = r2
            BY <4>1, <3>2 DEF CachedIf
          <5> QED
            BY <4>1, <5>1, <3>2 DEF Enlarges
        <4>2. CASE adds
          <5>1. MadeFor(o, capacity) /\ r3 = Cached(r2, o, capacity, "none")
            BY <4>2, <3>2 DEF CachedIf
          <5> QED
            <6> DEFINE found == Cached(r2, o, capacity, "none")
            <6>1. AllMade(found)
              BY <5>1, <3>2, FoundOrMade
            <6>2. Enlarges(found, r2, {o[1]})
              BY <5>1, <3>2, FoundOrMade
            <6>3. DOMAIN found = DOMAIN r2 \cup {o}
              BY DEF Cached
            <6>4. r3 = found
              BY <5>1
            <6> HIDE DEF found
            <6> QED
              BY <6>1, <6>2, <6>3, <6>4
        <4> QED BY <4>1, <4>2
      <3> QED
        BY <3>1, <3>3 DEF adds
    <2> HIDE DEF r2, r3, o
    <2> QED
      BY <1>4, <2>1 DEF Enlarges, o
  <1>10. /\ AllMade(r4) /\ Enlarges(r4, r3, {"fused"})
         /\ kind = "rotate" => FusedObject(value.element, level) \in DOMAIN r4
    <2> DEFINE o == FusedObject(value.element, level)
    <2>1. AllMade(r4) /\ Enlarges(r4, r3, {o[1]}) /\ (kind = "rotate" => o \in DOMAIN r4)
      <3> DEFINE rotates == kind = "rotate"
      <3>1. rotates \in BOOLEAN /\ MadeFor(o, 0) /\ r4 = CachedIf(r3, rotates, o, 0, "none") /\ AllMade(r3)
        BY <1>5, <1>6, <1>9
      <3> HIDE DEF r3, r4, o, rotates
      <3>2. AllMade(r4) /\ Enlarges(r4, r3, {o[1]}) /\ (rotates => o \in DOMAIN r4)
        BY <3>1, CachedObject
      <3> QED
        BY <3>2 DEF rotates
    <2> HIDE DEF r3, r4, o
    <2> QED
      BY <1>5, <2>1 DEF o
  <1> HIDE DEF r1, r2, r3, r4, kind
  <1>11. Enlarges(r4, image, ResourceKinds)
    <2>1. Enlarges(r2, image, {"plain", "relin_key", "galois_key"})
      BY <1>7, <1>8 DEF Enlarges
    <2>2. Enlarges(r3, image, {"plain", "relin_key", "galois_key", "keyswitch", "rescale", "mod_switch", "multiply"})
      BY <2>1, <1>9 DEF Enlarges
    <2> QED
      BY <2>2, <1>10 DEF Enlarges, ResourceKinds
  <1>12. DOMAIN r1 \subseteq DOMAIN r2 /\ DOMAIN r2 \subseteq DOMAIN r3 /\ DOMAIN r3 \subseteq DOMAIN r4
    BY <1>8, <1>9, <1>10 DEF Enlarges
  <1> QED
    BY <1>1, <1>7, <1>8, <1>9, <1>10, <1>11, <1>12 DEF kind

\* What an operation needs of the image afterwards.
Needs(step) ==
  {step.at.left, step.at.right, step.at.out}
  \cup (IF step.at.work = NoObject THEN {} ELSE {step.at.work})
  \cup (IF Switches(step.kind) THEN {step.at.key} ELSE {})
  \cup (IF ConstantsKind(step.kind) THEN {step.at.constants} ELSE {})
  \cup (IF step.kind = "rotate" THEN {step.at.fused} ELSE {})

\* The image has what the plan holds, and all that its steps need.
ImageRight ==
  /\ AllMade(image)
  /\ \A i \in DOMAIN prepared : prepared[i].object \in DOMAIN image /\ image[prepared[i].object].capacity = nodes[i].comps
  /\ \A k \in DOMAIN steps : Needs(steps[k]) \subseteq DOMAIN image
  /\ phase = "build" => DOMAIN image = {}
  /\ phase # "build" /\ RequiresTwiddles => Canonical \in DOMAIN image

\* The limbs of an object, by its kind.
LEMMA LimbsByKind ==
  ASSUME scheme \in {"ckks", "bfv"}, NEW level, NEW capacity
  PROVE  /\ \A kind \in {"input", "output", "workspace"} : LimbsOf(kind, level, capacity) = Grid("c", 0 .. capacity - 1, Mods(QIds(level)))
         /\ LimbsOf("plain", level, capacity) = Grid("c", {0}, Mods(QIds(level)))
         /\ \A kind \in {"relin_key", "galois_key"} :
              LimbsOf(kind, level, capacity) = Grid("key", 0 .. 2 * Len(KeyDigits(level)) - 1, Mods(FullIds(level)))
         /\ LimbsOf("fused", level, capacity) = Grid("intt", {0}, Mods(QIds(level)))
         /\ LimbsOf("canonical", level, capacity) = IF scheme = "ckks" THEN CkksTables ELSE BfvTables
  <1>1. CASE scheme = "ckks"
    BY <1>1 DEF LimbsOf, CkksLimbs, CkksValueLimbs, CkksPlainLimbs, CkksKeyLimbs, CkksFusedTables
  <1>2. CASE scheme = "bfv"
    BY <1>2 DEF LimbsOf, BfvLimbs, BfvValueLimbs, BfvSumPlainLimbs, BfvKeyLimbs, BfvFusedTables
  <1> QED BY <1>1, <1>2

\* A limb is allocated if its object is there and has it.
LEMMA AllocatedLimb ==
  ASSUME NEW resources, NEW o, NEW role, NEW i, NEW m, o \in DOMAIN resources,
         <<role, i, m>> \in LimbsOf(o[1], o[4], resources[o].capacity)
  PROVE  Allocated(resources, Limb(o, role, i, m))
  BY DEF Allocated, Limb

\* An operand that the plan holds is there, with all its components.
LEMMA OperandReady ==
  ASSUME CompileIInv, ImageRight, NEW i \in DOMAIN prepared, NEW resources, NEW kinds, Enlarges(resources, image, kinds)
  PROVE  HasValue(resources, prepared[i], nodes[i].comps)
  <1> DEFINE o == prepared[i].object
             comps == nodes[i].comps
             level == nodes[i].level
  <1>1. prepared[i].comps = comps /\ prepared[i].level = level
    BY HeldMetadata
  <1>2. o[1] \in {"input", "output"} /\ o[4] = level
    <2>1. Holding(i)
      BY DEF CompileIInv, Planning
    <2> QED
      BY <2>1 DEF Holding, OutputObject, Object
  <1>3. o \in DOMAIN resources /\ resources[o].capacity = comps
    BY DEF ImageRight, Enlarges
  <1>4. scheme \in {"ckks", "bfv"}
    BY DEF CompileIInv, NodesRight
  <1> HIDE DEF o, comps, level
  <1>5. LimbsOf(o[1], o[4], resources[o].capacity) = Grid("c", 0 .. comps - 1, Mods(QIds(level)))
    BY <1>2, <1>3, <1>4, LimbsByKind
  <1>6. ASSUME NEW cm \in Limbs(comps, QIds(level)) PROVE Allocated(resources, Limb(o, "c", cm[1], cm[2]))
    <2>1. <<"c", cm[1], cm[2]>> \in Grid("c", 0 .. comps - 1, Mods(QIds(level)))
      BY DEF Limbs, Grid
    <2> QED
      BY <2>1, <1>3, <1>5, AllocatedLimb
  <1> QED
    BY <1>1, <1>6 DEF HasValue, o, comps, level

\* A plaintext of the level is there.
LEMMA PlainReady ==
  ASSUME scheme \in {"ckks", "bfv"}, NEW value, NEW level, NEW resources, PlainObject(value, level) \in DOMAIN resources, NEW scale
  PROVE  HasValue(resources, Holds(PlainObject(value, level), level, 1, scale), 1)
  <1> DEFINE o == PlainObject(value, level)
  <1>1. o[1] = "plain" /\ o[4] = level
    BY DEF PlainObject, Object
  <1> HIDE DEF o
  <1>2. LimbsOf(o[1], o[4], resources[o].capacity) = Grid("c", {0}, Mods(QIds(level)))
    BY <1>1, LimbsByKind
  <1>3. ASSUME NEW cm \in Limbs(1, QIds(level)) PROVE Allocated(resources, Limb(o, "c", cm[1], cm[2]))
    <2>1. <<"c", cm[1], cm[2]>> \in Grid("c", {0}, Mods(QIds(level)))
      BY DEF Limbs, Grid
    <2> QED
      BY <2>1, <1>2, AllocatedLimb DEF o
  <1> QED
    BY <1>3 DEF HasValue, Holds, o

\* A key has all components of all digits.
LEMMA KeyReady ==
  ASSUME scheme \in {"ckks", "bfv"}, NEW value, NEW level, NEW resources, KeyObject(value, level) \in DOMAIN resources
  PROVE  HasKey(resources, KeyObject(value, level), level)
  <1> DEFINE o == KeyObject(value, level)
  <1>1. o[1] \in {"relin_key", "galois_key"} /\ o[4] = level
    BY DEF KeyObject, KeyKind, Object
  <1> HIDE DEF o
  <1>2. LimbsOf(o[1], o[4], resources[o].capacity) = Grid("key", 0 .. 2 * Len(KeyDigits(level)) - 1, Mods(FullIds(level)))
    BY <1>1, LimbsByKind
  <1>3. ASSUME NEW im \in Limbs(2 * Len(KeyDigits(level)), FullIds(level)) PROVE Allocated(resources, Limb(o, "key", im[1], im[2]))
    <2>1. <<"key", im[1], im[2]>> \in Grid("key", 0 .. 2 * Len(KeyDigits(level)) - 1, Mods(FullIds(level)))
      BY DEF Limbs, Grid
    <2> QED
      BY <2>1, <1>2, AllocatedLimb DEF o
  <1> QED
    BY <1>3 DEF HasKey, o

\* The constants are those of the level.
LEMMA ConstantsReady ==
  ASSUME NEW kind, NEW level, NEW resources, ConstantsObject(kind, level) \in DOMAIN resources
  PROVE  HasConstants(resources, ConstantsObject(kind, level), level)
  BY DEF HasConstants, ConstantsObject, Object

\* The tables of a rotation are there, and can be packed.
LEMMA FusedReady ==
  ASSUME ContextComplete, scheme \in {"ckks", "bfv"}, NEW element \in Elements, NEW level \in Levels, NEW resources,
         FusedObject(element, level) \in DOMAIN resources
  PROVE  HasFused(resources, FusedObject(element, level), level)
  <1> DEFINE o == FusedObject(element, level)
  <1>1. o[1] = "fused" /\ o[3] = element /\ o[4] = level
    BY DEF FusedObject, Object
  <1> HIDE DEF o
  <1>2. LimbsOf(o[1], o[4], resources[o].capacity) = Grid("intt", {0}, Mods(QIds(level)))
    BY <1>1, LimbsByKind
  <1>3. ASSUME NEW m \in Mods(QIds(level)) PROVE Allocated(resources, Limb(o, "intt", 0, m))
    <2>1. <<"intt", 0, m>> \in Grid("intt", {0}, Mods(QIds(level)))
      BY DEF Grid
    <2> QED
      BY <2>1, <1>2, AllocatedLimb DEF o
  <1>4. AllPack("fused", o[3], Grid("intt", {0}, Mods(QIds(level))))
    BY <1>1 DEF ContextComplete
  <1> QED
    BY <1>3, <1>4 DEF HasFused, o

\* The canonical tables have all moduli that an operation transforms under.
LEMMA TablesReady ==
  ASSUME scheme = "bfv", NEW resources, Canonical \in DOMAIN resources, NEW mods, mods \subseteq ModIds \ {TId}
  PROVE  HasTables(resources, mods)
  <1>1. Canonical[1] = "canonical"
    BY DEF Canonical, Object
  <1>2. LimbsOf(Canonical[1], Canonical[4], resources[Canonical].capacity) = BfvTables
    BY <1>1, LimbsByKind
  <1> SUFFICES ASSUME NEW m \in mods, NEW direction \in {"ntt", "intt"} PROVE Allocated(resources, Limb(Canonical, direction, 0, m))
    BY DEF HasTables
  <1>3. <<direction, 0, m>> \in BfvTables
    BY DEF BfvTables, Grid
  <1> QED
    BY <1>2, <1>3, AllocatedLimb

-----------------------------------------------------------------------------
(* What the plan is checked for.                                            *)

\* Every modulus of a level can be transformed under.
LEMMA LevelTables ==
  ASSUME ContextComplete, NEW level \in Levels
  PROVE  /\ BfvTablesOf(level) \subseteq ModIds \ {TId} /\ BfvMultiplyTablesOf(level) \subseteq ModIds \ {TId}
         /\ Mods(QIds(level)) \subseteq Mods(FullIds(level))
         /\ Len(QIds(level)) = level + 1 /\ Len(BIds(level)) >= Len(QIds(level))
  <1>1. level \in Nat
    BY LowerLevel
  <1> DEFINE q == QIds(level)
  <1>2. q = [k \in 1 .. level + 1 |-> k - 1]
    BY DEF QIds
  <1>3. q \in Seq(Int) /\ Len(q) = level + 1 /\ DOMAIN q = 1 .. level + 1
    BY <1>1, <1>2
  <1> HIDE DEF q
  <1>4. FullIds(level) = Append(q, PId)
    BY DEF FullIds, q
  <1>5. Sequence(q)
    <2> DEFINE T == Mods(q)
    <2>1. \A k \in DOMAIN q : q[k] \in T
      BY RangeOf
    <2> HIDE DEF T
    <2>2. q \in Seq(T)
      BY <1>3, <2>1
    <2> QED
      BY <2>2 DEF Sequence, T
  <1>6. Mods(q) \subseteq Mods(FullIds(level))
    <2> DEFINE f == FullIds(level)
    <2>1. \A k \in DOMAIN q : k \in DOMAIN f /\ f[k] = q[k]
      BY <1>3, <1>4, <1>5, Appended
    <2>2. Mods(q) = {q[k] : k \in DOMAIN q} /\ Mods(f) = {f[k] : k \in DOMAIN f}
      BY RangeOf
    <2> HIDE DEF f
    <2>3. Mods(q) \subseteq Mods(f)
      BY <2>1, <2>2
    <2> QED
      BY <2>3 DEF f
  <1> QED
    BY <1>3, <1>6 DEF ContextComplete, BfvTablesOf, BfvMultiplyTablesOf, q

\* One resource is large enough for every rescale at its level.
LEMMA RescaleLargeEnough ==
  ASSUME NEW i \in DOMAIN nodes, nodes[i].kind = "rescale", NEW level, nodes[i].level = NextLevel(level), nodes[i].comps \in {2, 3}
  PROVE  RescaleCapacity(level) >= nodes[i].comps
  BY DEF RescaleCapacity

\* Nothing that the builder recorded is refused by the plan.
LEMMA OperationAccepted ==
  ASSUME ContextComplete, CompileIInv, ImageRight, phase = "plan", NEW n \in DOMAIN nodes, n = Len(prepared) + 1,
         nodes[n].kind \in Computations, NEW resources, resources = ResourcesOf(image, nodes[n], prepared[nodes[n].inputs[1]].level)
  PROVE  LET v == nodes[n]
             a == prepared[v.inputs[1]]
             b == SecondOperand(v, a)
         IN  IF scheme = "ckks" THEN CkksAppends(resources, v, a, b) ELSE BfvAppends(resources, v, a, b)
  <1> DEFINE v == nodes[n]
             kind == v.kind
             i == v.inputs[1]
             j == v.inputs[2]
             x == nodes[i]
             y == nodes[j]
             a == prepared[i]
             b == SecondOperand(v, a)
             level == a.level
             constants == ConstantsObject(kind, level)
  <1>0. scheme \in {"ckks", "bfv"} /\ n \in 1 .. Len(prepared) + 1 /\ kind \in Computations
    BY Indexed DEF CompileIInv, NodesRight, PhasesRight
  <1>1. /\ Builds(scheme, v, x, y) /\ v.level \in Levels /\ v.comps \in {2, 3}
    BY Operands DEF CompileIInv, Built
  <1>2. /\ i \in DOMAIN prepared /\ a.level = x.level /\ a.comps = x.comps /\ (scheme = "ckks" => a.scale = x.scale)
        /\ Len(v.inputs) = 2 => /\ j \in DOMAIN prepared /\ prepared[j].level = y.level /\ prepared[j].comps = y.comps
                                /\ scheme = "ckks" => prepared[j].scale = y.scale
    BY <1>0, OperandsHeld
  <1>3. level \in Levels
    BY <1>2, HeldMetadata, Operands DEF CompileIInv, NodesRight, Built
  <1>4. kind = "rescale" => scheme = "ckks"
    <2> HIDE DEF v, x, y
    <2> QED
      BY <1>1 DEF Builds
  <1>5. /\ AllMade(resources) /\ Enlarges(resources, image, ResourceKinds)
        /\ WithPlain(kind) => PlainObject(v, level) \in DOMAIN resources
        /\ Switches(kind) => KeyObject(v, level) \in DOMAIN resources
        /\ ConstantsKind(kind) => constants \in DOMAIN resources
        /\ kind = "rotate" => FusedObject(v.element, level) \in DOMAIN resources
    BY <1>0, <1>4, Resources DEF ImageRight
  <1>6. HasValue(resources, a, a.comps)
    BY <1>2, <1>5, OperandReady
  <1>7. Len(v.inputs) = 2 => ~ WithPlain(kind)
    <2> HIDE DEF v, x, y
    <2> QED
      BY <1>0, <1>1 DEF Builds, Computations, WithPlain, kind
  <1>8. Len(v.inputs) = 2 => b = prepared[j] /\ HasValue(resources, b, y.comps) /\ b.level = y.level /\ (scheme = "ckks" => b.scale = y.scale)
    <2>1. Len(v.inputs) = 2 => b = prepared[j]
      BY <1>7 DEF SecondOperand
    <2> QED
      BY <2>1, <1>2, <1>5, OperandReady
  <1>9. WithPlain(kind) => /\ HasValue(resources, b, 1) /\ b.level = level /\ b.scale = Delta
                           /\ b.object[3] = Variant(kind)
    <2> SUFFICES ASSUME WithPlain(kind) PROVE <1>9!2
      OBVIOUS
    <2>1. b = Holds(PlainObject(v, level), level, 1, Delta)
      BY <1>7 DEF SecondOperand
    <2>2. PlainObject(v, level)[3] = Variant(kind)
      BY DEF PlainObject, Object
    <2> QED
      BY <2>1, <2>2, <1>0, <1>5, PlainReady DEF Holds
  <1>10. Len(v.inputs) = 1 /\ ~ WithPlain(kind) => b = a
    BY DEF SecondOperand
  <1>11. Switches(kind) => HasKey(resources, KeyObject(v, level), level) /\ ConstantsKind(kind)
    BY <1>0, <1>5, KeyReady DEF ConstantsKind
  <1>12. ConstantsKind(kind) => HasConstants(resources, constants, level)
    BY <1>5, ConstantsReady
  <1>13. kind = "rotate" => /\ HasFused(resources, FusedObject(v.element, level), level)
                            /\ v.element % 2 = 1 /\ v.element < Order
    <2> SUFFICES ASSUME kind = "rotate" PROVE <1>13!2
      OBVIOUS
    <2>1. v.element \in Elements
      <3> HIDE DEF v, x, y
      <3> QED
        BY <1>1 DEF Builds, kind
    <2> QED
      BY <2>1, <1>0, <1>3, <1>5, FusedReady DEF ContextComplete
  <1>14. scheme = "bfv" /\ Transforming("bfv", kind) =>
           HasTables(resources, BfvTablesOf(level)) /\ HasTables(resources, BfvMultiplyTablesOf(level))
    <2> SUFFICES ASSUME scheme = "bfv", Transforming("bfv", kind) PROVE <1>14!2
      OBVIOUS
    <2>1. RequiresTwiddles
      BY DEF RequiresTwiddles
    <2>2. Canonical \in DOMAIN image
      BY <2>1 DEF ImageRight
    <2>3. Canonical \in DOMAIN resources
      BY <2>2, <1>5 DEF Enlarges
    <2> QED
      BY <2>3, <1>3, LevelTables, TablesReady
  <1>15. kind = "rescale" => resources[constants].capacity >= a.comps
    <2> SUFFICES ASSUME kind = "rescale" PROVE <1>15!2
      OBVIOUS
    <2>1. constants[1] = "rescale" /\ constants[4] = level
      BY DEF ConstantsObject, Object, Switches
    <2>2. constants \in DOMAIN resources
      BY <1>4, <1>5 DEF ConstantsKind
    <2>3. MadeFor(constants, resources[constants].capacity)
      BY <2>2, <1>5 DEF AllMade
    <2> HIDE DEF constants
    <2>4. resources[constants].capacity = RescaleCapacity(level)
      BY <2>1, <2>3 DEF MadeFor
    <2>5. v.level = NextLevel(level) /\ v.comps = a.comps
      <3> HIDE DEF v, x, y
      <3> QED
        BY <1>1, <1>2 DEF Builds, kind
    <2> QED
      BY <2>4, <2>5, <1>1, RescaleLargeEnough
  <1>16. kind = "mod_switch" => resources[constants].capacity >= a.comps
    <2> SUFFICES ASSUME kind = "mod_switch" PROVE <1>16!2
      OBVIOUS
    <2>1. constants[1] = "mod_switch"
      BY DEF ConstantsObject, Object, Switches
    <2>2. a.comps = 2 /\ scheme = "bfv"
      <3> HIDE DEF v, x, y
      <3> QED
        BY <1>1, <1>2 DEF Builds, kind
    <2>3. constants \in DOMAIN resources
      BY <2>2, <1>5 DEF ConstantsKind
    <2>4. MadeFor(constants, resources[constants].capacity)
      BY <2>3, <1>5 DEF AllMade
    <2> HIDE DEF constants
    <2> QED
      BY <2>1, <2>2, <2>4 DEF MadeFor
  <1>17. Len(QIds(level)) = level + 1 /\ Len(BIds(level)) >= Len(QIds(level)) /\ level \in Nat
    BY <1>3, LevelTables, LowerLevel
  <1> DEFINE Accepted == IF scheme = "ckks" THEN CkksAppends(resources, v, a, b) ELSE BfvAppends(resources, v, a, b)
  <1>18. v.kind = kind /\ level = a.level /\ constants = ConstantsObject(v.kind, a.level)
    OBVIOUS
  <1> SUFFICES Accepted
    OBVIOUS
  <1> HIDE DEF v, kind, x, y, a, b, level, constants
  <1>19. CASE kind \in {"add", "sub"}
    BY <1>0, <1>1, <1>2, <1>6, <1>8, <1>18, <1>19
       DEF Builds, CkksAppends, BfvAppends, CkksSum, BfvSum, ScalesCompatible
  <1>20. CASE kind = "multiply"
    <2>1. CASE scheme = "ckks"
      BY <2>1, <1>1, <1>2, <1>6, <1>8, <1>18, <1>20 DEF Builds, CkksAppends, CkksProduct
    <2>2. CASE scheme = "bfv"
      <3>1. /\ HasTables(resources, BfvMultiplyTablesOf(level)) /\ HasConstants(resources, constants, level)
            /\ Len(QIds(level)) >= 2
        BY <2>2, <1>1, <1>2, <1>12, <1>14, <1>17, <1>18, <1>20 DEF Builds, Transforming, ConstantsKind
      <3>2. constants = ConstantsObject("multiply", level)
        BY <1>18, <1>20
      <3> QED
        BY <2>2, <3>1, <3>2, <1>1, <1>2, <1>6, <1>8, <1>17, <1>18, <1>20 DEF Builds, BfvAppends, BfvTensor
    <2> QED BY <2>1, <2>2, <1>0
  <1>21. CASE kind = "square"
    <2>1. CASE scheme = "ckks"
      BY <2>1, <1>1, <1>2, <1>6, <1>18, <1>21 DEF Builds, CkksAppends, CkksSquare
    <2>2. CASE scheme = "bfv"
      <3>1. /\ HasTables(resources, BfvMultiplyTablesOf(level)) /\ HasConstants(resources, constants, level)
            /\ Len(QIds(level)) >= 2
        BY <2>2, <1>1, <1>2, <1>12, <1>14, <1>17, <1>18, <1>21 DEF Builds, Transforming, ConstantsKind
      <3>2. constants = ConstantsObject("multiply", level)
        BY <1>18, <1>21 DEF ConstantsObject, Switches
      <3>3. b = a
        BY <1>1, <1>10, <1>18, <1>21 DEF Builds, WithPlain
      <3> QED
        BY <2>2, <3>1, <3>2, <3>3, <1>1, <1>2, <1>6, <1>17, <1>18, <1>21 DEF Builds, BfvAppends, BfvTensor
    <2> QED BY <2>1, <2>2, <1>0
  <1>22. CASE kind = "negate"
    BY <1>0, <1>1, <1>2, <1>6, <1>18, <1>22 DEF Builds, CkksAppends, BfvAppends, CkksNegation, BfvNegation
  <1>23. CASE kind \in {"add_plain", "sub_plain"}
    <2>1. HasValue(resources, b, 1) /\ b.level = level /\ b.scale = Delta /\ b.object[3] = 0
      BY <1>9, <1>23 DEF WithPlain, Variant
    <2> QED
      BY <2>1, <1>0, <1>1, <1>2, <1>6, <1>18, <1>23
         DEF Builds, CkksAppends, BfvAppends, CkksPlainSum, CkksPlainProduct, BfvPlainSum, ScalesCompatible
  <1>24. CASE kind = "multiply_plain"
    <2>1. HasValue(resources, b, 1) /\ b.level = level /\ (scheme = "bfv" => b.object[3] = 1)
      BY <1>9, <1>24 DEF WithPlain, Variant
    <2>2. scheme = "bfv" => HasTables(resources, BfvTablesOf(level))
      BY <1>14, <1>24 DEF Transforming
    <2> QED
      BY <2>1, <2>2, <1>0, <1>1, <1>2, <1>6, <1>18, <1>24
         DEF Builds, CkksAppends, BfvAppends, CkksPlainProduct, BfvPlainMultiplication
  <1>25. CASE kind = "relinearize"
    <2>1. HasKey(resources, KeyObject(v, level), level) /\ HasConstants(resources, ConstantsObject("relinearize", level), level)
      BY <1>11, <1>12, <1>18, <1>25 DEF Switches
    <2>2. scheme = "bfv" => HasTables(resources, BfvTablesOf(level))
      BY <1>14, <1>25 DEF Transforming
    <2> QED
      BY <2>1, <2>2, <1>0, <1>1, <1>2, <1>6, <1>18, <1>25
         DEF Builds, CkksAppends, BfvAppends, CkksRelinearization, BfvRelinearization
  <1>26. CASE kind = "rescale"
    <2>1. HasConstants(resources, ConstantsObject("rescale", level), level) /\ resources[ConstantsObject("rescale", level)].capacity >= a.comps
      BY <1>4, <1>12, <1>15, <1>18, <1>26 DEF ConstantsKind
    <2> QED
      BY <2>1, <1>1, <1>2, <1>6, <1>18, <1>26 DEF Builds, CkksAppends, CkksRescaling, HasNextLevel
  <1>27. CASE kind = "mod_switch"
    <2>1. scheme = "bfv"
      BY <1>1, <1>18, <1>27 DEF Builds
    <2>2. HasConstants(resources, ConstantsObject("mod_switch", level), level) /\ resources[ConstantsObject("mod_switch", level)].capacity >= a.comps
      BY <2>1, <1>12, <1>16, <1>18, <1>27 DEF ConstantsKind
    <2> QED
      BY <2>1, <2>2, <1>1, <1>2, <1>6, <1>18, <1>27 DEF Builds, BfvAppends, BfvModSwitching, HasNextLevel
  <1>28. CASE kind = "rotate"
    <2>1. HasKey(resources, KeyObject(v, level), level) /\ HasConstants(resources, ConstantsObject("rotate", level), level)
      BY <1>11, <1>12, <1>18, <1>28 DEF Switches
    <2>2. scheme = "bfv" => HasTables(resources, BfvTablesOf(level))
      BY <1>14, <1>28 DEF Transforming
    <2>3. a.comps = 2
      BY <1>1, <1>2, <1>18, <1>28 DEF Builds
    <2> QED
      BY <2>1, <2>2, <2>3, <1>0, <1>6, <1>13, <1>18, <1>28 DEF CkksAppends, BfvAppends, CkksGalois, BfvGalois
  <1> QED
    BY <1>0, <1>19, <1>20, <1>21, <1>22, <1>23, <1>24, <1>25, <1>26, <1>27, <1>28 DEF Computations

-----------------------------------------------------------------------------
(* The image grows with the plan.                                           *)

\* The kinds of the objects of an operation.
LEMMA StepKinds ==
  ASSUME ContextComplete, CompileIInv, NEW k \in DOMAIN steps
  PROVE  LET n == steps[k].node
             v == nodes[n]
             level == prepared[v.inputs[1]].level
         IN  /\ n \in DOMAIN prepared /\ k \in 1 .. Len(steps)
             /\ steps[k].at.out[1] = "output" /\ steps[k].at.out[2] = n
             /\ steps[k].at.work # NoObject =>
                  /\ steps[k].at.work[1] = "workspace"
                  /\ \/ steps[k].at.work[2] = n /\ steps[k].at.work[3] # 0
                     \/ steps[k].at.work[2] = k - 1 /\ steps[k].at.work[3] = 0
  <1> DEFINE n == steps[k].node
             v == nodes[n]
             a == prepared[v.inputs[1]]
  <1>1. n \in DOMAIN prepared /\ k \in 1 .. Len(steps)
    BY StepMetadata, Indexed DEF CompileIInv, PhasesRight
  <1>2. steps[k] = StepOf(n, v, a, SecondOperand(v, a), k - 1) /\ Builds(scheme, v, nodes[v.inputs[1]], nodes[v.inputs[2]])
    BY StepPlaces
  <1>3. steps[k].at.out[1] = "output" /\ steps[k].at.out[2] = n
    BY StepMetadata DEF OutputObject, Object
  <1>4. steps[k].at.work = WorkspaceObject(n, v, a.level, k - 1)
    BY <1>2 DEF StepOf, Place
  <1>5. v.kind = "rotate" => v.element # 0
    <2> SUFFICES ASSUME v.kind = "rotate" PROVE v.element # 0
      OBVIOUS
    <2>1. v.element \in Elements
      <3> HIDE DEF v
      <3> QED
        BY <1>2 DEF Builds
    <2>2. v.element % 2 = 1
      BY <2>1 DEF ContextComplete
    <2> QED
      BY <2>2
  <1> HIDE DEF v, a, n
  <1>6. WorkspaceObject(n, v, a.level, k - 1) # NoObject =>
          LET work == WorkspaceObject(n, v, a.level, k - 1)
          IN  work[1] = "workspace" /\ ((work[2] = n /\ work[3] # 0) \/ (work[2] = k - 1 /\ work[3] = 0))
    BY <1>5 DEF WorkspaceObject, Object
  <1> QED
    BY <1>1, <1>3, <1>4, <1>6 DEF n

\* The output and the workspace of the next operation are new.
LEMMA NewObjects ==
  ASSUME ContextComplete, CompileIInv, ImageRight, NEW n \in DOMAIN nodes, n = Len(prepared) + 1, nodes[n].kind \in Computations,
         NEW resources, Enlarges(resources, image, ResourceKinds), NEW level, NEW at
  PROVE  /\ OutputObject(n, level) \notin DOMAIN resources
         /\ AllMade(resources) => WorkspaceObject(n, nodes[n], at, Len(steps)) \notin DOMAIN resources
  <1> DEFINE v == nodes[n]
             out == OutputObject(n, level)
             work == WorkspaceObject(n, v, at, Len(steps))
  <1>0. Len(prepared) \in Nat /\ DOMAIN prepared = 1 .. Len(prepared)
    BY Indexed DEF CompileIInv, PhasesRight
  <1>1. out[1] = "output" /\ out[2] = n
    BY DEF OutputObject, Object
  <1>2. out \notin DOMAIN resources
    <2> SUFFICES ASSUME out \in DOMAIN resources PROVE FALSE
      OBVIOUS
    <2> HIDE DEF out
    <2>1. out \in DOMAIN image
      BY <1>1 DEF Enlarges, ResourceKinds
    <2>2. PICK k \in DOMAIN steps : out = steps[k].at.out
      BY <1>1, <2>1 DEF ImageRight, AllMade, MadeFor
    <2>3. steps[k].node = n /\ steps[k].node \in DOMAIN prepared
      BY <1>1, <2>2, StepKinds
    <2> QED
      BY <2>3, <1>0
  <1>3. ASSUME AllMade(resources) PROVE work \notin DOMAIN resources
    <2> SUFFICES ASSUME work \in DOMAIN resources PROVE FALSE
      OBVIOUS
    <2>1. work # NoObject
      <3>1. work[1] # "none"
        BY <1>3 DEF AllMade, MadeFor
      <3> QED
        BY <3>1 DEF NoObject, Object
    <2>2. v.kind = "rotate" => v.element # 0
      <3>1. Builds(scheme, v, nodes[v.inputs[1]], nodes[v.inputs[2]])
        BY Operands DEF CompileIInv, Built
      <3>2. v.kind = "rotate" => v.element \in Elements
        <4> HIDE DEF v
        <4> QED
          BY <3>1 DEF Builds
      <3>3. v.element \in Elements => v.element % 2 = 1
        BY DEF ContextComplete
      <3>4. 0 % 2 = 0
        OBVIOUS
      <3> QED
        BY <3>2, <3>3, <3>4
    <2> HIDE DEF v
    <2>3. /\ work[1] = "workspace"
          /\ \/ work[2] = n /\ work[3] # 0
             \/ work[2] = Len(steps) /\ work[3] = 0
      BY <2>1, <2>2 DEF WorkspaceObject, Object
    <2> HIDE DEF work
    <2>4. work \in DOMAIN image
      BY <2>3 DEF Enlarges, ResourceKinds
    <2>5. PICK k \in DOMAIN steps : work = steps[k].at.work
      BY <2>3, <2>4 DEF ImageRight, AllMade, MadeFor
    <2>6. /\ steps[k].node \in DOMAIN prepared /\ k \in 1 .. Len(steps)
          /\ \/ work[2] = steps[k].node /\ work[3] # 0
             \/ work[2] = k - 1 /\ work[3] = 0
      BY <2>1, <2>5, StepKinds
    <2>7. work[2] # n
      BY <2>3, <2>6, <1>0
    <2>8. work[2] = Len(steps) /\ work[2] = k - 1
      BY <2>3, <2>6, <2>7
    <2> QED
      BY <2>6, <2>8
  <1> QED
    BY <1>2, <1>3

\* What an object was made for stays.
LEMMA MadeForKept ==
  ASSUME UNCHANGED nodes, \A k \in DOMAIN steps : k \in DOMAIN steps' /\ steps'[k] = steps[k],
         NEW o, NEW capacity, MadeFor(o, capacity)
  PROVE  MadeFor(o, capacity)'
  <1>1. RescaleCapacity(o[4])' = RescaleCapacity(o[4])
    BY DEF RescaleCapacity
  <1>2. o[1] = "output" => \E k \in DOMAIN steps' : o = steps'[k].at.out /\ capacity = steps'[k].outComps
    <2> SUFFICES ASSUME o[1] = "output" PROVE <1>2!2
      OBVIOUS
    <2>1. PICK k \in DOMAIN steps : o = steps[k].at.out /\ capacity = steps[k].outComps
      BY DEF MadeFor
    <2> QED
      BY <2>1
  <1>3. o[1] = "workspace" => \E k \in DOMAIN steps' : o = steps'[k].at.work /\ capacity = steps'[k].comps
    <2> SUFFICES ASSUME o[1] = "workspace" PROVE <1>3!2
      OBVIOUS
    <2>1. PICK k \in DOMAIN steps : o = steps[k].at.work /\ capacity = steps[k].comps
      BY DEF MadeFor
    <2> QED
      BY <2>1
  <1> QED
    BY <1>1, <1>2, <1>3 DEF MadeFor

\* What else a step needs besides its output and its workspace is there.
LEMMA NeedsReady ==
  ASSUME CompileIInv, ImageRight, NEW n \in DOMAIN nodes, n = Len(prepared) + 1, nodes[n].kind \in Computations,
         NEW a, a = prepared[nodes[n].inputs[1]], NEW resources, resources = ResourcesOf(image, nodes[n], a.level),
         NEW k, NEW b, b = SecondOperand(nodes[n], a)
  PROVE  /\ AllMade(resources) /\ Enlarges(resources, image, ResourceKinds)
         /\ LET step == StepOf(n, nodes[n], a, b, k)
            IN  Needs(step) \subseteq DOMAIN resources \cup {step.at.out} \cup (IF step.at.work = NoObject THEN {} ELSE {step.at.work})
  <1> DEFINE v == nodes[n]
             i == v.inputs[1]
             j == v.inputs[2]
             level == a.level
             constants == ConstantsObject(v.kind, level)
             step == StepOf(n, v, a, b, k)
  <1>0. scheme \in {"ckks", "bfv"} /\ n \in 1 .. Len(prepared) + 1
    BY Indexed DEF CompileIInv, NodesRight, PhasesRight
  <1>1. Builds(scheme, v, nodes[i], nodes[j])
    BY Operands DEF CompileIInv, Built
  <1>2. i \in DOMAIN prepared /\ (Len(v.inputs) = 2 => j \in DOMAIN prepared)
    BY <1>0, OperandsHeld
  <1>3. v.kind = "rescale" => scheme = "ckks"
    <2> HIDE DEF v, i, j
    <2> QED
      BY <1>1 DEF Builds
  <1>4. /\ AllMade(resources) /\ Enlarges(resources, image, ResourceKinds)
        /\ WithPlain(v.kind) => PlainObject(v, level) \in DOMAIN resources
        /\ Switches(v.kind) => KeyObject(v, level) \in DOMAIN resources
        /\ ConstantsKind(v.kind) => constants \in DOMAIN resources
        /\ v.kind = "rotate" => FusedObject(v.element, level) \in DOMAIN resources
    BY <1>0, <1>3, Resources DEF ImageRight
  <1>5. ASSUME NEW l \in DOMAIN prepared PROVE prepared[l].object \in DOMAIN resources
    BY <1>4 DEF ImageRight, Enlarges
  <1>6. b.object \in DOMAIN resources
    <2>1. Len(v.inputs) = 2 => ~ WithPlain(v.kind)
      <3> HIDE DEF v, i, j
      <3>1. v.kind \in Computations
        BY DEF v
      <3> QED
        BY <1>1, <3>1 DEF Builds, Computations, WithPlain
    <2>2. \/ Len(v.inputs) = 2 /\ b = prepared[j]
          \/ WithPlain(v.kind) /\ b.object = PlainObject(v, level)
          \/ b = a
      <3> HIDE DEF v
      <3>1. b = SecondOperand(v, a) /\ level = a.level /\ j = v.inputs[2]
        BY DEF v
      <3> HIDE DEF level, j
      <3> QED
        BY <2>1, <3>1 DEF SecondOperand, Holds
    <2>3. a.object \in DOMAIN resources
      BY <1>2, <1>5
    <2>4. Len(v.inputs) = 2 => prepared[j].object \in DOMAIN resources
      BY <1>2, <1>5
    <2> HIDE DEF v, j, level
    <2> QED
      BY <2>2, <2>3, <2>4, <1>4
  <1>7. a.object \in DOMAIN resources
    BY <1>2, <1>5
  <1> HIDE DEF v, i, j, level, constants
  <1>8. /\ step.kind = v.kind /\ step.at.left = a.object /\ step.at.right = b.object
        /\ step.at.key = KeyObject(v, level) /\ step.at.constants = constants /\ step.at.fused = FusedObject(v.element, level)
    BY DEF StepOf, Place, level, constants
  <1> HIDE DEF step
  <1>9. Needs(step) \subseteq DOMAIN resources \cup {step.at.out} \cup (IF step.at.work = NoObject THEN {} ELSE {step.at.work})
    BY <1>4, <1>6, <1>7, <1>8 DEF Needs
  <1> QED
    BY <1>4, <1>9 DEF v, step

\* Planning an operation finds or makes all that it needs.
LEMMA OperationPlanned ==
  ASSUME ContextComplete, CompileIInv, ImageRight, phase = "plan", Len(prepared) < Len(nodes), UNCHANGED <<frontend, oracle>>,
         NEW n, n = Len(prepared) + 1, nodes[n].kind \in Computations, PlanOperation(n)
  PROVE  phase' = phase /\ ImageRight'
  <1> DEFINE v == nodes[n]
             a == prepared[v.inputs[1]]
             b == SecondOperand(v, a)
             level == PlannedLevel(v, a)
             comps == PlannedComponents(v, a)
             out == OutputObject(n, level)
             work == WorkspaceObject(n, v, a.level, Len(steps))
             resources == ResourcesOf(image, v, a.level)
             h == Holds(out, level, comps, PlannedScale(v, a, b))
             s == StepOf(n, v, a, b, Len(steps))
             withOut == Cached(resources, out, comps, "none")
             whole == CachedIf(withOut, work # NoObject, work, a.comps, "none")
  <1>0. n \in DOMAIN nodes /\ n \in 1 .. Len(prepared) + 1
    BY Indexed DEF CompileIInv, NodesRight, PhasesRight
  <1>1. IF scheme = "ckks" THEN CkksAppends(resources, v, a, b) ELSE BfvAppends(resources, v, a, b)
    BY <1>0, OperationAccepted
  <1>2. /\ AllMade(resources) /\ Enlarges(resources, image, ResourceKinds)
        /\ Needs(s) \subseteq DOMAIN resources \cup {out} \cup (IF work = NoObject THEN {} ELSE {work})
    <2>1. s.at.out = out /\ s.at.work = work
      BY DEF StepOf, Place
    <2> QED
      BY <2>1, <1>0, NeedsReady
  <1>3. out \notin DOMAIN resources /\ work \notin DOMAIN resources
    BY <1>0, <1>2, NewObjects
  <1>4. image' = whole /\ steps' = Append(steps, s) /\ prepared' = Append(prepared, h) /\ phase' = phase
    <2>1. \E found \in {resources} :
            IF /\ IF scheme = "ckks" THEN CkksAppends(found, v, a, b) ELSE BfvAppends(found, v, a, b)
               /\ {out, work} \cap DOMAIN found = {}
            THEN /\ image' = CachedIf(Cached(found, out, comps, "none"), work # NoObject, work, a.comps, "none")
                 /\ steps' = Append(steps, s) /\ prepared' = Append(prepared, h) /\ UNCHANGED phase
            ELSE phase' = "rejected" /\ UNCHANGED <<image, steps, prepared>>
      BY Zenon DEF PlanOperation, ResourcesOf
    <2>2. {out, work} \cap DOMAIN resources = {}
      BY <1>3
    <2> HIDE DEF v, a, b, level, comps, out, work, resources, h, s
    <2> QED
      BY <2>1, <2>2, <1>1
  <1>5. Extends(h)
    BY <1>4 DEF Extends
  <1>6. /\ nodes' = nodes /\ scheme' = scheme
        /\ DOMAIN prepared' = 1 .. Len(prepared) + 1 /\ prepared'[n] = h
        /\ DOMAIN prepared = 1 .. Len(prepared) /\ Len(prepared) \in Nat
        /\ \A i \in DOMAIN prepared : i \in DOMAIN prepared' /\ prepared'[i] = prepared[i]
        /\ Len(steps) \in Nat /\ DOMAIN steps = 1 .. Len(steps)
        /\ \A k \in DOMAIN steps : k \in DOMAIN steps' /\ steps'[k] = steps[k]
    BY <1>4, <1>5, Extension, Zenon
  <1>7. /\ DOMAIN steps' = 1 .. Len(steps) + 1 /\ steps'[Len(steps) + 1] = s
    <2>1. Sequence(steps) /\ steps' = Append(steps, s)
      BY <1>4 DEF CompileIInv, PhasesRight
    <2> HIDE DEF s
    <2> QED
      BY <2>1, Appended
  <1>8. s.at.out = out /\ s.at.work = work /\ s.outComps = comps /\ s.comps = a.comps /\ h.object = out
    BY DEF StepOf, Place, Holds
  <1>9. comps = v.comps
    BY <1>0, PlannedMetadata
  <1>10. out[1] = "output" /\ (work # NoObject => work[1] = "workspace")
    <2> HIDE DEF v, a
    <2> QED
      BY DEF OutputObject, WorkspaceObject, Object
  <1>11. v' = v
    BY <1>6
  <1> HIDE DEF v, a, b, level, comps, out, work, resources, h, s
  <1>12. /\ DOMAIN withOut = DOMAIN resources \cup {out}
         /\ \A x \in DOMAIN resources : withOut[x] = resources[x]
         /\ withOut[out].capacity = comps
    <2> HIDE DEF withOut, whole
    <2>1. withOut = Cached(resources, out, comps, "none")
      BY DEF withOut
    <2> QED
      BY <2>1, <1>3 DEF Cached, Stored
  <1>13. work # out
    <2>1. NoObject[1] = "none"
      BY DEF NoObject, Object
    <2> QED
      BY <2>1, <1>10
  <1>14. /\ DOMAIN image' = DOMAIN resources \cup {out} \cup (IF work # NoObject THEN {work} ELSE {})
         /\ \A x \in DOMAIN resources : image'[x] = resources[x]
         /\ image'[out].capacity = comps
         /\ work # NoObject => image'[work].capacity = a.comps
    <2>1. image' = whole
      BY <1>4
    <2> HIDE DEF withOut
    <2>2. CASE work # NoObject
      <3>1. whole = Cached(withOut, work, a.comps, "none")
        BY <2>2 DEF CachedIf
      <3> HIDE DEF whole
      <3>2. /\ DOMAIN whole = DOMAIN withOut \cup {work}
            /\ \A x \in DOMAIN withOut : whole[x] = withOut[x]
            /\ work \notin DOMAIN withOut => whole[work].capacity = a.comps
        BY <3>1 DEF Cached, Stored
      <3> QED
        BY <2>1, <2>2, <3>2, <1>3, <1>12, <1>13
    <2>3. CASE work = NoObject
      <3>1. whole = withOut
        BY <2>3 DEF CachedIf
      <3> QED
        BY <2>1, <2>3, <3>1, <1>12
    <2> QED BY <2>2, <2>3
  <1> HIDE DEF withOut, whole
  <1>15. AllMade(image)'
    <2>1. ASSUME NEW o \in DOMAIN image', NEW capacity, capacity = image'[o].capacity PROVE MadeFor(o, capacity)'
      <3>1. CASE o \in DOMAIN resources
        <4>1. MadeFor(o, capacity)
          BY <2>1, <3>1, <1>2, <1>14 DEF AllMade
        <4> QED
          BY <4>1, <1>6, MadeForKept
      <3>2. Len(steps) + 1 \in DOMAIN steps'
        BY <1>6, <1>7
      <3>3. CASE o = out
        <4>1. \E k \in DOMAIN steps' : o = steps'[k].at.out /\ capacity = steps'[k].outComps
          BY <2>1, <3>2, <3>3, <1>7, <1>8, <1>14
        <4> QED
          BY <3>3, <4>1, <1>10 DEF MadeFor
      <3>4. CASE o = work /\ work # NoObject
        <4>1. \E k \in DOMAIN steps' : o = steps'[k].at.work /\ capacity = steps'[k].comps
          BY <2>1, <3>2, <3>4, <1>7, <1>8, <1>14
        <4> QED
          BY <3>4, <4>1, <1>10 DEF MadeFor
      <3> QED
        BY <1>14, <3>1, <3>3, <3>4
    <2> QED
      BY <2>1 DEF AllMade
  <1>16. DOMAIN image \subseteq DOMAIN image' /\ \A o \in DOMAIN image : image'[o] = image[o]
    BY <1>2, <1>14 DEF Enlarges
  <1>17. ASSUME NEW i \in DOMAIN prepared'
         PROVE  prepared'[i].object \in DOMAIN image' /\ image'[prepared'[i].object].capacity = nodes'[i].comps
    <2>1. CASE i = n
      BY <2>1, <1>6, <1>8, <1>9, <1>14 DEF v
    <2>2. CASE i # n
      <3>1. i \in DOMAIN prepared /\ prepared'[i] = prepared[i]
        BY <2>2, <1>6
      <3> QED
        BY <3>1, <1>6, <1>16 DEF ImageRight
    <2> QED BY <2>1, <2>2
  <1>18. ASSUME NEW step PROVE Needs(step)' = Needs(step)
    BY <1>6 DEF Needs, ConstantsKind
  <1>19. ASSUME NEW k \in DOMAIN steps' PROVE Needs(steps'[k]) \subseteq DOMAIN image'
    <2>1. CASE k = Len(steps) + 1
      BY <2>1, <1>2, <1>7, <1>14, <1>18
    <2>2. CASE k # Len(steps) + 1
      <3>1. k \in DOMAIN steps /\ steps'[k] = steps[k]
        BY <2>2, <1>6, <1>7
      <3> QED
        BY <3>1, <1>16, <1>18 DEF ImageRight
    <2> QED BY <2>1, <2>2
  <1>20. RequiresTwiddles' = RequiresTwiddles
    BY <1>6 DEF RequiresTwiddles
  <1>21. ImageRight'
    BY <1>4, <1>15, <1>16, <1>17, <1>18, <1>19, <1>20 DEF ImageRight
  <1> QED
    BY <1>4, <1>21

\* What is in the image stays, as long as it was made for the same things.
LEMMA ImageGrown ==
  ASSUME CompileIInv, ImageRight, UNCHANGED <<frontend, steps>>, phase' = phase, phase # "build",
         DOMAIN image \subseteq DOMAIN image', \A o \in DOMAIN image : image'[o] = image[o],
         \A o \in DOMAIN image' \ DOMAIN image : MadeFor(o, image'[o].capacity),
         \A i \in DOMAIN prepared' : prepared'[i].object \in DOMAIN image' /\ image'[prepared'[i].object].capacity = nodes[i].comps
  PROVE  ImageRight'
  <1>1. nodes' = nodes /\ scheme' = scheme /\ steps' = steps
    BY DEF frontend
  <1>2. ASSUME NEW o \in DOMAIN image', NEW capacity, capacity = image'[o].capacity PROVE MadeFor(o, capacity)'
    <2>1. MadeFor(o, capacity)
      BY <1>2 DEF ImageRight, AllMade
    <2> QED
      BY <2>1, <1>1, MadeForKept
  <1>3. AllMade(image)'
    BY <1>2 DEF AllMade
  <1>4. ASSUME NEW step PROVE Needs(step)' = Needs(step)
    BY <1>1 DEF Needs, ConstantsKind
  <1>5. \A k \in DOMAIN steps' : Needs(steps[k])' \subseteq DOMAIN image'
    <2> SUFFICES ASSUME NEW k \in DOMAIN steps PROVE Needs(steps[k])' \subseteq DOMAIN image'
      BY <1>1
    <2>1. Needs(steps[k]) \subseteq DOMAIN image
      BY DEF ImageRight
    <2>2. Needs(steps[k])' = Needs(steps[k])
      BY <1>1 DEF Needs, ConstantsKind
    <2> QED
      BY <2>1, <2>2
  <1>6. RequiresTwiddles' = RequiresTwiddles
    BY <1>1 DEF RequiresTwiddles
  <1> QED
    BY <1>1, <1>3, <1>5, <1>6 DEF ImageRight

\* An import is made, or found if the same data was imported before.
LEMMA InputPlanned ==
  ASSUME CompileIInv, ImageRight, phase = "plan", Len(prepared) < Len(nodes), UNCHANGED <<frontend, oracle>>, phase' = phase,
         NEW n, n = Len(prepared) + 1, nodes[n].kind = "input", PlanInput(n)
  PROVE  ImageRight' /\ prepared'[n].object[1] = "input"
  <1> DEFINE v == nodes[n]
             First(i) == /\ nodes[i].kind = "input" /\ nodes[i].data = nodes[n].data
                         /\ \A j \in 1 .. i - 1 : nodes[j].kind = "input" => nodes[j].data # nodes[n].data
             first == CHOOSE i \in DOMAIN nodes : First(i)
             object == Object("input", first, 0, v.level)
             h == Holds(object, v.level, v.comps, v.scale)
  <1>0. /\ n \in DOMAIN nodes /\ Len(nodes) \in Nat /\ DOMAIN nodes = 1 .. Len(nodes)
        /\ Len(prepared) \in Nat /\ DOMAIN prepared = 1 .. Len(prepared)
    BY Indexed DEF CompileIInv, NodesRight, PhasesRight
  <1>1. \E i \in DOMAIN nodes : First(i)
    <2> DEFINE S == {i \in DOMAIN nodes : nodes[i].kind = "input" /\ nodes[i].data = nodes[n].data}
    <2>1. n \in S /\ S \in SUBSET Nat
      BY <1>0
    <2>2. PICK i \in S : \A j \in S : i <= j
      <3> HIDE DEF S
      <3> QED
        BY <2>1, LeastNumber
    <2>3. \A j \in 1 .. i - 1 : nodes[j].kind = "input" => nodes[j].data # nodes[n].data
      <3> SUFFICES ASSUME NEW j \in 1 .. i - 1, nodes[j].kind = "input", nodes[j].data = nodes[n].data PROVE FALSE
        OBVIOUS
      <3>1. i \in 1 .. Len(nodes)
        BY <2>2, <1>0
      <3>2. j \in 1 .. Len(nodes) /\ j < i
        BY <3>1, <1>0
      <3>3. j \in S
        BY <3>2, <1>0
      <3> QED
        BY <2>2, <3>1, <3>2, <3>3
    <2> QED
      BY <2>2, <2>3
  <1>2. first \in DOMAIN nodes /\ First(first)
    <2> HIDE DEF First
    <2> QED
      BY <1>1
  <1>3. nodes[first].comps = v.comps
    BY <1>0, <1>2, Operands DEF CompileIInv, Built
  <1>4. image' = Cached(image, object, v.comps, v.data) /\ prepared' = Append(prepared, h) /\ steps' = steps
    <2> HIDE DEF First
    <2> QED
      BY Zenon DEF PlanInput, First
  <1>5. object[1] = "input" /\ object[2] = first /\ h.object = object
    BY DEF Object, Holds
  <1> HIDE DEF First, first, object, h, v
  <1>6. /\ DOMAIN image' = DOMAIN image \cup {object}
        /\ \A x \in DOMAIN image : image'[x] = image[x]
        /\ object \notin DOMAIN image => image'[object].capacity = v.comps
    BY <1>4 DEF Cached, Stored
  <1>7. MadeFor(object, v.comps)
    BY <1>3, <1>5 DEF MadeFor
  <1>8. image'[object].capacity = v.comps
    <2>1. object \in DOMAIN image => MadeFor(object, image[object].capacity)
      BY DEF ImageRight, AllMade
    <2>2. object \in DOMAIN image => image[object].capacity = v.comps
      BY <2>1, <1>3, <1>5 DEF MadeFor
    <2> QED
      BY <2>2, <1>6
  <1>9. /\ DOMAIN prepared' = 1 .. Len(prepared) + 1 /\ prepared'[n] = h
        /\ \A i \in DOMAIN prepared : prepared'[i] = prepared[i]
    BY <1>4, Appended DEF CompileIInv, PhasesRight
  <1>10. ASSUME NEW i \in DOMAIN prepared'
         PROVE  prepared'[i].object \in DOMAIN image' /\ image'[prepared'[i].object].capacity = nodes[i].comps
    <2>1. CASE i = n
      BY <2>1, <1>5, <1>6, <1>8, <1>9 DEF v
    <2>2. CASE i # n
      <3>1. i \in DOMAIN prepared /\ prepared'[i] = prepared[i]
        BY <2>2, <1>0, <1>9
      <3> QED
        BY <3>1, <1>6 DEF ImageRight
    <2> QED BY <2>1, <2>2
  <1>11. \A o \in DOMAIN image' \ DOMAIN image : MadeFor(o, image'[o].capacity)
    BY <1>6, <1>7, <1>8
  <1> QED
    BY <1>4, <1>5, <1>6, <1>9, <1>10, <1>11, ImageGrown

\* A view has the object of its value.
LEMMA ViewPlanned ==
  ASSUME CompileIInv, ImageRight, phase = "plan", Len(prepared) < Len(nodes), UNCHANGED <<frontend, oracle>>, phase' = phase,
         NEW n, n = Len(prepared) + 1, nodes[n].kind \in Views, PlanView(n)
  PROVE  ImageRight' /\ prepared'[n].object = prepared[nodes[n].inputs[1]].object
  <1> DEFINE v == nodes[n]
             j == v.inputs[1]
             h == [prepared[j] EXCEPT !.scale = v.scale]
  <1>0. /\ n \in DOMAIN nodes /\ Len(prepared) \in Nat /\ DOMAIN prepared = 1 .. Len(prepared)
    BY Indexed DEF CompileIInv, NodesRight, PhasesRight
  <1>1. prepared' = Append(prepared, h) /\ image' = image /\ steps' = steps
    BY DEF PlanView
  <1>2. Built(scheme, nodes, v, n) /\ j \in 1 .. n - 1 /\ j \in DOMAIN prepared /\ v.kind = "scale_view"
    BY <1>0, Operands DEF CompileIInv, Views
  <1>3. v.comps = nodes[j].comps
    BY <1>2 DEF Built, Builds
  <1>4. h.object = prepared[j].object
    <2>1. prepared[j] = Holds(prepared[j].object, nodes[j].level, nodes[j].comps, prepared[j].scale)
      BY <1>2, HeldMetadata
    <2> QED
      BY <2>1 DEF Holds
  <1> HIDE DEF h
  <1>5. /\ DOMAIN prepared' = 1 .. Len(prepared) + 1 /\ prepared'[n] = h
        /\ \A i \in DOMAIN prepared : prepared'[i] = prepared[i]
    BY <1>1, Appended DEF CompileIInv, PhasesRight
  <1>6. ASSUME NEW i \in DOMAIN prepared'
        PROVE  prepared'[i].object \in DOMAIN image /\ image[prepared'[i].object].capacity = nodes[i].comps
    <2>1. CASE i = n
      BY <2>1, <1>2, <1>3, <1>4, <1>5 DEF ImageRight
    <2>2. CASE i # n
      <3>1. i \in DOMAIN prepared /\ prepared'[i] = prepared[i]
        BY <2>2, <1>0, <1>5
      <3> QED
        BY <3>1 DEF ImageRight
    <2> QED BY <2>1, <2>2
  <1> QED
    BY <1>1, <1>4, <1>5, <1>6, ImageGrown

\* Nothing is in the image before the graph is compiled.
LEMMA ImageBuilt ==
  ASSUME CompileIInv, ImageRight, Build
  PROVE  ImageRight' /\ phase' = "build"
  <1>1. /\ phase = "build" /\ phase' = "build" /\ UNCHANGED <<prepared, steps, image>>
    BY Zenon DEF Build, compiled, FrontendNext, Called, ImportCiphertext, ImportPlaintext, Binary, Square, NegateValue,
       RescaleToNext, ModSwitchToNext, Plain, Relinearize, Rotation, SetScale, MarkOutput
  <1>2. prepared = << >> /\ steps = << >> /\ DOMAIN image = {}
    BY <1>1 DEF CompileIInv, PhasesRight, ImageRight
  <1>3. DOMAIN prepared' = {} /\ DOMAIN steps' = {} /\ DOMAIN image' = {}
    BY <1>1, <1>2
  <1> QED
    BY <1>1, <1>3 DEF ImageRight, AllMade

\* The tables come first, and fit into memory.
LEMMA ImageCompiled ==
  ASSUME ContextComplete, CompileIInv, ImageRight, Compile
  PROVE  ImageRight' /\ phase' = "oracle"
  <1>1. /\ phase = "build" /\ UNCHANGED <<frontend, prepared, steps>>
        /\ image' = CachedIf(image, RequiresTwiddles, Canonical, 0, "none")
        /\ phase' = IF RequiresTwiddles => AllPack("canonical", 0, LimbsOf("canonical", 0, 0)) THEN "oracle" ELSE "rejected"
    BY DEF Compile
  <1>2. prepared = << >> /\ steps = << >> /\ DOMAIN image = {}
    BY <1>1 DEF CompileIInv, PhasesRight, ImageRight
  <1>3. AllPack("canonical", 0, LimbsOf("canonical", 0, 0))
    <2>1. LimbsOf("canonical", 0, 0) \subseteq CkksTables \cup BfvTables
      BY LimbsByKind DEF CompileIInv, NodesRight
    <2> QED
      BY <2>1 DEF ContextComplete, AllPack
  <1>4. phase' = "oracle"
    BY <1>1, <1>3
  <1>5. DOMAIN prepared' = {} /\ DOMAIN steps' = {}
    BY <1>1, <1>2
  <1>6. RequiresTwiddles' = RequiresTwiddles
    BY <1>1 DEF RequiresTwiddles, frontend
  <1>7. DOMAIN image' = IF RequiresTwiddles THEN {Canonical} ELSE {}
    BY <1>1, <1>2 DEF CachedIf, Cached
  <1>8. ASSUME NEW o \in DOMAIN image', NEW capacity PROVE MadeFor(o, capacity)'
    <2>1. o = Canonical /\ o[1] = "canonical"
      BY <1>7 DEF Canonical, Object
    <2> QED
      BY <2>1 DEF MadeFor
  <1>9. AllMade(image)'
    BY <1>8 DEF AllMade
  <1> QED
    BY <1>4, <1>5, <1>6, <1>7, <1>9 DEF ImageRight

-----------------------------------------------------------------------------
(* What is behind a view.                                                   *)

\* What one step back along the views gives.
Back(values, f, i) == IF values[i].kind \in Views THEN f[values[i].inputs[1]] ELSE i
\* Every view is of an earlier value.
ViewsBefore(values) == Sequence(values) /\ \A i \in DOMAIN values : values[i].kind \in Views => values[i].inputs[1] \in 1 .. i - 1
\* The physical values of a graph.
OriginsOf(values) == CHOOSE f : f = [i \in DOMAIN values |-> Back(values, f, i)]

\* The origins of the first m values.
LEMMA OriginsExist ==
  ASSUME NEW values, ViewsBefore(values), NEW m \in 0 .. Len(values)
  PROVE  \E f : f = [i \in 1 .. m |-> Back(values, f, i)]
  <1> DEFINE Defined(k) == \E f : f = [i \in 1 .. k |-> Back(values, f, i)]
             S == {k \in 0 .. Len(values) : ~ Defined(k)}
  <1>0. Len(values) \in Nat /\ DOMAIN values = 1 .. Len(values)
    BY Indexed DEF ViewsBefore
  <1> SUFFICES ASSUME S # {} PROVE FALSE
    OBVIOUS
  <1>1. PICK k \in S : \A l \in S : k <= l
    <2>1. S \in SUBSET Nat
      BY <1>0
    <2> HIDE DEF S
    <2> QED
      BY <2>1, LeastNumber
  <1>2. k \in 0 .. Len(values) /\ ~ Defined(k) /\ \A l \in 0 .. Len(values) : l < k => Defined(l)
    <2> HIDE DEF Defined
    <2>1. k \in 0 .. Len(values) /\ ~ Defined(k)
      BY <1>1
    <2>2. ASSUME NEW l \in 0 .. Len(values), l < k PROVE Defined(l)
      <3>1. l \in S => k <= l
        BY <1>1
      <3> QED
        BY <2>2, <3>1, <1>0, <2>1
    <2> QED
      BY <2>1, <2>2
  <1>3. CASE k = 0
    <2> DEFINE f == [i \in 1 .. 0 |-> 0]
    <2>1. f = [i \in 1 .. 0 |-> Back(values, f, i)]
      <3> HIDE DEF f
      <3>1. f = [i \in 1 .. 0 |-> 0]
        BY DEF f
      <3> QED
        BY <3>1
    <2> QED
      BY <2>1, <1>2, <1>3
  <1>4. CASE k > 0
    <2>1. k - 1 \in 0 .. Len(values) /\ k - 1 < k
      BY <1>0, <1>2, <1>4
    <2>2. PICK f : f = [i \in 1 .. k - 1 |-> Back(values, f, i)]
      BY <1>2, <2>1
    <2> DEFINE g == [i \in 1 .. k |-> IF i < k THEN f[i] ELSE Back(values, f, k)]
    <2>3. \A i \in 1 .. k - 1 : f[i] = Back(values, f, i)
      BY <2>2
    <2>4. ASSUME NEW i \in 1 .. k PROVE g[i] = Back(values, g, i)
      <3>1. values[i].kind \in Views => values[i].inputs[1] \in 1 .. i - 1
        BY <1>0, <1>2 DEF ViewsBefore
      <3>2. Back(values, g, i) = Back(values, f, i)
        <4>1. values[i].kind \in Views => g[values[i].inputs[1]] = f[values[i].inputs[1]]
          <5> SUFFICES ASSUME values[i].kind \in Views PROVE g[values[i].inputs[1]] = f[values[i].inputs[1]]
            OBVIOUS
          <5> DEFINE j == values[i].inputs[1]
          <5>1. j \in 1 .. k /\ j < k
            BY <3>1, <1>2
          <5> HIDE DEF j
          <5>2. g[j] = f[j]
            BY <5>1
          <5> QED
            BY <5>2 DEF j
        <4> HIDE DEF g
        <4> QED
          BY <4>1 DEF Back
      <3>3. CASE i < k
        <4>1. i \in 1 .. k - 1 /\ g[i] = f[i]
          BY <3>3, <1>2
        <4> HIDE DEF g
        <4> QED
          BY <4>1, <2>3, <3>2
      <3>4. CASE i = k
        <4>1. g[i] = Back(values, f, i)
          BY <3>4, <1>2
        <4> HIDE DEF g
        <4> QED
          BY <4>1, <3>2
      <3> QED
        BY <3>3, <3>4, <1>2
    <2>5. g = [i \in 1 .. k |-> Back(values, g, i)]
      <3> DEFINE h == [i \in 1 .. k |-> Back(values, g, i)]
      <3>1. \E u : g = [i \in 1 .. k |-> u[i]]
        <4> DEFINE w == [i \in 1 .. k |-> IF i < k THEN f[i] ELSE Back(values, f, k)]
        <4>1. g = [i \in 1 .. k |-> w[i]]
          OBVIOUS
        <4> QED
          BY <4>1
      <3> HIDE DEF g
      <3> QED
        BY <2>4, <3>1
    <2> QED
      BY <2>5, <1>2
  <1> QED
    BY <1>2, <1>3, <1>4

\* What is behind a view is behind what it is a view of.
LEMMA OriginBack ==
  ASSUME NEW values, ViewsBefore(values), NEW n \in DOMAIN values
  PROVE  OriginsOf(values)[n] = Back(values, OriginsOf(values), n)
  <1>0. Len(values) \in Nat /\ DOMAIN values = 1 .. Len(values)
    BY Indexed DEF ViewsBefore
  <1>1. \E f : f = [i \in DOMAIN values |-> Back(values, f, i)]
    BY <1>0, OriginsExist
  <1>2. OriginsOf(values) = [i \in DOMAIN values |-> Back(values, OriginsOf(values), i)]
    BY <1>1 DEF OriginsOf
  <1> DEFINE origins == OriginsOf(values)
  <1>3. origins = [i \in DOMAIN values |-> Back(values, origins, i)]
    BY <1>2
  <1> HIDE DEF origins
  <1>4. origins[n] = Back(values, origins, n)
    BY <1>3
  <1> QED
    BY <1>4 DEF origins

\* It is a value of the graph, and later values do not change it.
LEMMA OriginKept ==
  ASSUME NEW values, ViewsBefore(values), NEW others, ViewsBefore(others),
         \A i \in DOMAIN values : i \in DOMAIN others /\ others[i] = values[i], NEW n \in DOMAIN values
  PROVE  OriginsOf(values)[n] \in DOMAIN values /\ OriginsOf(others)[n] = OriginsOf(values)[n]
  <1> DEFINE f == OriginsOf(values)
             g == OriginsOf(others)
             Same(k) == f[k] \in DOMAIN values /\ g[k] = f[k]
             S == {k \in DOMAIN values : ~ Same(k)}
  <1>0. Len(values) \in Nat /\ DOMAIN values = 1 .. Len(values)
    BY Indexed DEF ViewsBefore
  <1>1. ASSUME NEW k \in DOMAIN values PROVE f[k] = Back(values, f, k) /\ g[k] = Back(others, g, k)
    BY OriginBack
  <1> HIDE DEF f, g
  <1> SUFFICES ASSUME S # {} PROVE FALSE
    BY DEF f, g
  <1>2. PICK k \in S : \A l \in S : k <= l
    <2>1. S \in SUBSET Nat
      BY <1>0
    <2> HIDE DEF S
    <2> QED
      BY <2>1, LeastNumber
  <1>3. k \in DOMAIN values /\ ~ Same(k) /\ \A l \in 1 .. k - 1 : Same(l)
    <2> HIDE DEF Same
    <2>1. k \in DOMAIN values /\ ~ Same(k)
      BY <1>2
    <2>2. ASSUME NEW l \in 1 .. k - 1 PROVE Same(l)
      <3>1. l \in DOMAIN values /\ l < k
        BY <1>0, <2>1
      <3>2. l \in S => k <= l
        BY <1>2
      <3> QED
        BY <3>1, <3>2, <1>0, <2>1
    <2> QED
      BY <2>1, <2>2
  <1>4. others[k] = values[k]
    BY <1>3
  <1>5. CASE values[k].kind \in Views
    <2> DEFINE j == values[k].inputs[1]
    <2>1. Same(j)
      BY <1>3, <1>5 DEF ViewsBefore
    <2>2. f[k] = f[j] /\ g[k] = g[j]
      BY <1>1, <1>3, <1>4, <1>5 DEF Back
    <2> HIDE DEF j
    <2> QED
      BY <2>1, <2>2, <1>3
  <1>6. CASE values[k].kind \notin Views
    BY <1>1, <1>3, <1>4, <1>6 DEF Back
  <1> QED
    BY <1>5, <1>6

\* The graph that is recorded has such views.
LEMMA ViewsRecorded == ASSUME NodesRight PROVE ViewsBefore(nodes)
  BY Operands DEF NodesRight, ViewsBefore, Views

\* An index among those of a graph is the last one that something holds of.
LEMMA GreatestNumber ==
  ASSUME NEW N \in Nat, NEW S \in SUBSET (1 .. N), S # {}
  PROVE  \E x \in S : \A y \in S : y <= x
  <1> DEFINE T == {z \in Nat : N - z \in S}
  <1>1. T # {}
    <2>1. PICK y \in S : TRUE
      OBVIOUS
    <2>2. N - y \in Nat /\ N - (N - y) = y
      BY <2>1
    <2> QED
      BY <2>2
  <1>2. PICK z \in T : \A w \in T : z <= w
    <2>1. T \in SUBSET Nat
      OBVIOUS
    <2> HIDE DEF T
    <2> QED
      BY <1>1, <2>1, LeastNumber
  <1>3. ASSUME NEW y \in S PROVE y <= N - z
    <2>1. N - y \in Nat /\ N - (N - y) = y
      BY <1>3
    <2>2. z <= N - y
      BY <1>2, <2>1
    <2> QED
      BY <2>1, <2>2
  <1> QED
    BY <1>2, <1>3

\* The physical value behind each value, in a state and after a step.
LEMMA OriginHere == ASSUME NEW n PROVE PhysicalOrigin(n) = OriginsOf(nodes)[n] /\ PhysicalOrigin(n)' = OriginsOf(nodes')[n]
  BY DEF PhysicalOrigin, OriginsOf, Back

\* No mark is on an import.
MarksRight ==
  /\ Sequence(marked)
  /\ \A n \in Mods(marked) : n \in DOMAIN nodes /\ nodes[PhysicalOrigin(n)].kind # "input"

\* What the plan holds as an import is one, or a view of one.
OriginsHeld == \A i \in DOMAIN prepared : prepared[i].object[1] = "input" => nodes[PhysicalOrigin(i)].kind = "input"

\* The elements of a list that one is appended to.
LEMMA AppendedElements ==
  ASSUME NEW s, Sequence(s), NEW e
  PROVE  Sequence(Append(s, e)) /\ Mods(Append(s, e)) = Mods(s) \cup {e}
  <1> DEFINE r == Append(s, e)
  <1>1. /\ Sequence(r) /\ DOMAIN r = 1 .. Len(s) + 1 /\ r[Len(s) + 1] = e /\ \A i \in DOMAIN s : r[i] = s[i]
        /\ Len(s) \in Nat /\ DOMAIN s = 1 .. Len(s)
    BY Appended, Indexed
  <1>2. Mods(r) = {r[i] : i \in DOMAIN r} /\ Mods(s) = {s[i] : i \in DOMAIN s}
    BY RangeOf
  <1> HIDE DEF r
  <1>3. ASSUME NEW x \in Mods(r) PROVE x \in Mods(s) \cup {e}
    <2>1. PICK i \in 1 .. Len(s) + 1 : x = r[i]
      BY <1>1, <1>2
    <2>2. CASE i = Len(s) + 1
      BY <2>1, <2>2, <1>1
    <2>3. CASE i # Len(s) + 1
      <3>1. i \in DOMAIN s
        BY <2>3, <1>1
      <3> QED
        BY <2>1, <3>1, <1>1, <1>2
    <2> QED BY <2>2, <2>3
  <1>4. ASSUME NEW x \in Mods(s) PROVE x \in Mods(r)
    <2>1. PICK i \in DOMAIN s : x = s[i]
      BY <1>2
    <2>2. i \in DOMAIN r /\ r[i] = x
      BY <2>1, <1>1
    <2> QED
      BY <2>2, <1>2
  <1>5. e \in Mods(r)
    <2>1. Len(s) + 1 \in DOMAIN r
      BY <1>1
    <2> QED
      BY <2>1, <1>1, <1>2
  <1> QED
    BY <1>1, <1>3, <1>4, <1>5 DEF r

\* A value of the graph keeps its origin.
LEMMA OriginStays ==
  ASSUME NodesRight, NodesRight', \A i \in DOMAIN nodes : i \in DOMAIN nodes' /\ nodes'[i] = nodes[i], NEW n \in DOMAIN nodes
  PROVE  /\ PhysicalOrigin(n) \in DOMAIN nodes /\ PhysicalOrigin(n)' = PhysicalOrigin(n)
         /\ nodes'[PhysicalOrigin(n)'] = nodes[PhysicalOrigin(n)]
  <1>1. ViewsBefore(nodes)
    BY ViewsRecorded
  <1>2. ViewsBefore(nodes')
    <2>1. Sequence(nodes') /\ \A i \in DOMAIN nodes' : Built(scheme', nodes', nodes'[i], i)
      BY DEF NodesRight
    <2> QED
      BY <2>1 DEF Built, ViewsBefore, Views
  <1>3. OriginsOf(nodes)[n] \in DOMAIN nodes /\ OriginsOf(nodes')[n] = OriginsOf(nodes)[n]
    BY <1>1, <1>2, OriginKept
  <1> QED
    BY <1>3, OriginHere

\* The graph grows under the marks.
LEMMA MarksKept == ASSUME NodesRight, MarksRight, Build PROVE MarksRight'
  <1>1. NodesRight'
    BY FrontendRight DEF Build
  <1>2. \/ nodes' = nodes
        \/ \E v : nodes' = Append(nodes, v)
    BY Zenon DEF Build, FrontendNext, Called, Commit, ImportCiphertext, ImportPlaintext, Binary, Square, NegateValue,
       RescaleToNext, ModSwitchToNext, Plain, Relinearize, Rotation, SetScale, MarkOutput
  <1>3. \A i \in DOMAIN nodes : i \in DOMAIN nodes' /\ nodes'[i] = nodes[i]
    <2>1. CASE nodes' = nodes
      BY <2>1
    <2>2. ASSUME NEW v, nodes' = Append(nodes, v) PROVE <1>3
      <3>1. Sequence(nodes) /\ Len(nodes) \in Nat /\ DOMAIN nodes = 1 .. Len(nodes)
        BY Indexed DEF NodesRight
      <3>2. DOMAIN nodes' = 1 .. Len(nodes) + 1 /\ \A i \in DOMAIN nodes : nodes'[i] = nodes[i]
        BY <2>2, <3>1, Appended
      <3> QED
        BY <3>1, <3>2
    <2> QED
      BY <1>2, <2>1, <2>2
  <1>4. ASSUME NEW n \in DOMAIN nodes, nodes[PhysicalOrigin(n)].kind # "input"
        PROVE  n \in DOMAIN nodes' /\ nodes'[PhysicalOrigin(n)'].kind # "input"
    BY <1>1, <1>3, <1>4, OriginStays
  <1>5. CASE marked' = marked
    BY <1>4, <1>5 DEF MarksRight
  <1>6. ASSUME NEW i \in DOMAIN nodes, nodes[PhysicalOrigin(i)].kind # "input", marked' = Append(marked, i)
        PROVE  MarksRight'
    <2>1. Sequence(marked') /\ Mods(marked') = Mods(marked) \cup {i}
      BY <1>6, AppendedElements DEF MarksRight
    <2> QED
      BY <2>1, <1>4, <1>6 DEF MarksRight
  <1>7. marked' = marked \/ \E i \in DOMAIN nodes : nodes[PhysicalOrigin(i)].kind # "input" /\ marked' = Append(marked, i)
    BY Zenon DEF Build, FrontendNext, ImportCiphertext, ImportPlaintext, Binary, Square, NegateValue,
       RescaleToNext, ModSwitchToNext, Plain, Relinearize, Rotation, SetScale, MarkOutput
  <1> QED
    BY <1>5, <1>6, <1>7

\* The plan holds an import only for imports and their views.
LEMMA OriginsPlanned ==
  ASSUME CompileIInv, OriginsHeld, UNCHANGED <<frontend>>, NEW n \in DOMAIN nodes, n = Len(prepared) + 1,
         NEW h, prepared' = Append(prepared, h),
         \/ nodes[n].kind = "input"
         \/ nodes[n].kind \in Views /\ h.object = prepared[nodes[n].inputs[1]].object
         \/ h.object[1] # "input"
  PROVE  OriginsHeld'
  <1>1. nodes' = nodes
    BY DEF frontend
  <1>2. Sequence(prepared) /\ Len(prepared) \in Nat /\ DOMAIN prepared = 1 .. Len(prepared)
    BY Indexed DEF CompileIInv, PhasesRight
  <1>3. /\ DOMAIN prepared' = 1 .. Len(prepared) + 1 /\ prepared'[n] = h
        /\ \A i \in DOMAIN prepared : prepared'[i] = prepared[i]
    BY <1>2, Appended
  <1>4. ASSUME NEW i PROVE PhysicalOrigin(i)' = PhysicalOrigin(i)
    BY <1>1, OriginHere
  <1>5. PhysicalOrigin(n) = IF nodes[n].kind \in Views THEN PhysicalOrigin(nodes[n].inputs[1]) ELSE n
    <2>1. ViewsBefore(nodes)
      BY ViewsRecorded DEF CompileIInv
    <2>2. OriginsOf(nodes)[n] = Back(nodes, OriginsOf(nodes), n)
      BY <2>1, OriginBack
    <2> QED
      BY <2>2, OriginHere DEF Back
  <1>6. h.object[1] = "input" => nodes[PhysicalOrigin(n)].kind = "input"
    <2>1. CASE nodes[n].kind = "input"
      BY <2>1, <1>5 DEF Views
    <2>2. CASE nodes[n].kind \in Views /\ h.object = prepared[nodes[n].inputs[1]].object
      <3>1. nodes[n].inputs[1] \in DOMAIN prepared
        BY <2>2, <1>2, Operands DEF CompileIInv, Views
      <3> QED
        BY <2>2, <3>1, <1>5 DEF OriginsHeld
    <2> QED
      BY <2>1, <2>2
  <1>7. ASSUME NEW i \in DOMAIN prepared', prepared'[i].object[1] = "input" PROVE nodes'[PhysicalOrigin(i)'].kind = "input"
    <2>1. CASE i = n
      BY <2>1, <1>1, <1>3, <1>4, <1>6, <1>7
    <2>2. CASE i # n
      <3>1. i \in DOMAIN prepared /\ prepared'[i] = prepared[i]
        BY <2>2, <1>2, <1>3
      <3> QED
        BY <3>1, <1>1, <1>4, <1>7 DEF OriginsHeld
    <2> QED BY <2>1, <2>2
  <1> QED
    BY <1>7 DEF OriginsHeld

\* Without marks there is a latest view of the last computation.
LEMMA DefaultOutput ==
  ASSUME CompileIInv, phase # "build", marked = << >>
  PROVE  \E n \in DOMAIN nodes : Mods(OutputIndices) = {n} /\ nodes[PhysicalOrigin(n)].kind \in Computations
  <1>0. Len(nodes) \in Nat /\ DOMAIN nodes = 1 .. Len(nodes)
    BY Indexed DEF CompileIInv, NodesRight
  <1> DEFINE computations == {i \in 1 .. Len(nodes) : nodes[i].kind \in Computations}
             IsLast(i) == nodes[i].kind \in Computations /\ \A j \in i + 1 .. Len(nodes) : nodes[j].kind \notin Computations
             last == LastComputation
             views == {i \in 1 .. Len(nodes) : PhysicalOrigin(i) = last}
             IsLatest(i) == PhysicalOrigin(i) = last /\ \A j \in i + 1 .. Len(nodes) : PhysicalOrigin(j) # last
  <1>1. \E i \in DOMAIN nodes : IsLast(i)
    <2>1. computations # {}
      BY <1>0 DEF CompileIInv, PhasesRight
    <2>2. PICK i \in computations : \A j \in computations : j <= i
      <3> DEFINE S == computations
      <3>1. S \in SUBSET (1 .. Len(nodes))
        OBVIOUS
      <3> HIDE DEF S
      <3>2. S # {}
        BY <2>1 DEF S
      <3>3. \E i \in S : \A j \in S : j <= i
        BY <3>1, <3>2, <1>0, GreatestNumber
      <3> QED
        BY <3>3 DEF S
    <2>3. ASSUME NEW j \in i + 1 .. Len(nodes), nodes[j].kind \in Computations PROVE FALSE
      <3>1. j \in computations
        BY <2>2, <2>3, <1>0
      <3> QED
        BY <2>2, <2>3, <3>1, <1>0
    <2> QED
      BY <2>2, <2>3, <1>0
  <1>2. last \in DOMAIN nodes /\ IsLast(last)
    <2>1. last = CHOOSE i \in DOMAIN nodes : IsLast(i)
      BY DEF LastComputation
    <2> HIDE DEF IsLast, last
    <2> QED
      BY <2>1, <1>1
  <1>3. PhysicalOrigin(last) = last
    <2>1. OriginsOf(nodes)[last] = Back(nodes, OriginsOf(nodes), last)
      BY <1>2, ViewsRecorded, OriginBack DEF CompileIInv
    <2>2. nodes[last].kind \notin Views
      BY <1>2 DEF Computations, Views
    <2> QED
      BY <2>1, <2>2, OriginHere DEF Back
  <1> HIDE DEF last
  <1>4. \E i \in DOMAIN nodes : IsLatest(i)
    <2>1. views # {}
      BY <1>0, <1>2, <1>3
    <2>2. PICK i \in views : \A j \in views : j <= i
      <3> DEFINE S == views
      <3>1. S \in SUBSET (1 .. Len(nodes))
        OBVIOUS
      <3> HIDE DEF S
      <3>2. S # {}
        BY <2>1 DEF S
      <3>3. \E i \in S : \A j \in S : j <= i
        BY <3>1, <3>2, <1>0, GreatestNumber
      <3> QED
        BY <3>3 DEF S
    <2>3. ASSUME NEW j \in i + 1 .. Len(nodes), PhysicalOrigin(j) = last PROVE FALSE
      <3>1. j \in views
        BY <2>2, <2>3, <1>0
      <3> QED
        BY <2>2, <2>3, <3>1, <1>0
    <2> QED
      BY <2>2, <2>3, <1>0
  <1> DEFINE newest == CHOOSE i \in DOMAIN nodes : IsLatest(i)
  <1>5. newest \in DOMAIN nodes /\ IsLatest(newest)
    <2> HIDE DEF IsLatest
    <2> QED
      BY <1>4
  <1>6. OutputIndices = <<newest>>
    BY DEF OutputIndices, last
  <1> HIDE DEF newest
  <1> QED
    BY <1>2, <1>5, <1>6, Single

\* Every export is the output of a step.
LEMMA ExportsProduced ==
  ASSUME CompileIInv, MarksRight, OriginsHeld, phase = "package", NEW delivery \in Deliveries
  PROVE  \E k \in DOMAIN steps : delivery[1] = steps[k].at.out
  <1>1. PICK n \in Mods(OutputIndices) : delivery = <<prepared[n].object, nodes[n].scale>>
    BY DEF Deliveries
  <1>2. n \in DOMAIN nodes /\ nodes[PhysicalOrigin(n)].kind # "input"
    <2>1. CASE marked # << >>
      BY <1>1, <2>1 DEF OutputIndices, MarksRight
    <2>2. CASE marked = << >>
      <3>1. "input" \notin Computations
        BY DEF Computations
      <3> QED
        BY <1>1, <2>2, <3>1, DefaultOutput
    <2> QED BY <2>1, <2>2
  <1>3. n \in DOMAIN prepared /\ Holding(n)
    BY <1>2, Indexed DEF CompileIInv, NodesRight, PhasesRight, AfterPlan, Planning
  <1>4. prepared[n].object[1] # "input"
    BY <1>2, <1>3 DEF OriginsHeld
  <1>5. PICK k \in DOMAIN steps :
          prepared[n].object = OutputObject(steps[k].node, nodes[n].level) /\ nodes[steps[k].node].level = nodes[n].level
    BY <1>3, <1>4 DEF Holding
  <1>6. steps[k].at.out = prepared[n].object
    BY <1>5, StepMetadata
  <1> QED
    BY <1>1, <1>6

\* Steps have the metadata of their values.
LEMMA MetadataRight == ASSUME CompileIInv, NEW k \in DOMAIN steps PROVE MetadataAgrees(steps[k])
  <1>1. steps[k].node \in DOMAIN prepared
    BY StepMetadata
  <1> QED
    BY <1>1, HeldMetadata DEF MetadataAgrees, ScalesCompatible

-----------------------------------------------------------------------------
(* The ports of a program.                                                  *)

\* The limbs that an operation has at each place.
LEMMA ReachOf ==
  ASSUME NEW sch \in {"ckks", "bfv"}, sch = scheme, NEW kind, NEW level, NEW comps, NEW shape, shape = <<sch, <<kind, level, comps>> >>
  PROVE  /\ Reach(shape)["left"] = Grid("c", 0 .. comps - 1, Mods(QIds(level)))
         /\ Reach(shape)["right"] = Grid("c", 0 .. (IF WithPlain(kind) THEN 1 ELSE comps) - 1, Mods(QIds(level)))
         /\ Reach(shape)["out"] = Grid("c", 0 .. PlannedComponents([kind |-> kind], [comps |-> comps]) - 1,
                                       Mods(QIds(PlannedLevel([kind |-> kind], [level |-> level]))))
         /\ Reach(shape)["work"] = IF kind = "rotate" \/ (sch = "ckks" /\ kind \in {"relinearize", "rescale"})
                                   THEN Grid("c", 0 .. comps - 1, Mods(QIds(level))) ELSE {}
         /\ Reach(shape)["key"] = IF Switches(kind) THEN LimbsOf(KeyKind(kind), level, 0) ELSE {}
         /\ Reach(shape)["constants"] = IF ConstantsKind(kind) \/ (kind = "mod_switch")
                                       THEN LimbsOf(ConstantsObject(kind, level)[1], level, comps) ELSE {}
         /\ Reach(shape)["fused"] = IF kind = "rotate" THEN LimbsOf("fused", level, 0) ELSE {}
         /\ Reach(shape)["canonical"] = IF Transforming(sch, kind) THEN LimbsOf("canonical", level, 0) ELSE {}
  <1>1. shape[1] = sch /\ shape[2][1] = kind /\ shape[2][2] = level /\ shape[2][3] = comps
    OBVIOUS
  <1>2. Places = {"left", "right", "out", "work", "key", "constants", "fused", "canonical"}
    BY DEF Places
  <1> DEFINE S == shape[1]
             K == shape[2][1]
             L == shape[2][2]
             N == shape[2][3]
             values(count, at) == Grid("c", 0 .. count - 1, Mods(QIds(at)))
             limbs(o, capacity) == IF S = "ckks" THEN CkksLimbs(o, L, capacity) ELSE BfvLimbs(o, L, capacity)
             At(place) ==
               CASE place = "left" -> values(N, L)
                 [] place = "right" -> values(IF WithPlain(K) THEN 1 ELSE N, L)
                 [] place = "out" -> values(PlannedComponents([kind |-> K], [comps |-> N]), PlannedLevel([kind |-> K], [level |-> L]))
                 [] place = "work" -> IF K = "rotate" \/ (S = "ckks" /\ K \in {"relinearize", "rescale"}) THEN values(N, L) ELSE {}
                 [] place = "key" -> IF Switches(K) THEN limbs(KeyKind(K), 0) ELSE {}
                 [] place = "constants" ->
                      IF Switches(K) \/ K \in {"rescale", "mod_switch"} \/ (S = "bfv" /\ K \in {"multiply", "square"})
                      THEN limbs(ConstantsObject(K, L)[1], N) ELSE {}
                 [] place = "fused" -> IF K = "rotate" THEN limbs("fused", 0) ELSE {}
                 [] place = "canonical" -> IF Transforming(S, K) THEN limbs("canonical", 0) ELSE {}
  <1>3. Reach(shape) = [place \in Places |-> At(place)]
    BY Zenon DEF Reach
  <1>4. ASSUME NEW o, NEW capacity PROVE limbs(o, capacity) = LimbsOf(o, L, capacity)
    BY <1>1 DEF LimbsOf
  <1>5. (Switches(K) \/ K \in {"rescale", "mod_switch"} \/ (S = "bfv" /\ K \in {"multiply", "square"}))
        <=> (ConstantsKind(K) \/ K = "mod_switch")
    BY <1>1 DEF ConstantsKind
  <1> HIDE DEF limbs
  <1>6. \A place \in Places : Reach(shape)[place] = At(place)
    <2> HIDE DEF At
    <2> QED
      BY <1>3
  <1> HIDE DEF values
  <1>7. /\ At("left") = values(N, L)
        /\ At("right") = values(IF WithPlain(K) THEN 1 ELSE N, L)
        /\ At("out") = values(PlannedComponents([kind |-> K], [comps |-> N]), PlannedLevel([kind |-> K], [level |-> L]))
        /\ At("work") = IF K = "rotate" \/ (S = "ckks" /\ K \in {"relinearize", "rescale"}) THEN values(N, L) ELSE {}
        /\ At("key") = IF Switches(K) THEN limbs(KeyKind(K), 0) ELSE {}
        /\ At("constants") =
             IF Switches(K) \/ K \in {"rescale", "mod_switch"} \/ (S = "bfv" /\ K \in {"multiply", "square"})
             THEN limbs(ConstantsObject(K, L)[1], N) ELSE {}
        /\ At("fused") = IF K = "rotate" THEN limbs("fused", 0) ELSE {}
        /\ At("canonical") = IF Transforming(S, K) THEN limbs("canonical", 0) ELSE {}
    OBVIOUS
  <1> HIDE DEF At
  <1>8. \A place \in {"left", "right", "out", "work", "key", "constants", "fused", "canonical"} : Reach(shape)[place] = At(place)
    BY <1>2, <1>6
  <1>9. \A count, at : values(count, at) = Grid("c", 0 .. count - 1, Mods(QIds(at)))
    BY DEF values
  <1>10. S = sch /\ K = kind /\ L = level /\ N = comps
    BY <1>1
  <1> HIDE DEF S, K, L, N
  <1> QED
    BY <1>4, <1>5, <1>7, <1>8, <1>9, <1>10

\* More components have more limbs.
LEMMA RescaleLimbsGrow ==
  ASSUME NEW level, NEW small \in Nat, NEW large \in Nat, small <= large
  PROVE  RescaleLimbs(level, small) \subseteq RescaleLimbs(level, large)
  <1>1. 0 .. small - 1 \subseteq 0 .. large - 1
    OBVIOUS
  <1>2. Grid("rounded", 0 .. small - 1, Mods(QIds(level))) \subseteq Grid("rounded", 0 .. large - 1, Mods(QIds(level)))
    BY <1>1 DEF Grid
  <1> DEFINE q == Mods(QIds(level))
             kept == Mods(QIds(NextLevel(level)))
             before == Grid("half", {0}, q) \cup Grid("last_inverse", {0}, kept)
                       \cup BconvConstants("drop_inverse", "drop_factor", 0, <<Dropped(level)>>, kept)
             after == Grid("normalized", {0}, {0})
             last == Grid("correction", {0}, kept)
  <1>3. \A capacity : RescaleLimbs(level, capacity) = before \cup Grid("rounded", 0 .. capacity - 1, q) \cup after \cup last
    BY Zenon DEF RescaleLimbs
  <1> HIDE DEF before, after, last
  <1> QED
    BY <1>2, <1>3

\* A workspace belongs to one step.
LEMMA OwnWorkspace ==
  ASSUME ContextComplete, CompileIInv, NEW j \in DOMAIN steps, NEW k \in DOMAIN steps,
         steps[j].at.work = steps[k].at.work, steps[k].at.work # NoObject
  PROVE  j = k
  <1> DEFINE work == steps[k].at.work
  <1>1. /\ steps[j].node \in DOMAIN prepared /\ j \in 1 .. Len(steps)
        /\ \/ work[2] = steps[j].node /\ work[3] # 0
           \/ work[2] = j - 1 /\ work[3] = 0
    BY StepKinds
  <1>2. /\ steps[k].node \in DOMAIN prepared /\ k \in 1 .. Len(steps)
        /\ \/ work[2] = steps[k].node /\ work[3] # 0
           \/ work[2] = k - 1 /\ work[3] = 0
    BY StepKinds
  <1> HIDE DEF work
  <1>3. DOMAIN prepared = 1 .. Len(prepared) /\ Len(prepared) \in Nat /\ Len(steps) \in Nat
    BY Indexed DEF CompileIInv, PhasesRight
  <1>4. (j < k => steps[j].node < steps[k].node) /\ (k < j => steps[k].node < steps[j].node)
    BY DEF CompileIInv, Planning
  <1>5. CASE work[3] = 0
    BY <1>1, <1>2, <1>3, <1>5
  <1>6. CASE work[3] # 0
    <2>1. steps[j].node = steps[k].node /\ steps[k].node \in Nat /\ j \in Nat /\ k \in Nat
      BY <1>1, <1>2, <1>3, <1>6
    <2> QED
      BY <2>1, <1>4
  <1> QED BY <1>5, <1>6

\* What the plan holds is in the image, as a value of its level and size.
LEMMA HeldLimbs ==
  ASSUME CompileIInv, ImageRight, NEW i \in DOMAIN prepared
  PROVE  LET o == prepared[i].object
         IN  o \in DOMAIN image
             /\ LimbsOf(o[1], o[4], image[o].capacity) = Grid("c", 0 .. nodes[i].comps - 1, Mods(QIds(nodes[i].level)))
  <1> DEFINE o == prepared[i].object
  <1>1. o[1] \in {"input", "output"} /\ o[4] = nodes[i].level
    <2>1. Holding(i)
      BY DEF CompileIInv, Planning
    <2> QED
      BY <2>1 DEF Holding, OutputObject, Object
  <1>2. o \in DOMAIN image /\ image[o].capacity = nodes[i].comps
    BY DEF ImageRight
  <1>3. scheme \in {"ckks", "bfv"}
    BY DEF CompileIInv, NodesRight
  <1> HIDE DEF o
  <1> QED
    BY <1>1, <1>2, <1>3, LimbsByKind DEF o

\* So is what a step writes.
LEMMA WrittenLimbs ==
  ASSUME ContextComplete, CompileIInv, ImageRight, NEW k \in DOMAIN steps
  PROVE  LET step == steps[k]
             out == step.at.out
             work == step.at.work
         IN  /\ out \in DOMAIN image
             /\ LimbsOf(out[1], out[4], image[out].capacity) = Grid("c", 0 .. step.outComps - 1, Mods(QIds(step.outLevel)))
             /\ work # NoObject =>
                  /\ work \in DOMAIN image
                  /\ LimbsOf(work[1], work[4], image[work].capacity) = Grid("c", 0 .. step.comps - 1, Mods(QIds(work[4])))
  <1> DEFINE out == steps[k].at.out
             work == steps[k].at.work
  <1>1. scheme \in {"ckks", "bfv"}
    BY DEF CompileIInv, NodesRight
  <1>2. out \in DOMAIN image /\ (work # NoObject => work \in DOMAIN image)
    BY DEF ImageRight, Needs
  <1>3. out[1] = "output" /\ out[2] = steps[k].node /\ (work # NoObject => work[1] = "workspace")
    BY StepKinds
  <1>4. out[4] = steps[k].outLevel
    BY StepMetadata DEF OutputObject, Object
  <1>5. image[out].capacity = steps[k].outComps
    <2>1. PICK j \in DOMAIN steps : out = steps[j].at.out /\ image[out].capacity = steps[j].outComps
      BY <1>2, <1>3 DEF ImageRight, AllMade, MadeFor
    <2>2. steps[j].node = steps[k].node
      BY <2>1, <1>3, StepKinds
    <2>3. steps[j].outComps = nodes[steps[j].node].comps /\ steps[k].outComps = nodes[steps[k].node].comps
      BY StepMetadata
    <2> QED
      BY <2>1, <2>2, <2>3
  <1>6. ASSUME work # NoObject PROVE image[work].capacity = steps[k].comps
    <2>1. PICK j \in DOMAIN steps : work = steps[j].at.work /\ image[work].capacity = steps[j].comps
      BY <1>2, <1>3, <1>6 DEF ImageRight, AllMade, MadeFor
    <2>2. j = k
      BY <2>1, <1>6, OwnWorkspace
    <2> QED
      BY <2>1, <2>2
  <1> HIDE DEF out, work
  <1>7. LimbsOf(out[1], out[4], image[out].capacity) = Grid("c", 0 .. image[out].capacity - 1, Mods(QIds(out[4])))
    BY <1>1, <1>3, LimbsByKind
  <1>8. work # NoObject => LimbsOf(work[1], work[4], image[work].capacity) = Grid("c", 0 .. image[work].capacity - 1, Mods(QIds(work[4])))
    BY <1>1, <1>3, LimbsByKind
  <1> QED
    BY <1>2, <1>4, <1>5, <1>6, <1>7, <1>8 DEF out, work

\* The limbs of the constants of an operation are those that its program can
\* reach, and more components than it has do not take any away.
LEMMA ConstantsLimbs ==
  ASSUME ContextComplete, CompileIInv, ImageRight, NEW k \in DOMAIN steps,
         ConstantsKind(steps[k].kind) \/ steps[k].kind = "mod_switch"
  PROVE  LET step == steps[k]
             o == step.at.constants
         IN  /\ o \in DOMAIN image /\ o = ConstantsObject(step.kind, step.level)
             /\ LimbsOf(o[1], step.level, step.comps) \subseteq LimbsOf(o[1], o[4], image[o].capacity)
  <1> DEFINE n == steps[k].node
             v == nodes[n]
             i == v.inputs[1]
             a == prepared[i]
             kind == v.kind
             level == a.level
             comps == a.comps
             o == ConstantsObject(kind, level)
  <1>1. /\ n \in DOMAIN nodes /\ Builds(scheme, v, nodes[i], nodes[v.inputs[2]])
        /\ a.level = nodes[i].level /\ a.comps = nodes[i].comps
        /\ steps[k] = StepOf(n, v, a, SecondOperand(v, a), k - 1)
    BY StepPlaces
  <1>2. /\ steps[k].kind = kind /\ steps[k].level = level /\ steps[k].comps = comps
        /\ steps[k].at.constants = o
    BY <1>1 DEF StepOf, Place
  <1>3. scheme \in {"ckks", "bfv"} /\ v.comps \in {2, 3} /\ v.level \in Levels
    BY <1>1, Operands DEF CompileIInv, NodesRight, Built
  <1>4. /\ kind = "rescale" => scheme = "ckks" /\ v.level = NextLevel(level) /\ v.comps = comps
        /\ kind = "mod_switch" => scheme = "bfv" /\ comps = 2
    <2> HIDE DEF v, i, a
    <2> QED
      BY <1>1 DEF Builds, kind, level, comps
  <1>5. ConstantsKind(kind)
    BY <1>2, <1>4 DEF ConstantsKind
  <1>6. o \in DOMAIN image
    <2>1. o \in Needs(steps[k])
      <3> HIDE DEF o, kind
      <3> QED
        BY <1>2, <1>5 DEF Needs
    <2> QED
      BY <2>1 DEF ImageRight
  <1>7. o[4] = level
    BY DEF ConstantsObject, Object
  <1>8. MadeFor(o, image[o].capacity)
    BY <1>6 DEF ImageRight, AllMade
  <1> DEFINE capacity == image[o].capacity
  <1>9. LimbsOf(o[1], level, comps) \subseteq LimbsOf(o[1], level, capacity)
    <2>1. CASE Switches(kind)
      <3>1. o[1] = "keyswitch"
        <4> HIDE DEF kind, level
        <4> QED
          BY <2>1 DEF ConstantsObject, Object, Switches
      <3> HIDE DEF o, capacity, level, comps
      <3> QED
        BY <3>1, <1>3 DEF LimbsOf, CkksLimbs, BfvLimbs
    <2>2. CASE kind = "rescale"
      <3>1. o[1] = "rescale"
        BY <2>2 DEF ConstantsObject, Object, Switches
      <3>2. capacity = RescaleCapacity(level)
        BY <3>1, <1>7, <1>8 DEF MadeFor
      <3>3. RescaleCapacity(level) >= comps
        <4>1. v.kind = "rescale" /\ v.level = NextLevel(level) /\ v.comps = comps
          BY <2>2, <1>4
        <4> HIDE DEF level, comps
        <4> QED
          BY <4>1, <1>1, <1>3, RescaleLargeEnough
      <3>4. comps \in Nat /\ RescaleCapacity(level) \in Nat
        <4>1. comps \in {2, 3}
          BY <2>2, <1>3, <1>4
        <4>2. RescaleCapacity(level) \in {2, 3}
          BY DEF RescaleCapacity
        <4> HIDE DEF level, comps
        <4> QED
          BY <4>1, <4>2
      <3> HIDE DEF o, capacity, level, comps
      <3>5. RescaleLimbs(level, comps) \subseteq RescaleLimbs(level, capacity)
        BY <3>2, <3>3, <3>4, RescaleLimbsGrow
      <3>6. \A any : LimbsOf("rescale", level, any) = RescaleLimbs(level, any)
        BY <2>2, <1>4 DEF LimbsOf, CkksLimbs
      <3> QED
        BY <3>1, <3>5, <3>6
    <2>3. CASE kind = "mod_switch"
      <3>1. o[1] = "mod_switch"
        BY <2>3 DEF ConstantsObject, Object, Switches
      <3>2. capacity = 2 /\ comps = 2
        BY <2>3, <3>1, <1>4, <1>8 DEF MadeFor
      <3> QED
        BY <3>2
    <2>4. CASE kind \in {"multiply", "square"}
      <3>1. o[1] = "multiply"
        BY <2>4 DEF ConstantsObject, Object, Switches
      <3>2. scheme = "bfv"
        BY <2>4, <1>5 DEF ConstantsKind, Switches
      <3> HIDE DEF o, capacity, level, comps
      <3> QED
        BY <3>1, <3>2 DEF LimbsOf, BfvLimbs
    <2> QED
      BY <2>1, <2>2, <2>3, <2>4, <1>5 DEF ConstantsKind
  <1> QED
    BY <1>2, <1>6, <1>7, <1>9

\* The other resources of a step are those of its level.
LEMMA ResourceLimbs ==
  ASSUME CompileIInv, ImageRight, NEW k \in DOMAIN steps
  PROVE  LET step == steps[k]
             at == step.at
         IN  /\ Switches(step.kind) =>
                  at.key \in DOMAIN image
                  /\ LimbsOf(at.key[1], at.key[4], image[at.key].capacity) = LimbsOf(KeyKind(step.kind), step.level, 0)
             /\ step.kind = "rotate" =>
                  at.fused \in DOMAIN image
                  /\ LimbsOf(at.fused[1], at.fused[4], image[at.fused].capacity) = LimbsOf("fused", step.level, 0)
             /\ Transforming(scheme, step.kind) /\ phase # "build" =>
                  at.canonical \in DOMAIN image
                  /\ LimbsOf(at.canonical[1], at.canonical[4], image[at.canonical].capacity) = LimbsOf("canonical", step.level, 0)
  <1> DEFINE n == steps[k].node
             v == nodes[n]
             a == prepared[v.inputs[1]]
             key == steps[k].at.key
             fused == steps[k].at.fused
             canonical == steps[k].at.canonical
             kind == steps[k].kind
             level == steps[k].level
  <1>1. /\ n \in DOMAIN nodes
        /\ steps[k] = StepOf(n, v, a, SecondOperand(v, a), k - 1)
    BY StepPlaces
  <1>2. /\ kind = v.kind /\ level = a.level /\ key = KeyObject(v, a.level)
        /\ fused = FusedObject(v.element, a.level) /\ canonical = Canonical
    BY <1>1 DEF StepOf, Place
  <1>3. scheme \in {"ckks", "bfv"}
    BY DEF CompileIInv, NodesRight
  <1>4. /\ key[1] = KeyKind(kind) /\ key[4] = level
        /\ fused[1] = "fused" /\ fused[4] = level /\ canonical[1] = "canonical"
    <2> HIDE DEF v, a, kind, level, key, fused, canonical
    <2> QED
      BY <1>2 DEF KeyObject, FusedObject, Canonical, Object
  <1>5. /\ Switches(kind) => key \in DOMAIN image
        /\ kind = "rotate" => fused \in DOMAIN image
    BY DEF ImageRight, Needs
  <1>6. Transforming(scheme, kind) /\ phase # "build" => canonical \in DOMAIN image
    <2> SUFFICES ASSUME Transforming(scheme, kind), phase # "build" PROVE Canonical \in DOMAIN image
      BY <1>2
    <2>1. RequiresTwiddles
      BY <1>1, <1>2 DEF RequiresTwiddles
    <2> QED
      BY <2>1 DEF ImageRight
  <1> HIDE DEF v, a, kind, level, key, fused, canonical
  <1>7. KeyKind(kind) \in {"relin_key", "galois_key"}
    BY DEF KeyKind
  <1>8. ASSUME NEW at, NEW capacity
        PROVE  /\ LimbsOf(KeyKind(kind), at, capacity) = LimbsOf(KeyKind(kind), at, 0)
               /\ LimbsOf("fused", at, capacity) = LimbsOf("fused", at, 0)
               /\ LimbsOf("canonical", at, capacity) = LimbsOf("canonical", level, 0)
    <2>1. /\ LimbsOf(KeyKind(kind), at, capacity) = Grid("key", 0 .. 2 * Len(KeyDigits(at)) - 1, Mods(FullIds(at)))
          /\ LimbsOf(KeyKind(kind), at, 0) = Grid("key", 0 .. 2 * Len(KeyDigits(at)) - 1, Mods(FullIds(at)))
      BY <1>3, <1>7, LimbsByKind
    <2>2. /\ LimbsOf("fused", at, capacity) = Grid("intt", {0}, Mods(QIds(at)))
          /\ LimbsOf("fused", at, 0) = Grid("intt", {0}, Mods(QIds(at)))
      BY <1>3, LimbsByKind
    <2>3. /\ LimbsOf("canonical", at, capacity) = IF scheme = "ckks" THEN CkksTables ELSE BfvTables
          /\ LimbsOf("canonical", level, 0) = IF scheme = "ckks" THEN CkksTables ELSE BfvTables
      BY <1>3, LimbsByKind
    <2> QED
      BY <2>1, <2>2, <2>3
  <1> QED
    BY <1>4, <1>5, <1>6, <1>8 DEF kind, level, key, fused, canonical

\* Whatever a program of this shape reaches is there.
LEMMA ReachAllocated ==
  ASSUME ContextComplete, CompileIInv, ImageRight, phase # "build", NEW k \in DOMAIN steps,
         NEW place \in Places, NEW l \in Reach(ShapeOf(steps[k]))[place]
  PROVE  LET o == steps[k].at[place] IN o \in DOMAIN image /\ l \in LimbsOf(o[1], o[4], image[o].capacity)
  <1> DEFINE n == steps[k].node
             v == nodes[n]
             i == v.inputs[1]
             a == prepared[i]
             b == SecondOperand(v, a)
             kind == steps[k].kind
             level == steps[k].level
             comps == steps[k].comps
             shape == ShapeOf(steps[k])
             at == steps[k].at
             Has(o) == o \in DOMAIN image /\ l \in LimbsOf(o[1], o[4], image[o].capacity)
  <1>1. /\ n \in DOMAIN nodes /\ v.kind \in Computations /\ i \in DOMAIN prepared
        /\ Len(v.inputs) = 2 => v.inputs[2] \in DOMAIN prepared
        /\ Builds(scheme, v, nodes[i], nodes[v.inputs[2]])
        /\ a.level = nodes[i].level /\ a.comps = nodes[i].comps
        /\ steps[k] = StepOf(n, v, a, b, k - 1)
    BY StepPlaces
  <1>2. /\ kind = v.kind /\ level = a.level /\ comps = a.comps
        /\ steps[k].outLevel = PlannedLevel(v, a) /\ steps[k].outComps = PlannedComponents(v, a)
        /\ at = Place(n, v, a, b, PlannedLevel(v, a), k - 1)
    BY <1>1 DEF StepOf
  <1>3. /\ at.left = a.object /\ at.right = b.object /\ at.work = WorkspaceObject(n, v, a.level, k - 1)
    <2> HIDE DEF v, a, b, at
    <2> QED
      BY <1>2 DEF Place
  <1>4. scheme \in {"ckks", "bfv"}
    BY DEF CompileIInv, NodesRight
  <1>5. shape = <<scheme, <<kind, level, comps>> >>
    BY DEF ShapeOf
  <1>5a. /\ Reach(shape)["left"] = Grid("c", 0 .. comps - 1, Mods(QIds(level)))
         /\ Reach(shape)["right"] = Grid("c", 0 .. (IF WithPlain(kind) THEN 1 ELSE comps) - 1, Mods(QIds(level)))
         /\ Reach(shape)["out"] = Grid("c", 0 .. PlannedComponents([kind |-> kind], [comps |-> comps]) - 1,
                                       Mods(QIds(PlannedLevel([kind |-> kind], [level |-> level]))))
         /\ Reach(shape)["work"] = IF kind = "rotate" \/ (scheme = "ckks" /\ kind \in {"relinearize", "rescale"})
                                   THEN Grid("c", 0 .. comps - 1, Mods(QIds(level))) ELSE {}
         /\ Reach(shape)["key"] = IF Switches(kind) THEN LimbsOf(KeyKind(kind), level, 0) ELSE {}
         /\ Reach(shape)["constants"] = IF ConstantsKind(kind) \/ (kind = "mod_switch")
                                       THEN LimbsOf(ConstantsObject(kind, level)[1], level, comps) ELSE {}
         /\ Reach(shape)["fused"] = IF kind = "rotate" THEN LimbsOf("fused", level, 0) ELSE {}
         /\ Reach(shape)["canonical"] = IF Transforming(scheme, kind) THEN LimbsOf("canonical", level, 0) ELSE {}
    <2> HIDE DEF kind, level, comps, shape
    <2> QED
      BY <1>4, <1>5, ReachOf
  <1>5b. l \in Reach(shape)[place]
    OBVIOUS
  <1>6. nodes[i].level = level /\ nodes[i].comps = comps
    BY <1>1, <1>2
  <1>7. CASE place = "left"
    <2>1. l \in Grid("c", 0 .. comps - 1, Mods(QIds(level)))
      <3> HIDE DEF kind, level, comps, shape
      <3> QED
        BY <1>5a, <1>5b, <1>7
    <2>2. Has(prepared[i].object)
      BY <2>1, <1>1, <1>6, HeldLimbs
    <2> QED
      BY <2>2, <1>3, <1>7
  <1>8. CASE place = "right"
    <2>1. l \in Grid("c", 0 .. (IF WithPlain(kind) THEN 1 ELSE comps) - 1, Mods(QIds(level)))
      <3> HIDE DEF kind, level, comps, shape
      <3> QED
        BY <1>5a, <1>5b, <1>8
    <2>2. CASE Len(v.inputs) = 2
      <3>1. /\ ~ WithPlain(v.kind) /\ nodes[v.inputs[2]].level = nodes[i].level /\ nodes[v.inputs[2]].comps = nodes[i].comps
        <4> HIDE DEF v, i
        <4> QED
          BY <2>2, <1>1 DEF Builds, WithPlain, Computations
      <3>2. Has(prepared[v.inputs[2]].object)
        BY <2>1, <2>2, <3>1, <1>1, <1>2, <1>6, HeldLimbs
      <3>3. b = prepared[v.inputs[2]]
        <4> HIDE DEF v, a
        <4> QED
          BY <2>2, <3>1 DEF SecondOperand
      <3> QED
        BY <3>2, <3>3, <1>3, <1>8
    <2>3. CASE Len(v.inputs) # 2 /\ WithPlain(v.kind)
      <3> DEFINE plain == PlainObject(v, a.level)
      <3>1. b.object = plain
        <4> HIDE DEF v, a
        <4> QED
          BY <2>3 DEF SecondOperand, Holds, plain
      <3>2. plain[1] = "plain" /\ plain[4] = level
        <4> HIDE DEF v, a, level
        <4> QED
          BY <1>2 DEF PlainObject, Object
      <3>3. plain \in DOMAIN image
        BY <3>1, <1>3 DEF ImageRight, Needs
      <3>4. l \in Grid("c", {0}, Mods(QIds(level)))
        <4>1. 0 .. 1 - 1 = {0}
          OBVIOUS
        <4> QED
          BY <2>1, <2>3, <4>1, <1>2
      <3> HIDE DEF plain
      <3>5. LimbsOf("plain", level, image[plain].capacity) = Grid("c", {0}, Mods(QIds(level)))
        BY <1>4, LimbsByKind
      <3> QED
        BY <3>1, <3>2, <3>3, <3>4, <3>5, <1>3, <1>8
    <2>4. CASE Len(v.inputs) # 2 /\ ~ WithPlain(v.kind)
      <3>1. b = a
        <4> HIDE DEF v, a
        <4> QED
          BY <2>4 DEF SecondOperand
      <3>2. Has(prepared[i].object)
        BY <2>1, <2>4, <1>1, <1>2, <1>6, HeldLimbs
      <3> QED
        BY <3>1, <3>2, <1>3, <1>8
    <2> QED BY <2>2, <2>3, <2>4
  <1>9. CASE place = "out"
    <2>1. l \in Grid("c", 0 .. PlannedComponents([kind |-> kind], [comps |-> comps]) - 1,
                     Mods(QIds(PlannedLevel([kind |-> kind], [level |-> level]))))
      <3> HIDE DEF kind, level, comps, shape
      <3> QED
        BY <1>5a, <1>5b, <1>9
    <2>2. /\ PlannedComponents([kind |-> kind], [comps |-> comps]) = steps[k].outComps
          /\ PlannedLevel([kind |-> kind], [level |-> level]) = steps[k].outLevel
      <3> HIDE DEF v, a, kind, level, comps
      <3> QED
        BY <1>2 DEF PlannedComponents, PlannedLevel
    <2>3. Has(at.out)
      BY <2>1, <2>2, WrittenLimbs
    <2> QED
      BY <2>3, <1>9
  <1>10. CASE place = "work"
    <2>1. /\ kind = "rotate" \/ (scheme = "ckks" /\ kind \in {"relinearize", "rescale"})
          /\ l \in Grid("c", 0 .. comps - 1, Mods(QIds(level)))
      <3> HIDE DEF kind, level, comps, shape
      <3> QED
        BY <1>5a, <1>5b, <1>10
    <2>2. at.work # NoObject /\ at.work[4] = level
      <3> HIDE DEF v, a, at, kind, level
      <3>1. at.work[1] = "workspace" /\ at.work[4] = level
        BY <2>1, <1>2, <1>3 DEF WorkspaceObject, Object
      <3> QED
        BY <3>1 DEF NoObject, Object
    <2>3. Has(at.work)
      BY <2>1, <2>2, WrittenLimbs
    <2> QED
      BY <2>3, <1>10
  <1>11. CASE place = "key"
    <2>1. Switches(kind) /\ l \in LimbsOf(KeyKind(kind), level, 0)
      <3> HIDE DEF kind, level, comps, shape
      <3> QED
        BY <1>5a, <1>5b, <1>11
    <2> QED
      BY <2>1, <1>11, ResourceLimbs
  <1>12. CASE place = "constants"
    <2>1. (ConstantsKind(kind) \/ kind = "mod_switch") /\ l \in LimbsOf(ConstantsObject(kind, level)[1], level, comps)
      <3> HIDE DEF kind, level, comps, shape
      <3> QED
        BY <1>5a, <1>5b, <1>12
    <2>2. at.constants = ConstantsObject(kind, level) /\ Has(at.constants)
      BY <2>1, ConstantsLimbs
    <2> QED
      BY <2>2, <1>12
  <1>13. CASE place = "fused"
    <2>1. kind = "rotate" /\ l \in LimbsOf("fused", level, 0)
      <3> HIDE DEF kind, level, comps, shape
      <3> QED
        BY <1>5a, <1>5b, <1>13
    <2> QED
      BY <2>1, <1>13, ResourceLimbs
  <1>14. CASE place = "canonical"
    <2>1. Transforming(scheme, kind) /\ l \in LimbsOf("canonical", level, 0)
      <3> HIDE DEF kind, level, comps, shape
      <3> QED
        BY <1>5a, <1>5b, <1>14
    <2> QED
      BY <2>1, <1>14, ResourceLimbs
  <1> QED
    BY <1>7, <1>8, <1>9, <1>10, <1>11, <1>12, <1>13, <1>14 DEF Places

\* Every slot of a program is bound to a limb that is allocated, and every one
\* that it stores to is bound to a limb that programs write.
LEMMA SlotBound ==
  ASSUME ContextComplete, CompileIInv, ImageRight, phase # "build", NEW k \in DOMAIN steps,
         NEW slot, slot[1] \in Places, <<slot[2], slot[3], slot[4]>> \in Reach(ShapeOf(steps[k]))[slot[1]]
  PROVE  Allocated(image, LimbAt(steps[k], slot)) /\ (Stores(slot) => Writable(LimbAt(steps[k], slot)))
  <1> DEFINE o == steps[k].at[slot[1]]
  <1>1. o \in DOMAIN image /\ <<slot[2], slot[3], slot[4]>> \in LimbsOf(o[1], o[4], image[o].capacity)
    BY ReachAllocated
  <1>2. LimbAt(steps[k], slot) = Limb(o, slot[2], slot[3], slot[4])
    BY DEF LimbAt
  <1>3. Allocated(image, LimbAt(steps[k], slot))
    BY <1>1, <1>2, AllocatedLimb
  <1>4. LimbAt(steps[k], slot)[1] = o /\ LimbAt(steps[k], slot)[2] = slot[2]
    BY <1>2 DEF Limb
  <1>5. ASSUME slot[1] = "out" PROVE o[1] = "output"
    BY <1>5, StepKinds
  <1>6. ASSUME slot[1] = "work" PROVE o[1] = "workspace"
    <2>1. o # NoObject
      BY <1>1 DEF ImageRight, AllMade, MadeFor, NoObject, Object
    <2> QED
      BY <2>1, <1>6, StepKinds
  <1> QED
    BY <1>3, <1>4, <1>5, <1>6 DEF Stores, Writable

\* A step of the plan is never refused when its ports are bound.
LEMMA StepRelocates ==
  ASSUME ContextComplete, ProgramsContained, CompileIInv, ImageRight, phase # "build", NEW k \in DOMAIN steps
  PROVE  Relocates(steps[k])
  <1> DEFINE shape == ShapeOf(steps[k])
  <1>1. PICK p \in {Lowered[shape]} :
            /\ p # << >>
            /\ \A j \in DOMAIN p :
                 /\ Sequence(p[j].in) /\ Sequence(p[j].out)
                 /\ \A slot \in Mods(p[j].in) \cup Mods(p[j].out) :
                      slot[1] \in Places /\ <<slot[2], slot[3], slot[4]>> \in Reach(shape)[slot[1]]
                 /\ \A slot \in Mods(p[j].out) : Stores(slot)
    <2>1. shape \in Shapes
      BY ShapeRight
    <2> QED
      BY <2>1 DEF ProgramsContained, Sequence
  <1>2. ASSUME NEW j \in DOMAIN p, NEW stores, stores = Mods(LimbsAt(steps[k], p[j].out))
        PROVE  /\ \A limb \in stores \cup Mods(LimbsAt(steps[k], p[j].in)) : Allocated(image, limb)
               /\ \A limb \in stores : Writable(limb)
    <2>1. /\ stores = {LimbAt(steps[k], slot) : slot \in Mods(p[j].out)}
          /\ Mods(LimbsAt(steps[k], p[j].in)) = {LimbAt(steps[k], slot) : slot \in Mods(p[j].in)}
      BY <1>1, <1>2, LimbsOfList
    <2>2. ASSUME NEW slot \in Mods(p[j].in) \cup Mods(p[j].out) PROVE Allocated(image, LimbAt(steps[k], slot))
      BY <1>1, SlotBound
    <2>3. ASSUME NEW slot \in Mods(p[j].out) PROVE Writable(LimbAt(steps[k], slot))
      BY <1>1, SlotBound
    <2> QED
      BY <2>1, <2>2, <2>3
  <1> HIDE DEF shape
  <1> QED
    BY <1>1, <1>2 DEF Relocates, shape

-----------------------------------------------------------------------------
(* What the builder accepted is refused only where SEAL throws.             *)

\* The inductive invariant: nothing was refused so far but by SEAL, and all that
\* the next steps are checked for is there.
LowerIInv == AcceptedLowers /\ ImageRight /\ MarksRight /\ OriginsHeld

\* Every operation is what SEAL does: the comparison that precedes delivery.
SoftwareAgrees == phase = "package" => \A k \in DOMAIN steps : MatchesOracle(steps[k])

\* Marks are only made while the graph is built.
LEMMA MarksUnchanged ==
  ASSUME MarksRight, UNCHANGED frontend
  PROVE  MarksRight'
  <1>1. marked' = marked /\ nodes' = nodes
    BY DEF frontend
  <1>2. \A n : PhysicalOrigin(n)' = PhysicalOrigin(n)
    BY <1>1, OriginHere
  <1> QED
    BY <1>1, <1>2 DEF MarksRight, Sequence

\* What SEAL computes for a node depends on the graph and on the values so far.
LEMMA ValueKept ==
  ASSUME UNCHANGED <<frontend, oracle>>, NEW value
  PROVE  ValueOf(value)' = ValueOf(value)
  <1>1. scheme' = scheme /\ nodes' = nodes /\ plains' = plains /\ oracle' = oracle
    BY DEF frontend
  <1> QED
    BY <1>1 DEF ValueOf, Evaluated, Result, OracleRight, OracleKeys, Imported, Content, ToHpu, FromHpu, ToSeal,
                PlainObject, Identity, Variant

LEMMA ThrowKept ==
  ASSUME UNCHANGED <<frontend, oracle>>, SealThrows(Len(oracle) + 1)
  PROVE  SealThrows(Len(oracle) + 1)'
  <1>1. nodes' = nodes /\ oracle' = oracle
    BY DEF frontend
  <1>2. \A value : ValueOf(value)' = ValueOf(value)
    BY ValueKept
  <1> QED
    BY <1>1, <1>2 DEF SealThrows

\* The phases without a decision change nothing that lowering depends on.
LEMMA LowerUnchanged ==
  ASSUME LowerIInv, UNCHANGED <<frontend, prepared, image, steps>>, phase # "build", phase' # "build", AcceptedLowers'
  PROVE  LowerIInv'
  <1>1. UNCHANGED <<nodes, scheme>>
    BY DEF frontend
  <1>2. \A n : PhysicalOrigin(n)' = PhysicalOrigin(n)
    BY <1>1, OriginHere
  <1>3. OriginsHeld'
    BY <1>1, <1>2 DEF LowerIInv, OriginsHeld
  <1>4. ImageRight'
    <2>1. \A o, capacity : MadeFor(o, capacity) => MadeFor(o, capacity)'
      BY <1>1, MadeForKept
    <2>2. RequiresTwiddles' = RequiresTwiddles
      BY <1>1 DEF RequiresTwiddles
    <2>3. \A step : Needs(step)' = Needs(step)
      BY <1>1 DEF Needs, ConstantsKind
    <2>4. AllMade(image)'
      BY <2>1 DEF LowerIInv, ImageRight, AllMade
    <2> QED
      BY <1>1, <2>2, <2>3, <2>4 DEF LowerIInv, ImageRight
  <1> QED
    BY <1>3, <1>4, MarksUnchanged DEF LowerIInv

\* Recording a graph decides nothing.
LEMMA LowerBuilt == ASSUME CompileIInv, LowerIInv, Build PROVE LowerIInv'
  <1>1. ImageRight' /\ phase' = "build"
    BY ImageBuilt DEF LowerIInv
  <1>2. MarksRight'
    BY MarksKept DEF LowerIInv, CompileIInv
  <1>3. OriginsHeld'
    <2>1. phase = "build" /\ prepared' = prepared
      BY Zenon DEF Build, compiled, FrontendNext, Called, ImportCiphertext, ImportPlaintext, Binary, Square, NegateValue,
         RescaleToNext, ModSwitchToNext, Plain, Relinearize, Rotation, SetScale, MarkOutput
    <2>2. DOMAIN prepared' = {}
      BY <2>1 DEF CompileIInv, PhasesRight
    <2> QED
      BY <2>2 DEF OriginsHeld
  <1> QED
    BY <1>1, <1>2, <1>3 DEF LowerIInv, AcceptedLowers

\* Compiling begins with the tables.
LEMMA LowerCompiled == ASSUME ContextComplete, CompileIInv, LowerIInv, Compile PROVE LowerIInv'
  <1>1. ImageRight' /\ phase' = "oracle"
    BY ImageCompiled DEF LowerIInv
  <1>2. UNCHANGED <<frontend, prepared>> /\ phase = "build"
    BY DEF Compile
  <1>3. OriginsHeld'
    <2>1. DOMAIN prepared' = {}
      BY <1>2 DEF CompileIInv, PhasesRight
    <2> QED
      BY <2>1 DEF OriginsHeld
  <1> QED
    BY <1>1, <1>2, <1>3, MarksUnchanged DEF LowerIInv, AcceptedLowers

\* No value of the graph is refused by the plan.
LEMMA LowerPlanned == ASSUME ContextComplete, CompileIInv, LowerIInv, Plan PROVE LowerIInv'
  <1> DEFINE n == Len(prepared) + 1
  <1>1. /\ phase = "plan" /\ Len(prepared) < Len(nodes) /\ UNCHANGED frontend /\ oracle' = oracle
        /\ \/ nodes[n].kind = "input" /\ PlanInput(n) /\ phase' = phase
           \/ nodes[n].kind \in Views /\ PlanView(n) /\ phase' = phase
           \/ nodes[n].kind \in Computations /\ PlanOperation(n)
    BY DEF Plan
  <1>2. n \in DOMAIN nodes
    BY <1>1, Indexed DEF CompileIInv, NodesRight, PhasesRight
  <1>3. Sequence(prepared) /\ Len(prepared) \in Nat
    BY Indexed DEF CompileIInv, PhasesRight
  <1>4. MarksRight'
    BY <1>1, MarksUnchanged DEF LowerIInv
  <1>5. CASE nodes[n].kind = "input" /\ PlanInput(n) /\ phase' = phase
    <2>1. ImageRight'
      BY <1>1, <1>5, InputPlanned DEF LowerIInv
    <2>2. \E h : prepared' = Append(prepared, h)
      BY <1>5 DEF PlanInput
    <2>3. OriginsHeld'
      BY <1>1, <1>2, <1>5, <2>2, OriginsPlanned DEF LowerIInv
    <2> QED
      BY <1>1, <1>4, <1>5, <2>1, <2>3 DEF LowerIInv, AcceptedLowers
  <1>6. CASE nodes[n].kind \in Views /\ PlanView(n) /\ phase' = phase
    <2>1. ImageRight' /\ prepared'[n].object = prepared[nodes[n].inputs[1]].object
      BY <1>1, <1>6, ViewPlanned DEF LowerIInv
    <2>2. PICK h : prepared' = Append(prepared, h)
      BY <1>6 DEF PlanView
    <2>3. prepared'[n] = h
      BY <2>2, <1>3, Appended
    <2>4. OriginsHeld'
      BY <1>1, <1>2, <1>6, <2>1, <2>2, <2>3, OriginsPlanned DEF LowerIInv
    <2> QED
      BY <1>1, <1>4, <1>6, <2>1, <2>4 DEF LowerIInv, AcceptedLowers
  <1>7. CASE nodes[n].kind \in Computations /\ PlanOperation(n)
    <2>1. ImageRight' /\ phase' = phase
      BY <1>1, <1>7, OperationPlanned DEF LowerIInv
    <2>2. \E h : prepared' = Append(prepared, h) /\ h.object[1] # "input"
      <3> DEFINE v == nodes[n]
                 a == prepared[v.inputs[1]]
                 b == SecondOperand(v, a)
                 out == OutputObject(n, PlannedLevel(v, a))
      <3>1. prepared' = Append(prepared, Holds(out, PlannedLevel(v, a), PlannedComponents(v, a), PlannedScale(v, a, b)))
        BY <1>1, <1>7, <2>1, Zenon DEF PlanOperation
      <3>2. out[1] = "output"
        BY DEF OutputObject, Object
      <3> HIDE DEF v, a, b, out
      <3> QED
        BY <3>1, <3>2 DEF Holds
    <2>3. OriginsHeld'
      BY <1>1, <1>2, <2>2, OriginsPlanned DEF LowerIInv
    <2> QED
      BY <1>1, <1>4, <2>1, <2>3 DEF LowerIInv, AcceptedLowers
  <1> QED
    BY <1>1, <1>5, <1>6, <1>7

\* Every export is what a step wrote, with the metadata of its value.
LEMMA PackageAccepted ==
  ASSUME CompileIInv, LowerIInv, SoftwareAgrees, Package
  PROVE  phase' = "hardware" /\ UNCHANGED <<frontend, prepared, image, steps>>
  <1>1. phase = "package" /\ UNCHANGED <<frontend, prepared, image, steps>>
    BY DEF Package
  <1>2. \A delivery \in Deliveries : delivery[1] \in {steps[k].at.out : k \in DOMAIN steps}
    BY <1>1, ExportsProduced DEF LowerIInv
  <1>3. \A k \in DOMAIN steps : MatchesOracle(steps[k]) /\ MetadataAgrees(steps[k])
    BY <1>1, MetadataRight DEF SoftwareAgrees
  <1> QED
    BY <1>1, <1>2, <1>3 DEF Package

\* No step refuses, but where SEAL throws.
LEMMA LowerKept ==
  ASSUME ContextComplete, ProgramsContained, CompileIInv, LowerIInv, SoftwareAgrees, [Next]_vars
  PROVE  LowerIInv'
  <1>1. CASE Package
    <2>1. phase' = "hardware" /\ phase = "package" /\ UNCHANGED <<frontend, prepared, image, steps>>
      BY <1>1, PackageAccepted DEF Package
    <2> QED
      BY <2>1, LowerUnchanged DEF AcceptedLowers
  <1>2. CASE Relocate
    <2>1. phase = "lower" /\ UNCHANGED <<frontend, prepared, image, steps>>
      BY <1>2 DEF Relocate, compiled
    <2>2. \A k \in DOMAIN steps : Relocates(steps[k])
      BY <2>1, StepRelocates DEF LowerIInv
    <2>3. phase' = "package"
      BY <1>2, <2>2 DEF Relocate
    <2> QED
      BY <2>1, <2>3, LowerUnchanged DEF AcceptedLowers
  <1>3. CASE StartSoftware \/ ExecuteSoftware \/ ExecuteTask
    <2>1. UNCHANGED <<frontend, prepared, image, steps>>
      BY <1>3 DEF StartSoftware, ExecuteSoftware, ExecuteTask, compiled
    <2>2. phase \in {"plan", "software", "hardware"}
      BY <1>3 DEF StartSoftware, ExecuteSoftware, ExecuteTask
    <2>3. phase' \in {phase, "software", "lower", "done"}
      BY <1>3 DEF StartSoftware, ExecuteSoftware, ExecuteTask
    <2> QED
      BY <2>1, <2>2, <2>3, LowerUnchanged DEF AcceptedLowers
  <1>4. CASE ExecuteOracle
    <2>1. phase = "oracle" /\ UNCHANGED <<frontend, prepared, image, steps>>
      BY <1>4, OracleSteps
    <2>2. CASE phase' # "rejected"
      <3>1. phase' \in {"oracle", "plan"}
        BY <1>4, <2>1, <2>2, OracleSteps
      <3> QED
        BY <2>1, <2>2, <3>1, LowerUnchanged DEF AcceptedLowers
    <2>3. CASE phase' = "rejected"
      <3>1. /\ oracle' = oracle /\ nodes[Len(oracle) + 1].kind \in Computations
            /\ \E words \in ValueOf(nodes[Len(oracle) + 1]) : Transparent(words)
        BY <1>4, <2>1, <2>3, OracleSteps
      <3>2. Len(oracle) + 1 \in DOMAIN nodes
        BY <2>1, Indexed DEF CompileIInv, PhasesRight, NodesRight
      <3>3. SealThrows(Len(oracle) + 1)'
        BY <2>1, <3>1, <3>2, ThrowKept DEF SealThrows
      <3>4. AcceptedLowers'
        BY <3>3 DEF AcceptedLowers
      <3> QED
        BY <2>1, <2>3, <3>4, LowerUnchanged
    <2> QED
      BY <2>2, <2>3
  <1>5. CASE UNCHANGED vars
    <2>1. UNCHANGED <<frontend, phase, oracle, prepared, image, steps>>
      BY <1>5 DEF vars, compiled
    <2>2. CASE phase = "build"
      <3>1. DOMAIN image' = {} /\ DOMAIN prepared' = {} /\ DOMAIN steps' = {}
        BY <2>1, <2>2 DEF LowerIInv, ImageRight, CompileIInv, PhasesRight
      <3> QED
        BY <2>1, <2>2, <3>1, MarksUnchanged DEF LowerIInv, AcceptedLowers, ImageRight, AllMade, OriginsHeld
    <2>3. CASE phase # "build"
      <3>1. AcceptedLowers'
        BY <2>1, ThrowKept DEF LowerIInv, AcceptedLowers
      <3> QED
        BY <2>1, <2>3, <3>1, LowerUnchanged
    <2> QED BY <2>2, <2>3
  <1>6. CASE Ended
    <2>1. UNCHANGED vars
      BY <1>6 DEF Ended
    <2> QED
      BY <1>5, <2>1
  <1> QED
    BY <1>1, <1>2, <1>3, <1>4, <1>5, <1>6, LowerBuilt, LowerCompiled, LowerPlanned DEF Next, Progress

\* What the builder accepted, call by call, is refused afterwards only where SEAL
\* itself throws, for a result that is transparent, as long as the operations of the
\* software executor are those of SEAL: every check of the plan passes, every port
\* is bound to what is allocated for it, and every output is there to be delivered.
THEOREM Lowering ==
  ContextComplete /\ ProgramsContained => (Spec => ([]SoftwareAgrees => []AcceptedLowers))
  <1>1. Init => LowerIInv
    <2> SUFFICES ASSUME Init PROVE LowerIInv
      OBVIOUS
    <2>1. phase = "build" /\ prepared = << >> /\ image = << >> /\ steps = << >> /\ marked = << >>
      BY DEF Init, FrontendInit
    <2>2. Sequence(marked) /\ Mods(marked) = {}
      BY <2>1, EmptySequence, RangeOf
    <2>3. DOMAIN image = {} /\ DOMAIN prepared = {} /\ DOMAIN steps = {}
      BY <2>1
    <2> QED
      BY <2>1, <2>2, <2>3 DEF LowerIInv, AcceptedLowers, ImageRight, AllMade, MarksRight, OriginsHeld
  <1>2. ContextComplete /\ ProgramsContained /\ CompileIInv /\ LowerIInv /\ SoftwareAgrees /\ [Next]_vars => LowerIInv'
    BY LowerKept
  <1>3. LowerIInv => AcceptedLowers
    BY DEF LowerIInv
  <1>4. (ContextComplete => ContextComplete') /\ (ProgramsContained => ProgramsContained')
    BY DEF ContextComplete, ProgramsContained
  <1> QED
    BY <1>1, <1>2, <1>3, <1>4, PlanInvariance, PTL DEF Spec
=============================================================================
