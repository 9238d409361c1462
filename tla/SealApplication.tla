-------------------------- MODULE SealApplication --------------------------
(***************************************************************************)
(* An application from its recorded graph to the HPU: compile() evaluates  *)
(* the graph with SEAL, plans it (memory objects and operations), runs the *)
(* plan on the software executor, lowers it to programs, relocates their   *)
(* ports to limbs, and packages the outputs with the values expected of    *)
(* them; the HPU then executes the programs, task by task.                 *)
(***************************************************************************)
EXTENDS SealPlan, SealPrograms, BfvReference

VARIABLES oracle,     \* node -> its value according to SEAL
          prepared,   \* node -> the planned object that holds it
          image,      \* object -> its capacity and imported data
          steps,      \* the operation plan
          golden,     \* what the software executor wrote
          exports,    \* the objects that the package delivers
          memory,     \* what the HPU wrote
          fresh,      \* the limbs written by the operation in progress
          running     \* <<operation, task>> that the HPU does next

compiled == <<oracle, prepared, image, steps, golden, exports>>
machine == <<memory, fresh, running>>
vars == <<frontend, script, phase, compiled, machine>>

(***************************************************************************)
(* Programs with their ports bound, for every operation there is.          *)
(***************************************************************************)
Shapes ==
  {"ckks", "bfv"} \X (({"add", "sub", "add_plain", "sub_plain", "multiply_plain", "negate", "rotate"} \X Levels \X {2})
                      \cup ({"relinearize"} \X Levels \X {3}))
  \cup {"ckks"} \X (({"multiply", "square"} \X Levels \X {2}) \cup ({"rescale"} \X (Levels \ {0}) \X {2, 3}))
  \cup {"bfv"} \X ({"multiply", "square", "mod_switch"} \X (Levels \ {0}) \X {2})
ProgramOf(shape) ==
  IF shape[1] = "ckks" THEN CkksProgram(shape[2][1], shape[2][2], shape[2][3]) ELSE BfvProgram(shape[2][1], shape[2][2])
RecipeOf(shape) ==
  IF shape[1] = "ckks" THEN CkksRecipe(shape[2][1], shape[2][2], shape[2][3]) ELSE BfvRecipe(shape[2][1], shape[2][2])
\* The empty sequence where the recipe does not bind what the program declares.
Lowered ==
  [shape \in Shapes |-> IF BindsExactly(RecipeOf(shape), ProgramOf(shape)) THEN Relocated(RecipeOf(shape), ProgramOf(shape)) ELSE << >>] @@ << >>
ShapeOf(step) == <<scheme, <<step.kind, step.level, step.comps>> >>
\* Mutant: the second operand is looked for in the output, as in an operation in place.
RightInTarget(step, slot) == Limb(step.at[IF slot[1] = "right" THEN "out" ELSE slot[1]], slot[2], slot[3], slot[4])
LimbAt(step, slot) == Limb(step.at[slot[1]], slot[2], slot[3], slot[4])
LimbsAt(step, slots) == [i \in DOMAIN slots |-> LimbAt(step, slots[i])] \o << >>

(***************************************************************************)
(* SEAL's evaluation of the graph.                                         *)
(***************************************************************************)
Result(kind, level, comps, element, x, y, keyData) ==
  IF scheme = "ckks" THEN CkksResult(kind, level, comps, element, x, y, keyData) ELSE BfvResult(kind, level, element, x, y, keyData)

NoOperand == << >>
ToHpu(x) == [cm \in DOMAIN x |-> IF scheme = "ckks" THEN CiphertextToHpu(cm[2], x[cm]) ELSE BfvCiphertextToHpu(x[cm])] @@ << >>
ToSeal(m, physical) == IF scheme = "ckks" THEN HpuToSeal(m, physical) ELSE BfvHpuToSeal(physical)
FromHpu(x) == [cm \in DOMAIN x |-> ToSeal(cm[2], x[cm])] @@ << >>

\* SEAL is external: it is taken to compute what the algorithms of the software
\* executor do, on values in its own order.
Imported(object, data, role, indexes, mods) ==
  [im \in indexes \X mods |-> Content(Limb(object, role, im[1], im[2]), data)] @@ << >>
KeyIndexes(level) == 0 .. 2 * Len(KeyDigits(level)) - 1

OracleRight(value, a) ==
  IF Len(value.inputs) = 2 THEN ToHpu(oracle[value.inputs[2]])
  ELSE IF WithPlain(value.kind) THEN Imported(PlainObject(value, a.level), plains[value.plain], "c", {0}, Mods(QIds(a.level)))
  ELSE NoOperand
OracleKeys(value, a) ==
  IF Switches(value.kind) THEN Imported(KeyObject(value, a.level), value.data, "key", KeyIndexes(a.level), Mods(FullIds(a.level)))
  ELSE NoOperand
Evaluated(value, a) ==
  {FromHpu(words) : words \in
    {Result(value.kind, a.level, a.comps, value.element, x, y, keyData) :
      x \in {ToHpu(oracle[value.inputs[1]])}, y \in {OracleRight(value, a)}, keyData \in {OracleKeys(value, a)}}}
ValueOf(value) ==
  CASE value.kind = "input" -> {[cm \in Limbs(value.comps, QIds(value.level)) |-> SealData("input", value.data, 0, cm[1], cm[2])] @@ << >>}
    [] value.kind \in Views -> {oracle[value.inputs[1]]}
    [] OTHER -> Evaluated(value, nodes[value.inputs[1]])

Transforming(context, kind) ==
  kind \in {"relinearize", "rescale", "rotate"} \/ (context = "bfv" /\ kind \in {"multiply", "square", "multiply_plain"})
RequiresTwiddles == \E i \in DOMAIN nodes : Transforming(scheme, nodes[i].kind)

Compile ==
  /\ phase = "build" /\ \E i \in DOMAIN nodes : nodes[i].kind \in Computations
  /\ script' = << >>
  \* Twiddle tables come first, when anything needs them.
  /\ image' = CachedIf(image, RequiresTwiddles, Canonical, 0, "none")
  /\ phase' = IF RequiresTwiddles => AllPack("canonical", 0, LimbsOf("canonical", 0, 0)) THEN "oracle" ELSE "rejected"
  /\ UNCHANGED <<frontend, oracle, prepared, steps, golden, exports, machine>>

\* A ciphertext that anyone can read: all its polynomials but the first are zero.
Transparent(words) == \A cm \in DOMAIN words : cm[1] # 0 => words[cm] = Zero

\* SEAL throws rather than give a transparent result, and compile() ends with that.
ExecuteOracle ==
  /\ phase = "oracle"
  /\ \E value \in {nodes[Len(oracle) + 1]} : \E words \in ValueOf(value) :
       IF value.kind \in Computations /\ Transparent(words)
       THEN phase' = "rejected" /\ UNCHANGED oracle
       ELSE /\ oracle' = Append(oracle, words)
            /\ phase' = IF Len(oracle') = Len(nodes) THEN "plan" ELSE phase
  /\ UNCHANGED <<frontend, script, prepared, image, steps, golden, exports, machine>>

(***************************************************************************)
(* The plan.                                                               *)
(***************************************************************************)
PlanInput(n) ==
  LET object == Object("input", CHOOSE i \in DOMAIN nodes : nodes[i].kind = "input" /\ nodes[i].data = nodes[n].data
                                   /\ \A j \in 1 .. i - 1 : nodes[j].kind = "input" => nodes[j].data # nodes[n].data, 0, nodes[n].level)
  IN  /\ image' = Cached(image, object, nodes[n].comps, nodes[n].data)
      /\ prepared' = Append(prepared, Holds(object, nodes[n].level, nodes[n].comps, nodes[n].scale))
      /\ UNCHANGED steps

PlanView(n) ==
  /\ prepared' = Append(prepared, [prepared[nodes[n].inputs[1]] EXCEPT !.scale = nodes[n].scale])
  /\ UNCHANGED <<image, steps>>

\* The second operand: a value, imported data, or the first one again.
SecondOperand(value, a) ==
  CASE Len(value.inputs) = 2 -> prepared[value.inputs[2]]
    [] WithPlain(value.kind) -> Holds(PlainObject(value, a.level), a.level, 1, Delta)
    [] OTHER -> a

\* before: the steps that the plan has so far.
Place(n, value, a, b, outLevel, before) ==
  [left |-> a.object, right |-> b.object, out |-> OutputObject(n, outLevel), work |-> WorkspaceObject(n, value, a.level, before),
   key |-> KeyObject(value, a.level), constants |-> ConstantsObject(value.kind, a.level),
   fused |-> FusedObject(value.element, a.level), canonical |-> Canonical]
StepOf(n, value, a, b, before) ==
  [kind |-> value.kind, level |-> a.level, comps |-> a.comps, element |-> value.element,
   node |-> n, outLevel |-> PlannedLevel(value, a), outComps |-> PlannedComponents(value, a),
   at |-> Place(n, value, a, b, PlannedLevel(value, a), before)]

PlanOperation(n) ==
  LET value == nodes[n]
      a == prepared[value.inputs[1]]
      b == SecondOperand(value, a)
      out == OutputObject(n, PlannedLevel(value, a))
      work == WorkspaceObject(n, value, a.level, Len(steps))
  IN  \E objects \in {IF scheme = "ckks" THEN CkksResources(image, value, a.level) ELSE BfvResources(image, value, a.level)} :
        IF /\ IF scheme = "ckks" THEN CkksAppends(objects, value, a, b) ELSE BfvAppends(objects, value, a, b)
           /\ {out, work} \cap DOMAIN objects = {}
        THEN /\ image' = CachedIf(Cached(objects, out, PlannedComponents(value, a), "none"), work # NoObject, work, a.comps, "none")
             /\ steps' = Append(steps, StepOf(n, value, a, b, Len(steps)))
             /\ prepared' = Append(prepared, Holds(out, PlannedLevel(value, a), PlannedComponents(value, a), PlannedScale(value, a, b)))
             /\ UNCHANGED phase
        ELSE phase' = "rejected" /\ UNCHANGED <<image, steps, prepared>>

Plan ==
  /\ phase = "plan" /\ Len(prepared) < Len(nodes)
  /\ LET n == Len(prepared) + 1
     IN  \/ nodes[n].kind = "input" /\ PlanInput(n) /\ UNCHANGED phase
         \/ nodes[n].kind \in Views /\ PlanView(n) /\ UNCHANGED phase
         \/ nodes[n].kind \in Computations /\ PlanOperation(n)
  /\ UNCHANGED <<frontend, script, oracle, golden, exports, machine>>

(***************************************************************************)
(* The software executor.                                                  *)
(***************************************************************************)
Load(written, limb) == IF Writable(limb) THEN written[limb] ELSE Content(limb, image[limb[1]].data)
ObjectWords(written, object, role, indexes, mods) ==
  [im \in indexes \X mods |-> Load(written, Limb(object, role, im[1], im[2]))] @@ << >>

OutputLimbs(step) == {Limb(step.at.out, "c", cm[1], cm[2]) : cm \in Limbs(step.outComps, QIds(step.outLevel))}

StepRight(step) ==
  ObjectWords(golden, step.at.right, "c", IF WithPlain(step.kind) THEN {0} ELSE 0 .. step.comps - 1, Mods(QIds(step.level)))
StepKeys(step) ==
  IF Switches(step.kind) THEN ObjectWords(golden, step.at.key, "key", KeyIndexes(step.level), Mods(FullIds(step.level))) ELSE NoOperand
StepResult(step) ==
  {Result(step.kind, step.level, step.comps, step.element, x, y, keyData) :
    x \in {ObjectWords(golden, step.at.left, "c", 0 .. step.comps - 1, Mods(QIds(step.level)))},
    y \in {StepRight(step)}, keyData \in {StepKeys(step)}}

StartSoftware ==
  /\ phase = "plan" /\ Len(prepared) = Len(nodes)
  /\ phase' = "software" /\ running' = <<1, 1>>
  /\ UNCHANGED <<frontend, script, oracle, prepared, image, steps, golden, exports, memory, fresh>>

ExecuteSoftware ==
  /\ phase = "software"
  /\ LET step == steps[running[1]]
     IN  \E words \in StepResult(step) :
           golden' = golden @@ [limb \in OutputLimbs(step) |-> words[<<limb[3], limb[4]>>]]
  /\ running' = <<running[1] + 1, 1>>
  /\ phase' = IF running[1] = Len(steps) THEN "lower" ELSE phase
  /\ UNCHANGED <<frontend, script, oracle, prepared, image, steps, exports, memory, fresh>>

(***************************************************************************)
(* Lowering, relocation and packaging.                                     *)
(***************************************************************************)
Relocates(step) ==
  \E program \in {Lowered[ShapeOf(step)]} :
    /\ program # << >>
    /\ \A k \in DOMAIN program : \E stores \in {Mods(LimbsAt(step, program[k].out))} :
         /\ \A limb \in stores \cup Mods(LimbsAt(step, program[k].in)) : Allocated(image, limb)
         /\ \A limb \in stores : Writable(limb)

Relocate ==
  /\ phase = "lower"
  /\ phase' = IF \A k \in DOMAIN steps : Relocates(steps[k]) THEN "package" ELSE "rejected"
  /\ UNCHANGED <<frontend, script, compiled, machine>>

\* Every operation's output is compared with SEAL before anything is delivered.
MatchesOracle(step) ==
  \A cm \in Limbs(step.outComps, QIds(step.outLevel)) : ToSeal(cm[2], golden[Limb(step.at.out, "c", cm[1], cm[2])]) = oracle[step.node][cm]
MetadataAgrees(step) ==
  LET holds == prepared[step.node]
      value == nodes[step.node]
  IN  holds.level = value.level /\ holds.comps = value.comps /\ (scheme = "ckks" => ScalesCompatible(holds.scale, value.scale))

\* One object may be delivered for several values, at a scale of their own.
Deliveries == {<<prepared[n].object, nodes[n].scale>> : n \in Mods(OutputIndices)}

Package ==
  /\ phase = "package"
  /\ LET produced == {steps[k].at.out : k \in DOMAIN steps}
     IN  IF /\ \A delivery \in Deliveries : delivery[1] \in produced
            /\ \A k \in DOMAIN steps : MatchesOracle(steps[k]) /\ MetadataAgrees(steps[k])
         THEN phase' = "hardware" /\ exports' = Deliveries
         ELSE phase' = "rejected" /\ UNCHANGED exports
  /\ running' = <<1, 1>>
  /\ UNCHANGED <<frontend, script, oracle, prepared, image, steps, golden, memory, fresh>>

(***************************************************************************)
(* The HPU.                                                                *)
(***************************************************************************)
CurrentStep == steps[running[1]]
CurrentProgram == Lowered[ShapeOf(CurrentStep)]

Fetched(limb) == IF IsTable(limb) THEN TableContent(limb) ELSE Load(memory, limb)

Compute(task) ==
  \E args \in {[i \in DOMAIN task.in |-> Fetched(LimbAt(CurrentStep, task.in[i]))] \o << >>} :
    \E results \in {Results(task.mod, task.op, args)}, stores \in {LimbsAt(CurrentStep, task.out)} :
      /\ memory' = [i \in Mods(stores) |-> results[CHOOSE k \in DOMAIN stores : stores[k] = i]] @@ memory
      /\ fresh' = IF running'[2] = 1 THEN {} ELSE fresh \cup Mods(stores)

ExecuteTask ==
  /\ phase = "hardware"
  /\ \E program \in {CurrentProgram} :
       LET last == running[2] = Len(program)
       IN  /\ running' = IF last THEN <<running[1] + 1, 1>> ELSE <<running[1], running[2] + 1>>
           /\ phase' = IF last /\ running[1] = Len(steps) THEN "done" ELSE phase
           /\ Compute(program[running[2]])
  /\ UNCHANGED <<frontend, script, compiled>>

Init ==
  /\ FrontendInit /\ phase = "build"
  /\ oracle = << >> /\ prepared = << >> /\ image = << >> /\ steps = << >> /\ golden = << >> /\ exports = {}
  /\ memory = << >> /\ fresh = {} /\ running = <<1, 1>>

Build == FrontendNext /\ UNCHANGED <<compiled, machine>>
Progress == Compile \/ ExecuteOracle \/ Plan \/ StartSoftware \/ ExecuteSoftware \/ Relocate \/ Package \/ ExecuteTask
\* A run ends with everything delivered, or with an exception.
Ended == phase \in {"done", "rejected"} /\ UNCHANGED vars
Next == Build \/ Progress \/ Ended
Spec == Init /\ [][Next]_vars

(***************************************************************************)
(* What applications rely on, whatever their graph is: a context has what  *)
(* the operations need, and a program stays within the objects that its    *)
(* operation has.  Neither depends on a state.                             *)
(***************************************************************************)
ContextComplete ==
  /\ AllPack("canonical", 0, CkksTables \cup BfvTables)
  /\ \A element \in Elements :
       /\ element % 2 = 1 /\ element < Order
       /\ \A level \in Levels : AllPack("fused", element, Grid("intt", {0}, Mods(QIds(level))))
  /\ \A level \in Levels :
       /\ Mods(FullIds(level)) \cup Mods(BskIds(level)) \subseteq ModIds \ {TId}
       /\ Len(BIds(level)) >= Len(QIds(level))

Places == {"left", "right", "out", "work", "key", "constants", "fused", "canonical"}
\* The limbs that an operation of this shape has at each place.
Reach(shape) ==
  LET kind == shape[2][1]
      level == shape[2][2]
      comps == shape[2][3]
      values(count, at) == Grid("c", 0 .. count - 1, Mods(QIds(at)))
      limbs(object, capacity) == IF shape[1] = "ckks" THEN CkksLimbs(object, level, capacity) ELSE BfvLimbs(object, level, capacity)
  IN  [place \in Places |->
        CASE place = "left" -> values(comps, level)
          [] place = "right" -> values(IF WithPlain(kind) THEN 1 ELSE comps, level)
          [] place = "out" -> values(PlannedComponents([kind |-> kind], [comps |-> comps]), PlannedLevel([kind |-> kind], [level |-> level]))
          [] place = "work" -> IF kind = "rotate" \/ (shape[1] = "ckks" /\ kind \in {"relinearize", "rescale"}) THEN values(comps, level) ELSE {}
          [] place = "key" -> IF Switches(kind) THEN limbs(KeyKind(kind), 0) ELSE {}
          [] place = "constants" ->
               IF Switches(kind) \/ kind \in {"rescale", "mod_switch"} \/ (shape[1] = "bfv" /\ kind \in {"multiply", "square"})
               THEN limbs(ConstantsObject(kind, level)[1], comps) ELSE {}
          [] place = "fused" -> IF kind = "rotate" THEN limbs("fused", 0) ELSE {}
          [] place = "canonical" -> IF Transforming(shape[1], kind) THEN limbs("canonical", 0) ELSE {}]
\* Slots that a program may store to, and reads only after that.
Stores(slot) == slot[1] \in {"out", "work"} \/ slot[2] \in Scratch
ProgramsContained ==
  \A shape \in Shapes : \E program \in {Lowered[shape]} :
    /\ program # << >> /\ program \in Seq(Mods(program))
    /\ \A k \in DOMAIN program :
         /\ program[k].in \in Seq(Mods(program[k].in)) /\ program[k].out \in Seq(Mods(program[k].out))
         /\ \A slot \in Mods(program[k].in) \cup Mods(program[k].out) :
              slot[1] \in Places /\ <<slot[2], slot[3], slot[4]>> \in Reach(shape)[slot[1]]
         /\ \A slot \in Mods(program[k].out) : Stores(slot)
         /\ \A slot \in Mods(program[k].in) : Stores(slot) => \E j \in 1 .. k - 1 : slot \in Mods(program[j].out)

(***************************************************************************)
(* Properties.                                                             *)
(***************************************************************************)
Completed(k) == phase = "done" \/ (phase = "hardware" /\ k < running[1])

\* The programs, relocated onto shared tables, keys, constants and workspaces,
\* leave in memory what the software executor computed with its own algorithms,
\* and no later operation disturbs it.
HardwareAgrees ==
  \A k \in DOMAIN steps : Completed(k) => \A limb \in OutputLimbs(steps[k]) : memory[limb] = golden[limb]

\* SEAL refuses to evaluate this node.
SealThrows(n) ==
  /\ n \in DOMAIN nodes /\ nodes[n].kind \in Computations
  /\ \E words \in ValueOf(nodes[n]) : Transparent(words)

\* compile() refuses what the builder accepted call by call only where SEAL itself
\* does, for a result that is transparent: otherwise each resource that an operation
\* finds in the caches is large enough for it, every port is bound, within what is
\* allocated and never onto read-only data, and what the software executor computes
\* is what SEAL does.
AcceptedLowers == phase = "rejected" => SealThrows(Len(oracle) + 1)

\* A task reads a limb that programs write only if this operation wrote it
\* before, or if it is the output of an earlier one: nothing of an earlier use
\* of a shared workspace, or of memory as it was, ever gets into a result.
WorkspaceFresh ==
  phase = "hardware" =>
    \A limb \in Mods(LimbsAt(CurrentStep, CurrentProgram[running[2]].in)) : Writable(limb) =>
      limb \in fresh \/ \E k \in 1 .. running[1] - 1 : limb[1] = steps[k].at.out

\* Every marked value is delivered, with the words that SEAL has for it and at
\* its own scale; without marks it is the last computation, as it was last seen.
Delivered ==
  phase = "done" =>
    \A n \in DOMAIN nodes :
      (IF marked # << >> THEN n \in Mods(marked)
       ELSE PhysicalOrigin(n) = LastComputation /\ \A j \in n + 1 .. Len(nodes) : PhysicalOrigin(j) # LastComputation)
      => /\ <<prepared[n].object, nodes[n].scale>> \in exports
         /\ \A cm \in Limbs(nodes[n].comps, QIds(nodes[n].level)) : ToSeal(cm[2], memory[Limb(prepared[n].object, "c", cm[1], cm[2])]) = oracle[n][cm]
=============================================================================
