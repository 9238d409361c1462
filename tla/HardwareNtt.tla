----------------------------- MODULE HardwareNtt -----------------------------
(***************************************************************************)
(* The transforms as the HPU executes them: a product with twist factors   *)
(* and one pass of the array for each stage.  Twiddles lie in memory as    *)
(* parameters of a recurrence with several chains, from which the HPU makes*)
(* the factors of each batch online; a table that does not follow the      *)
(* recurrence cannot be packed.                                            *)
(***************************************************************************)
EXTENDS RnsRing

CONSTANT Chains   \* chains of the recurrence

ASSUME ChainsAssumption == Chains \in Nat \ {0}

(***************************************************************************)
(* Packing: the factors of the first batch, one starting value for each    *)
(* other chain, and the ratios between batches of one chain, which change  *)
(* like the digits of a counter.                                           *)
(***************************************************************************)
BatchCount(factors) == Len(factors) \div Butterflies
RatioCount(batches) ==
  LET halvings[b \in 0 .. batches] == IF b <= Chains THEN 0 ELSE 1 + halvings[b \div 2]
  IN  halvings[batches]
FirstOf(factors, batch) == factors[Butterflies * batch + 1]
Quotient(m, x, y) == (x * InverseMod(y, m)) % Q(m)

RatiosOf(m, factors) ==
  [r \in 1 .. RatioCount(BatchCount(factors)) |->
    Quotient(m, FirstOf(factors, Chains * 2 ^ (r - 1)), FirstOf(factors, Chains * (2 ^ (r - 1) - 1)))] \o << >>
Packed(m, factors, starts) ==
  [lanes |-> SubSeq(factors, 1, Butterflies),
   starts |-> [slot \in 1 .. Chains |-> IF slot = 1 \/ slot > BatchCount(factors) THEN 1 ELSE starts[slot - 1]] \o << >>,
   ratios |-> RatiosOf(m, factors)]

PackOnlineFactors(m, factors) ==
  Packed(m, factors, [slot \in 1 .. Chains - 1 |-> Quotient(m, FirstOf(factors, slot), factors[1])])
\* A table of stage twiddles starts with 1.
PackStageTwiddles(m, table) == Packed(m, table, [slot \in 1 .. Chains - 1 |-> FirstOf(table, slot)])

TrailingZeros(n) ==
  LET zeros[v \in 1 .. n] == IF v % 2 = 1 THEN 0 ELSE 1 + zeros[v \div 2] IN zeros[n]
Expand(m, parameters, length) ==
  LET word[batch \in 0 .. (length \div Butterflies) - 1, lane \in 1 .. Butterflies] ==
        IF batch < Chains THEN (parameters.lanes[lane] * parameters.starts[batch + 1]) % Q(m)
        ELSE (word[batch - Chains, lane] * parameters.ratios[TrailingZeros(batch \div Chains) + 1]) % Q(m)
  IN  [i \in 1 .. length |-> word[(i - 1) \div Butterflies, ((i - 1) % Butterflies) + 1]] \o << >>
ExpandOnlineFactors(m, parameters) == Expand(m, parameters, Degree)
ExpandStageTwiddles(m, parameters) == Expand(m, parameters, Degree \div 2)

(***************************************************************************)
(* Tables.  The root of an inverse transform is the e-th power of psi.     *)
(***************************************************************************)
PreTwist(m) == [i \in Index |-> RootPower(m + 1, BitReverse[i - 1])] \o << >>

ForwardTwiddles(m) ==
  [stage \in 1 .. LogDegree |->
    LET s == stage - 1
    IN  [k \in 1 .. Degree \div 2 |-> RootPower(m + 1, (LowerLabel(s, k) % 2 ^ s) * (Degree \div 2 ^ s))] \o << >>] \o << >>

\* Inverse stages leave a scale on every word, which the last product takes
\* away again: scales[t] is that of the words before inverse stage t, from 1.
Rescaled(m, e, before, s) ==
  [i \in Index |->
    LET kb == WrittenBy[s][TRUE][i]
        alpha == before[StageMeetings[s][kb[1]].far[1] + 1]
    IN  IF kb[2] = 1 THEN alpha
        ELSE (alpha * RootPower(m + 1, e * (LowerLabel(s, kb[1]) % 2 ^ s) * (Degree \div 2 ^ s))) % Q(m)] \o << >>
InverseScales(m, e) ==
  LET before[t \in 0 .. LogDegree] ==
        IF t = 0 THEN [i \in Index |-> 1] \o << >> ELSE Rescaled(m, e, before[t - 1], LogDegree - t)
  IN  [t \in 1 .. LogDegree + 1 |-> before[t - 1]] \o << >>

InverseTwiddles(m, scales) ==
  [stage \in 1 .. LogDegree |->
    LET meetings == StageMeetings[LogDegree - stage]
    IN  [k \in 1 .. Degree \div 2 |->
          Quotient(m, scales[stage][meetings[k].far[1] + 1], scales[stage][meetings[k].far[2] + 1])] \o << >>] \o << >>
PostScale(m, scales) ==
  [i \in Index |-> (InverseMod(Last(scales)[i], m) * InverseMod(Degree, m)) % Q(m)] \o << >>
PostFactors(m, e, scales) ==
  LET scale == PostScale(m, scales)
  IN  [i \in Index |-> (scale[i] * RootPower(m + 1, Order * Order - e * BitReverse[i - 1])) % Q(m)] \o << >>

\* What is written to memory, and whether it stands for the whole tables.
StoredTables(m, twist, stages) ==
  [twist |-> PackOnlineFactors(m, twist), stages |-> [s \in 1 .. LogDegree |-> PackStageTwiddles(m, stages[s])] \o << >>]
Faithful(m, stored, twist, stages) ==
  /\ ExpandOnlineFactors(m, stored.twist) = twist
  /\ \A s \in 1 .. LogDegree : stages[s][1] = 1 /\ ExpandStageTwiddles(m, stored.stages[s]) = stages[s]

Entry(m, twist, stages) ==
  CHOOSE entry \in {[stored |-> stored, faithful |-> Faithful(m, stored, twist, stages)] : stored \in {StoredTables(m, twist, stages)}} : TRUE
InverseEntry(m, e, scales) == Entry(m, PostFactors(m, e, scales), InverseTwiddles(m, scales))

StoredForward == [k \in Transformed |-> Entry(k - 1, PreTwist(k - 1), ForwardTwiddles(k - 1))] \o << >>
OddExponents == {e \in 1 .. Order : e % 2 = 1}
StoredInverse ==
  [k \in Transformed |-> [e \in OddExponents |-> InverseEntry(k - 1, e, InverseScales(k - 1, e))] @@ << >>] \o << >>
StoredTable(table) == IF table = ForwardTable(table[1]) THEN StoredForward[table[1] + 1] ELSE StoredInverse[table[1] + 1][table[2]]
TablePacks(table) == StoredTable(table).faithful

(***************************************************************************)
(* Execution.                                                              *)
(***************************************************************************)
ExecuteStage(m, words, twiddles, s, inverse) ==
  LET read(k) == IF inverse THEN StageMeetings[s][k].far ELSE StageMeetings[s][k].near
      result(kb) ==
        LET one == words[read(kb[1])[1] + 1]
            product == (words[read(kb[1])[2] + 1] * twiddles[kb[1]]) % Q(m)
        IN  IF kb[2] = 1 THEN (one + product) % Q(m) ELSE (one + Q(m) - product) % Q(m)
  IN  [i \in Index |-> result(WrittenBy[s][inverse][i])] \o << >>

\* stored is what the table's limb holds.
NttBody(m, words, stored) ==
  LET after[t \in 0 .. LogDegree] ==
        IF t = 0 THEN Mul(m, words, ExpandOnlineFactors(m, stored.twist))
        ELSE ExecuteStage(m, after[t - 1], ExpandStageTwiddles(m, stored.stages[t]), t - 1, FALSE)
  IN  after[LogDegree]
InttBody(m, words, stored) ==
  LET after[t \in 0 .. LogDegree] ==
        IF t = 0 THEN Reduced(m, words)
        ELSE ExecuteStage(m, after[t - 1], ExpandStageTwiddles(m, stored.stages[t]), LogDegree - t, TRUE)
  IN  Mul(m, after[LogDegree], ExpandOnlineFactors(m, stored.twist))
=============================================================================
