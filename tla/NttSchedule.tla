----------------------------- MODULE NttSchedule -----------------------------
(***************************************************************************)
(* How the transform array walks through a polynomial.  It loads ArrayWidth*)
(* words, neighbours or two runs that lie apart, lets neighbouring         *)
(* registers meet in butterflies, and shuffles the registers on their way  *)
(* in or out (the permutation P), so that every stage finds the words that *)
(* it needs in neighbouring registers.  The price is an order of its own   *)
(* for transformed words, and bit-reversed coefficients.                   *)
(***************************************************************************)
EXTENDS Integers, Sequences, SequencesExt, TLC

CONSTANTS Degree,     \* words of a polynomial, a power of two
          ArrayWidth, \* registers of the array, a power of two
          TransformedOrder  \* what the schedule below leaves transformed words in

Order == 2 * Degree
Index == 1 .. Degree    \* word i has position i - 1
Butterflies == ArrayWidth \div 2
LogDegree == CHOOSE k \in 0 .. Degree : 2 ^ k = Degree
Stages == 0 .. LogDegree - 1

ASSUME ScheduleAssumption ==
  /\ ArrayWidth \in 2 .. Degree
  /\ \E k \in 1 .. Degree : 2 ^ k = ArrayWidth
  /\ \E k \in 1 .. Degree : 2 ^ k = Degree

BitReverse ==
  LET reversed[v \in 0 .. Degree - 1, width \in 0 .. LogDegree] ==
        IF width = 0 THEN 0 ELSE (v % 2) * 2 ^ (width - 1) + reversed[v \div 2, width - 1]
  IN  [v \in 0 .. Degree - 1 |-> reversed[v, LogDegree]] @@ << >>
BitReversed(words) == [i \in Index |-> words[BitReverse[i - 1] + 1]] \o << >>

\* Where P takes the word of a register.
ShuffledTo(register) == (register \div 2) + (register % 2) * Butterflies

\* The positions that a batch loads into registers 0, 1, ..
Batch(first, second, interleaved) ==
  [r \in 1 .. ArrayWidth |->
    IF ~interleaved THEN first + r - 1 ELSE (IF r % 2 = 1 THEN first ELSE second) + ((r - 1) \div 2)] \o << >>
Multiples(step, limit) == [k \in 1 .. limit \div step |-> (k - 1) * step] \o << >>
StageBatches(stage) ==
  LET m == 2 ^ stage
      batchesOf(group) == [k \in 1 .. m \div Butterflies |->
                            LET offset == group + (k - 1) * Butterflies IN Batch(offset, offset + m, TRUE)]
      groups == Multiples(2 * m, Degree)
      bases == Multiples(ArrayWidth, Degree)
  IN  IF m < ArrayWidth THEN [k \in DOMAIN bases |-> Batch(bases[k], bases[k] + Butterflies, FALSE)] \o << >>
      ELSE FlattenSeq([k \in DOMAIN groups |-> batchesOf(groups[k])])

\* The butterflies of a stage in the order of its twiddles: the positions
\* before and behind the shuffle.  A forward stage reads the first and writes
\* the second pair, the inverse stage the other way round.
Meetings(stage) ==
  LET of(batch) == [lane \in 1 .. Butterflies |->
                     [near |-> <<batch[2 * lane - 1], batch[2 * lane]>>,
                      far |-> <<batch[ShuffledTo(2 * lane - 2) + 1], batch[ShuffledTo(2 * lane - 1) + 1]>>]]
      batches == StageBatches(stage)
  IN  FlattenSeq([k \in DOMAIN batches |-> of(batches[k])])
StageMeetings == [s \in Stages |-> Meetings(s) \o << >>] @@ << >>

\* What moves a word: <<butterfly, which of its two>>, by position.
Side(meeting, inverse) == IF inverse THEN meeting.near ELSE meeting.far
WrittenBy ==
  [s \in Stages |-> [inverse \in BOOLEAN |-> [i \in Index |->
    CHOOSE kb \in (DOMAIN StageMeetings[s]) \X {1, 2} : Side(StageMeetings[s][kb[1]], inverse)[kb[2]] = i - 1]
    \o << >>] @@ << >>] @@ << >>

\* Which word of an undisturbed schedule is at a position before stage s: Layout[s + 1].
Moved(layout, s) ==
  [i \in Index |-> LET kb == WrittenBy[s][FALSE][i] IN layout[StageMeetings[s][kb[1]].near[kb[2]] + 1]] \o << >>
Layout ==
  LET before[s \in 0 .. LogDegree] == IF s = 0 THEN [i \in Index |-> i - 1] \o << >> ELSE Moved(before[s - 1], s - 1)
  IN  [k \in 1 .. LogDegree + 1 |-> before[k - 1]] \o << >>
\* The order of transformed words.
ASSUME OrderAssumption == TransformedOrder = Last(Layout)

\* The words that meet in a butterfly: the lower of the two that belong together.
LowerLabel(stage, k) == Layout[stage + 1][StageMeetings[stage][k].near[1] + 1]
UpperLabel(stage, k) == Layout[stage + 1][StageMeetings[stage][k].near[2] + 1]
PairsValid == \A s \in Stages : \A k \in DOMAIN StageMeetings[s] : UpperLabel(s, k) = LowerLabel(s, k) + 2 ^ s
=============================================================================
