----------------------------- MODULE SealLevels -----------------------------
(***************************************************************************)
(* The levels of a SEAL context as the HPU sees them.  Data moduli are     *)
(* dropped from the last one on, one special modulus P follows them in the *)
(* table whatever the level is, and BFV adds, for each level, the base B   *)
(* and the modulus m_sk of its multiplication, and the plaintext modulus   *)
(* as the last entry.  A MOD_ID is a position in this table, from 0.       *)
(***************************************************************************)
EXTENDS Integers, Sequences, SequencesExt

CONSTANTS DataModuli,       \* Q of the first data level, in the order of the chain
          SpecialModulus,   \* P
          AuxiliaryBases,   \* entry l + 1: the moduli of B at level l
          SwitchModuli,     \* entry l + 1: m_sk at level l
          PlainModulus,     \* t
          ModulusTable      \* what the registry below comes to

ASSUME LevelsAssumption ==
  /\ DataModuli \in Seq(Nat) /\ Len(DataModuli) > 0
  /\ Len(AuxiliaryBases) = Len(DataModuli) /\ Len(SwitchModuli) = Len(DataModuli)
  \* The level registry refuses a base that meets Q, P, t or its own m_sk.
  /\ LET qp == ToSet(DataModuli) \cup {SpecialModulus}
     IN  \A k \in DOMAIN DataModuli :
           LET base == ToSet(AuxiliaryBases[k])
           IN  /\ base # {} /\ base \cap (qp \cup {PlainModulus}) = {}
               /\ SwitchModuli[k] \notin qp \cup base \cup {PlainModulus}

\* A level is its SEAL chain index: level l has the data moduli 0 .. l.
TopLevel == Len(DataModuli) - 1
Levels == 0 .. TopLevel
HasNextLevel(level) == level > 0
NextLevel(level) == level - 1

TableWith(table, q) == IF q \in ToSet(table) THEN table ELSE Append(table, q)

\* The auxiliary moduli of the levels, from the first data level down.
AuxiliaryModuli ==
  FlattenSeq([k \in DOMAIN DataModuli |->
    LET entry == Len(DataModuli) + 1 - k IN Append(AuxiliaryBases[entry], SwitchModuli[entry])])
RegisteredModuli ==
  LET upTo[k \in 0 .. Len(AuxiliaryModuli)] ==
        IF k = 0 THEN Append(DataModuli, SpecialModulus) ELSE TableWith(upTo[k - 1], AuxiliaryModuli[k])
  IN  TableWith(upTo[Len(AuxiliaryModuli)], PlainModulus)
ASSUME TableAssumption == ModulusTable = RegisteredModuli

ModIds == 0 .. Len(ModulusTable) - 1
Q(m) == ModulusTable[m + 1]
IdOf(q) == (CHOOSE k \in DOMAIN ModulusTable : ModulusTable[k] = q) - 1

PId == Len(DataModuli)
QIds(level) == [k \in 1 .. level + 1 |-> k - 1]
FullIds(level) == Append(QIds(level), PId)
\* Key switching takes the active data moduli apart one by one.
KeyDigits(level) == [k \in 1 .. level + 1 |-> <<k - 1>>]
Dropped(level) == level
BIds(level) == [k \in DOMAIN AuxiliaryBases[level + 1] |-> IdOf(AuxiliaryBases[level + 1][k])]
MskId(level) == IdOf(SwitchModuli[level + 1])
BskIds(level) == Append(BIds(level), MskId(level))
TId == IdOf(PlainModulus)
=============================================================================
