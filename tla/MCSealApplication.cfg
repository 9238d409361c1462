SPECIFICATION Spec
CONSTANTS
  DataModuli <- MCDataModuli
  SpecialModulus = 193
  AuxiliaryBases <- MCAuxiliaryBases
  SwitchModuli <- MCSwitchModuli
  PlainModulus = 5
  ModulusTable <- MCModulusTable
  Degree = 8
  ArrayWidth = 4
  Chains = 2
  Root <- MCRoot
  TransformedOrder <- MCTransformedOrder
  SealData <- MCSealData
  Secret <- MCSecret
  Ciphertexts <- MCCiphertexts
  Plaintexts <- MCPlaintexts
  RelinKeySets = {"r", "s"}
  GaloisKeySets <- MCGaloisKeySets
  Rotations <- MCRotations
  ScaleBits = 2
  ModulusBits <- MCModulusBits
  Scripts <- MCScripts
INVARIANTS RoundsExactly KeySwitchKeepsMessage ProductScaled HardwareAgrees AcceptedLowers WorkspaceFresh Delivered
