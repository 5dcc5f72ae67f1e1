CONSTANTS
  LogSize <- MCLogSize
  MaxOps <- MCMaxOps
  MaxCrashes <- MCMaxCrashes
  WriteParts <- MCWriteParts

SPECIFICATION Spec
VIEW MCView

INVARIANT TypeOK
PROPERTY TxAtomicity
