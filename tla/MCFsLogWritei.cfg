CONSTANTS
  LogSize <- MCLogSize
  MaxOps <- MCMaxOps
  MaxCrashes <- MCMaxCrashes
  WriteParts <- MCWriteParts

SPECIFICATION Spec

PROPERTY WriteiAtomicity
