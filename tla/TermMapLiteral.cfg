CONSTANTS
  TermOrder <- Compare
  CompilerOrder <- ErlangCompare
  Mantissa = 3
  Keys <- MCMapKeys
  Values <- MCValues
  Literals <- MCMapLiterals
  KeyLists = {}
SPECIFICATION DictSpec
INVARIANTS
  ReadsAgree
