CONSTANTS
  TermOrder <- Compare
  CompilerOrder <- ErlangCompare
  Mantissa = 3
  Keys <- MCKeys
  Values <- MCValues
  Literals <- MCLiterals
  KeyLists <- MCKeyLists
SPECIFICATION DictSpec
INVARIANTS
  TypeOK
  KeysOrdered
  Balanced
  ReadsAgree
  ActsAsDictionary
