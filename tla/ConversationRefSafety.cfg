\* Three runners on one ref: one whose lease lapses, one that takes over, one
\* that comes after both; equal messages, so equal hashes, are possible.
SPECIFICATION Spec
CONSTANTS
  main = main
  r1 = r1
  r2 = r2
  r3 = r3
  none = none
  hello = hello
  bye = bye
  Refs <- OneRef
  Runners <- ThreeRunners
  NoRunner = none
  Msgs <- TwoMsgs
  Lease = 2
  MaxLen = 3
  MaxNodes = 4
INVARIANTS RefInv ExclusiveLease TurnsContiguous
PROPERTIES ImplementsConversationLog
SYMMETRY Symmetry
