\* With three descriptors a leaked one shows before the program runs out of them.
SPECIFICATION Spec
CONSTANT MaxDescriptor = 2
INVARIANTS
  TypeOK
  NoSocketLeft
  UsesOpenSocket
