\* The power may fail while the configuration sector is being written.
CONSTANT
  Count = 2
SPECIFICATION Spec
INVARIANT
  CorruptedConfigReplaced
