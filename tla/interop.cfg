SPECIFICATION Spec
CONSTANTS
  Names <- MCNames
  Numbers <- MCNumbers
  IntLimit = 4
  Arrays <- MCArrays
  Vectors <- MCVectors
  Objects = {o1}
  Lookalikes <- MCLookalikes
  Garbage = Garbage
  None = None
INVARIANTS
  TypeOK
  WhatWasPutComesBack
  RequestsAreJudged
