CONSTANTS
  WordBits <- MCWordBits
  Words <- MCWords

SPECIFICATION Spec

INVARIANT ModifiedPagesIsPopCount
