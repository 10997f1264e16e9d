\* Three attempts, answers of up to three frames of 3 or 4 bytes, read three
\* bytes at a time: frames lie on, across and beside the reads.
CONSTANTS
  MaxStreamRetries = 3
  ReadSize = 3
  MaxFrames = 3
SPECIFICATION FairSpec
INVARIANTS
  TypeOK
  ResponseIsTheAnswer
  RetriesAreEarned
PROPERTIES
  
  CallEnds
