\* Every document whose feed classes list at most one partition: each key
\* present or absent, each entry active or not, with or without its name
\* and its other fields, each feed class with or without its IPs.  One
\* partition per class is enough for every early return and for equity's
\* partitions to precede derivative's.
CONSTANTS
  MaxPartitions = 1

SPECIFICATION Spec

INVARIANTS
  ConfigTypeOK
  

\* The object does nothing once both parse functions have been called.
CHECK_DEADLOCK FALSE
