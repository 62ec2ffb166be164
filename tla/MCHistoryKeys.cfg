\* The Seek search key against the key encoding and the numeric order, for
\* every pair of keys over timestamps of one to three digits.
CONSTANTS
  n1 = n1  n2 = n2
  Empty = Empty  PropsName = PropsName  Garbage = Garbage
  Agents = {}  ThingIDs = {}  Datas = {}  BulkPayloads = {}
  Names <- MCNames
  NameOrder <- MCNameOrder
  Times <- MCTimes
SPECIFICATION Spec
INVARIANT SeekWithinWidth
