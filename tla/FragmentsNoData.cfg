\* A request of 8 bytes of metadata and no data, in fragments of 7 bytes.
SPECIFICATION Spec
CONSTANTS
  LongestData = 0
  LongestMetadata = 8
  SmallestFragment = 7
  BiggestFragment = 7
  DataLengths = {0}
  MetadataLengths = {8}
  FragmentSizes = {7}
INVARIANT EveryPayloadArrives
\* The generators end.
CHECK_DEADLOCK FALSE
