\* Fragments of 7 to 13 bytes, and payloads of every length up to several of them.
SPECIFICATION FairSpec
CONSTANTS
  LongestData = 20
  LongestMetadata = 16
  SmallestFragment = 7
  BiggestFragment = 13
  DataLengths <- MCDataLengths
  MetadataLengths <- MCMetadataLengths
  FragmentSizes <- MCFragmentSizes
INVARIANTS TypeOK RoundTrip FragmentsFit
PROPERTY Terminates
CHECK_DEADLOCK FALSE
