--------------------------- MODULE MCFragmentation ---------------------------
(* Payloads of up to LongestData and LongestMetadata bytes for TLC. *)
EXTENDS Fragmentation

CONSTANTS LongestData, LongestMetadata, SmallestFragment, BiggestFragment

MCDataLengths == 0 .. LongestData
MCMetadataLengths == 0 .. LongestMetadata
MCFragmentSizes == SmallestFragment .. BiggestFragment
==============================================================================
