----------------------------- MODULE MCEarlyMem -----------------------------
(* EarlyMem for TLC: memory of MemPages pages cut into at most four        *)
(* entries at the given places, each of any type.  A hole in the map is a  *)
(* reserved entry the code ignores.                                        *)
EXTENDS EarlyMem, FiniteSetsExt, SequencesExt

CONSTANTS MemPages, Cuts

Types == {"usable", "reclaimable", "reserved"}
MapOf(cuts, types) ==
  LET bounds == SetToSortSeq(cuts \cup {0, MemPages}, <)
  IN  [i \in 1..(Len(bounds) - 1) |->
         [base |-> bounds[i], length |-> bounds[i + 1] - bounds[i], type |-> types[i]]]
MCMaps ==
  UNION {{MapOf(c, t) : t \in [1..(Cardinality(c) + 1) -> Types]} :
           c \in UNION {kSubset(n, Cuts) : n \in 0..3}}

(* two sections of the image near the top of the region *)
MCSections == <<[virt |-> 36, phys |-> 100, length |-> 2], [virt |-> 39, phys |-> 102, length |-> 1]>>
=============================================================================
