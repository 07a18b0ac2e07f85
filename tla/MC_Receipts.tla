---------------------------- MODULE MC_Receipts ----------------------------
(***************************************************************************)
(* Checks the receipt hash lists over every Receipts map of the zones in  *)
(* Zones, each zone's list holding MinLen..MaxLen receipts of ReceiptsIn.  *)
(* Receipts.Hash does not check that a receipt's ZoneID is its key, and    *)
(* receipt_test.go files a ZoneID 7 receipt under key -1, so any receipt  *)
(* may be filed under any key.                                             *)
(* The variable starts at the empty map and then visits every map; each   *)
(* property compares the map's hash with a reference shape or with the    *)
(* hashes of all other maps.                                               *)
(***************************************************************************)
EXTENDS Receipts, FiniteSets

CONSTANTS
    Zones,       \* zone ids (integers)
    ReceiptsIn,  \* [Zones -> the receipts a caller may file under that key]
    MinLen,      \* fewest receipts in a zone's list
    MaxLen       \* most receipts in a zone's list

\* Zone keys as in receipt_test.go: a negative one and a positive one.
MCZones == {-1, 1}

\* The same two receipts may be filed under every key.
MCReceiptsIn == [z \in Zones |-> {"ra", "rb"}]

\* The ReceiptLists zone z can hold.
ListsOf(z) == UNION {[1..n -> ReceiptsIn[z]] : n \in MinLen..MaxLen}

\* Every Receipts map: a set of zones present, each with one of its lists.
Maps ==
    UNION {{m \in [D -> UNION {ListsOf(z) : z \in Zones}] :
               \A z \in D : m[z] \in ListsOf(z)} : D \in SUBSET Zones}

VARIABLE m

\* The empty Receipts map (no zone present).
NoReceipts == [z \in {} |-> <<>>]

Init == m = NoReceipts

Next == m' \in Maps

Spec == Init /\ [][Next]_m

-----------------------------------------------------------------------------
(* Reference definitions.                                                  *)

\* The receipts under a hash, left to right.
RECURSIVE Leaves(_)
Leaves(h) ==
    CASE h[1] = "leaf" -> <<h[2]>>
      [] h[1] = "node" -> Leaves(h[2]) \o Leaves(h[3])
      [] OTHER -> <<>>

\* Every node of h splits its leaves with the larger half on the left.
RECURSIVE LeftHeavy(_)
LeftHeavy(h) ==
    h[1] = "node" =>
        /\ Len(Leaves(h[2])) = (Len(Leaves(h)) + 1) \div 2
        /\ LeftHeavy(h[2]) /\ LeftHeavy(h[3])

-----------------------------------------------------------------------------
(* Properties.                                                             *)

\* ReceiptList.Hash builds, for every zone's list, the tree whose leaves are
\* the list's receipts in order, each node splitting its receipts at
\* (len+1)/2, and the empty list hashes to EmptyHash.
ListHashShape ==
    \A z \in DOMAIN m :
        LET h == ReceiptListHash(m[z])
        IN  /\ Leaves(h) = m[z]
            /\ LeftHeavy(h)
            /\ (m[z] = <<>>) = (h = EmptyHash)

\* The zone ids of m in increasing order, by rank.
Ascending(rm) ==
    [i \in 1..Cardinality(DOMAIN rm) |->
        CHOOSE z \in DOMAIN rm : Cardinality({y \in DOMAIN rm : y < z}) = i - 1]

ReceiptsHashBinding ==
    \A m2 \in Maps, o \in CollectOrders(m) : \A o2 \in CollectOrders(m2) :
        ReceiptsHashFrom(m2, o2) = ReceiptsHashFrom(m, o) => m2 = m

=============================================================================
