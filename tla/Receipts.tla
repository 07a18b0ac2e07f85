------------------------------ MODULE Receipts ------------------------------
(***************************************************************************)
(* The hash lists of src/types/receipt.go: ReceiptList.Hash, HashList.Hash *)
(* and Receipts.Hash, as pure operators over symbolic hashes.              *)
(*                                                                         *)
(* A receipt is a model value; everything BalHash reads of it, ZoneID     *)
(* included, is part of that value.  Hashes are terms: EmptyHash (the all- *)
(* zero common.EmptyHash), the leaf BalHash(r) of a receipt, and the node  *)
(* merkle.SimpleHashFromTwoHashes(left, right).  The hash functions are    *)
(* taken as collision free, so two terms are equal exactly when the hashes *)
(* are; common.BytesToHash of the 20- or 32-byte node hash is injective and *)
(* keeps this.  A Receipts map (zone id -> ReceiptList) is a function whose *)
(* domain is the set of zone ids present.                                  *)
(***************************************************************************)
EXTENDS Integers, Sequences, SequencesExt, TLC

EmptyHash == <<"empty">>

\* BalHash(r): keccak256 of the receipt's binary encoding.
BalHash(r) == <<"leaf", r>>

\* merkle.SimpleHashFromTwoHashes(left, right) through common.BytesToHash.
SimpleHashFromTwoHashes(l, r) == <<"node", l, r>>

\* The split point of both lists: (len+1)/2 elements go left.
Half(n) == (n + 1) \div 2

\* Mutant of ReceiptListHash: the list split at len/2.
RECURSIVE ReceiptListHashFloorSplit(_)
ReceiptListHashFloorSplit(r) ==
    CASE Len(r) = 0 -> EmptyHash
      [] Len(r) = 1 -> BalHash(r[1])
      [] OTHER -> SimpleHashFromTwoHashes(
                      ReceiptListHashFloorSplit(SubSeq(r, 1, Len(r) \div 2)),
                      ReceiptListHashFloorSplit(SubSeq(r, Len(r) \div 2 + 1, Len(r))))

\* ReceiptList.Hash: empty -> EmptyHash; one receipt -> its own hash;
\* otherwise the node of the two halves' hashes.
RECURSIVE ReceiptListHash(_)
ReceiptListHash(r) ==
    CASE Len(r) = 0 -> EmptyHash
      [] Len(r) = 1 -> BalHash(r[1])
      [] OTHER -> SimpleHashFromTwoHashes(
                      ReceiptListHash(SubSeq(r, 1, Half(Len(r)))),
                      ReceiptListHash(SubSeq(r, Half(Len(r)) + 1, Len(r))))

\* HashList.Hash: as ReceiptList.Hash, but one hash is returned as it is.
RECURSIVE HashListHash(_)
HashListHash(hl) ==
    CASE Len(hl) = 0 -> EmptyHash
      [] Len(hl) = 1 -> hl[1]
      [] OTHER -> SimpleHashFromTwoHashes(
                      HashListHash(SubSeq(hl, 1, Half(Len(hl)))),
                      HashListHash(SubSeq(hl, Half(Len(hl)) + 1, Len(hl))))

\* The orders in which the loop `for zoneid, _ := range r` can collect the
\* zone ids of m: Go leaves the iteration order of a map unspecified.
CollectOrders(m) == SetToSeqs(DOMAIN m)

ReceiptsHashFrom(m, order) ==
    LET zs == SortSeq(order, <)
    IN  HashListHash([i \in 1..Len(zs) |-> ReceiptListHash(m[zs[i]])])

=============================================================================
