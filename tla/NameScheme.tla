----------------------------- MODULE NameScheme -----------------------------
(***************************************************************************)
(* The Disfix name scheme of src/bal/codec.go: a registered name is hashed *)
(* (SHA-256) and the digest is cut into a 3-byte Disamb and a 4-byte       *)
(* Prefix, each starting after a run of zero bytes has been stripped.      *)
(*                                                                         *)
(* The hash itself is not modelled: a digest is any finite sequence of     *)
(* bytes, drawn in the MC modules from a small alphabet that contains 0.   *)
(* What is modelled is everything nameToDisfix does to the digest,         *)
(* including the panic when the digest runs out before a segment is full  *)
(* (Go's index-out-of-range on bz[0] or on bz[0:3] / bz[0:4]).             *)
(***************************************************************************)
EXTENDS Naturals, Sequences

DisambBytesLen == 3
PrefixBytesLen == 4
DisfixBytesLen == DisambBytesLen + PrefixBytesLen

\* The outcome of nameToDisfix when the digest is exhausted (a Go panic),
\* shaped like a tag so that TLC can compare the two.
NameToDisfixPanic == [disamb |-> <<>>, prefix |-> <<>>]

\* Mutant of StripZeros: `if` in place of `for`, one zero byte dropped.
StripOneZero(bz) == IF bz # <<>> /\ Head(bz) = 0 THEN Tail(bz) ELSE bz

\* `for bz[0] == 0x00 { bz = bz[1:] }`: drop leading zero bytes.  On an
\* all-zero (or empty) slice Go panics on bz[0]; the caller sees that as a
\* result shorter than the segment it needs, which it turns into the panic.
RECURSIVE StripZeros(_)
StripZeros(bz) ==
    IF bz # <<>> /\ Head(bz) = 0 THEN StripZeros(Tail(bz)) ELSE bz

\* Mutant of NameToDisfix: the digest's leading zeros are not stripped.
NameToDisfixNoStrip(bz) ==
    LET s1 == bz
        s2 == StripZeros(SubSeq(s1, DisambBytesLen + 1, Len(s1)))
    IN  IF Len(s1) < DisambBytesLen \/ Len(s2) < PrefixBytesLen
        THEN NameToDisfixPanic
        ELSE [disamb |-> SubSeq(s1, 1, DisambBytesLen),
              prefix |-> SubSeq(s2, 1, PrefixBytesLen)]

\* nameToDisfix(name) applied to the digest bz of name: the Disamb is the
\* next 3 bytes after the stripped zeros, the Prefix the next 4 bytes after
\* the zeros that follow the Disamb.
NameToDisfix(bz) ==
    LET s1 == StripZeros(bz)
        s2 == StripZeros(SubSeq(s1, DisambBytesLen + 1, Len(s1)))
    IN  IF Len(s1) < DisambBytesLen \/ Len(s2) < PrefixBytesLen
        THEN NameToDisfixPanic
        ELSE [disamb |-> SubSeq(s1, 1, DisambBytesLen),
              prefix |-> SubSeq(s2, 1, PrefixBytesLen)]

\* toDisfix(db, pb): the 7 tag bytes, Disamb first.
ToDisfix(db, pb) == db \o pb

=============================================================================
