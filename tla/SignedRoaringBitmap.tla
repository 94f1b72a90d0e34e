------------------------- MODULE SignedRoaringBitmap -------------------------
(***************************************************************************)
(* The symbolic offset set of chroma_types (SignedRoaringBitmap): either   *)
(* the offsets it includes or the offsets it excludes from an unmaterial-  *)
(* ised universe.  The type lives outside src/, so these definitions are   *)
(* taken from the behaviour spec.md (section 4.1) gives them.              *)
(***************************************************************************)

Include(s) == [sign |-> "Include", set |-> s]
Exclude(s) == [sign |-> "Exclude", set |-> s]

\* SignedRoaringBitmap::empty() and ::full()
Empty == Include({})
Full  == Exclude({})

\* BitAnd for SignedRoaringBitmap: the four sign combinations
BitAnd(a, b) ==
    CASE a.sign = "Include" /\ b.sign = "Include" -> Include(a.set \cap b.set)
      [] a.sign = "Include" /\ b.sign = "Exclude" -> Include(a.set \ b.set)
      [] a.sign = "Exclude" /\ b.sign = "Include" -> Include(b.set \ a.set)
      [] a.sign = "Exclude" /\ b.sign = "Exclude" -> Exclude(a.set \cup b.set)

\* BitOr for SignedRoaringBitmap
BitOr(a, b) ==
    CASE a.sign = "Include" /\ b.sign = "Include" -> Include(a.set \cup b.set)
      [] a.sign = "Include" /\ b.sign = "Exclude" -> Exclude(b.set \ a.set)
      [] a.sign = "Exclude" /\ b.sign = "Include" -> Exclude(a.set \ b.set)
      [] a.sign = "Exclude" /\ b.sign = "Exclude" -> Exclude(a.set \cap b.set)

\* The offsets of universe U a bitmap selects, as the next operator reads it
Selects(b, U) == IF b.sign = "Include" THEN b.set \cap U ELSE U \ b.set

=============================================================================
