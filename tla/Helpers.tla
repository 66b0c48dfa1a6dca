------------------------------ MODULE Helpers ------------------------------
(***************************************************************************)
(* The comparison and assignment helpers of internal/helpers/formats.go     *)
(* that the client packages share.                                          *)
(***************************************************************************)
CONSTANT Nil    \* an unset pointer

\* IsComparablePtrEqualComparable and its slice and map forms: an unset pointer
\* differs from nothing.
PtrEq(ptr, val) == ptr = Nil \/ ptr = val

\* AssignIfNil.
AssignIfNil(ptr, val) == IF ptr = Nil THEN val ELSE ptr
============================================================================
