----------------------------- MODULE LazyViews ------------------------------
(***************************************************************************)
(* The views of fields/lazy_views.hpp.  An iterator of a base range is the *)
(* number of elements before it; the end of a range of len elements is     *)
(* len.                                                                    *)
(***************************************************************************)
EXTENDS Integers, Sequences

(* repeat_n: count copies of a value; an iterator is a position. *)
RepeatN(value, count) == [i \in 1 .. count |-> value]

-----------------------------------------------------------------------------
(* stride_view: every stride-th element of a base of len elements.  An     *)
(* iterator that stops at the end remembers by how much its last advance   *)
(* fell short, so that it can step back to a multiple of the stride.       *)

(* std::ranges::advance(cur, k, end) for k >= 0. *)
Reached(v, it, k) ==
  IF k <= v.len - it.cur THEN [cur |-> it.cur + k, missing |-> 0]
                         ELSE [cur |-> v.len, missing |-> k - (v.len - it.cur)]

StrideBegin(v) == [cur |-> 0, missing |-> 0]

(* Fault: the end is taken to be a multiple of the stride. *)
StrideEnd_Even(v) == [cur |-> v.len, missing |-> 0]
StrideEnd(v) == [cur |-> v.len, missing |-> (v.stride - (v.len % v.stride)) % v.stride]

StrideNext(v, it) == Reached(v, it, v.stride)
StridePrev(v, it) == [cur |-> it.cur + it.missing - v.stride, missing |-> 0]
StridePlus(v, it, k) ==
  IF k > 0 THEN Reached(v, it, v.stride * k)
  ELSE IF k < 0 THEN [cur |-> it.cur + v.stride * k + it.missing, missing |-> 0]
  ELSE it

StrideDistance(v, a, b) ==
  LET dist == a.cur - b.cur
  IN  IF dist > 0 THEN (dist + a.missing) \div v.stride
      ELSE IF dist < 0 THEN -((-dist + b.missing) \div v.stride)
      ELSE 0

StrideSize(v) == (v.len + v.stride - 1) \div v.stride

-----------------------------------------------------------------------------
(* cartesian_product_view of three ranges with lens elements, the last one *)
(* fastest.                                                                *)

ProductEnd(lens) == <<lens[1], 0, 0>>
ProductBegin(lens) == IF \E e \in 1 .. 3 : lens[e] = 0 THEN ProductEnd(lens) ELSE <<0, 0, 0>>

ProductNext(lens, it) ==
  IF it[3] + 1 # lens[3] THEN <<it[1], it[2], it[3] + 1>>
  ELSE IF it[2] + 1 # lens[2] THEN <<it[1], it[2] + 1, 0>>
  ELSE <<it[1] + 1, 0, 0>>

ProductSize(lens) == lens[1] * lens[2] * lens[3]
=============================================================================
