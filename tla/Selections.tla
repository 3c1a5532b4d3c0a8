----------------------------- MODULE Selections -----------------------------
(***************************************************************************)
(* Selection descriptors (fields/selection_desc.hpp): which elements of a  *)
(* flat buffer an operation touches.  A descriptor is given here by the    *)
(* sequence of its elements.  A buffer is a function on flat indices.      *)
(***************************************************************************)
EXTENDS StencilField

(* Elements of the descriptors, in the order of their numbers 0, 1, ... *)
Contiguous(offset, count) == [i \in 1 .. count |-> offset + i - 1]
Strided(offset, inner, outer, stride) ==
  [i \in 1 .. inner * outer |-> offset + ((i - 1) \div inner) * stride + ((i - 1) % inner)]

(* The planes of a mesh with extents ext. *)
MakeXPlane(ext, i) == Contiguous(i * ext[1] * ext[2], ext[1] * ext[2])

(* Fault: the rows of the plane follow one another. *)
MakeYPlane_Dense(ext, j) == Strided(j * ext[2], ext[2], ext[0], ext[2])
MakeYPlane(ext, j) == Strided(j * ext[2], ext[2], ext[0], ext[1] * ext[2])

MakeZPlane(ext, k) == Strided(k, 1, ext[0] * ext[1], ext[2])

MakePlane(ext, d, i) ==
  CASE d = 0 -> MakeXPlane(ext, i) [] d = 1 -> MakeYPlane(ext, i) [] d = 2 -> MakeZPlane(ext, i)

(* Positions within infos at which the predicate holds: where infos is one *)
(* of those.                                                               *)
GatherFromPredicate(infos, those) ==
  FlattenSeq([i \in DOMAIN infos |-> IF infos[i] \in those THEN <<i>> ELSE <<>>])

(* The faces of condition bc, x before y before z and left before right.   *)
GridFaces(bc, grid, ext) ==
  LET faces == <<<<0, FALSE>>, <<0, TRUE>>, <<1, FALSE>>, <<1, TRUE>>, <<2, FALSE>>, <<2, TRUE>>>>
      has(f) == bc = IF f[2] THEN grid[f[1]].right ELSE grid[f[1]].left
      plane(f) == MakePlane(ext, f[1], IF f[2] THEN ext[f[1]] - 1 ELSE 0)
  IN  FlattenSeq([i \in 1 .. 6 |-> IF has(faces[i]) THEN <<plane(faces[i])>> ELSE <<>>])

Elements(desc) == {desc[i] : i \in DOMAIN desc}

(* The operations run over a descriptor's elements in parallel; the source *)
(* is read at the element, as handle_expr does.                            *)
AssignSelected(dst, desc, src) ==
  LET at == Elements(desc) IN [x \in DOMAIN dst |-> IF x \in at THEN src[x] ELSE dst[x]]
FillSelected(dst, desc, value) == AssignSelected(dst, desc, [x \in DOMAIN dst |-> value])
PlusAssignSelected(dst, desc, src) ==
  LET at == Elements(desc) IN [x \in DOMAIN dst |-> IF x \in at THEN dst[x] ++ src[x] ELSE dst[x]]
TimesAssign(dst, value) == [x \in DOMAIN dst |-> value ** dst[x]]

FillFaces(dst, descs, value) ==
  FoldLeft(LAMBDA f, desc : FillSelected(f, desc, value), dst, descs)
AssignFaces(dst, descs, src) ==
  FoldLeft(LAMBDA f, desc : AssignSelected(f, desc, src), dst, descs)
=============================================================================
