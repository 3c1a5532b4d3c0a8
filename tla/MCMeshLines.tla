---------------------------- MODULE MCMeshLines ----------------------------
(***************************************************************************)
(* Meshes for model checking MeshLines.  Centres and radii are in quarters *)
(* of a cell.                                                              *)
(***************************************************************************)
EXTENDS MeshLines

Size(n0, n1, n2) == [d \in Dirs |-> <<n0, n1, n2>>[d + 1]]
Sphere(x, y, z, r2) == [kind |-> "sphere", c |-> [d \in Dirs |-> <<x, y, z>>[d + 1]], r2 |-> r2]

(* A mesh under every rounding along its first `dims' directions. *)
Meshes(dims, size, shapes) ==
  {[n |-> size, shapes |-> shapes, err |-> [d \in Dirs |-> IF d < dims THEN e[d] ELSE 0]] :
     e \in [0 .. dims - 1 -> {-SnapTol, 0, SnapTol}]}

(* On a line: nothing, a sphere, one whose surface meets grid points, one  *)
(* between two of them, two spheres in either order, two with a gap inside *)
(* a cell, spheres across either wall, rectangles.                         *)
OnALine ==
  {<<>>, <<Sphere(9, 0, 0, 10)>>, <<Sphere(8, 0, 0, 16)>>, <<Sphere(6, 0, 0, 1)>>,
   <<Sphere(5, 0, 0, 2), Sphere(14, 0, 0, 5)>>, <<Sphere(14, 0, 0, 5), Sphere(5, 0, 0, 2)>>,
   <<Sphere(5, 0, 0, 2), Sphere(10, 0, 0, 7)>>,
   <<Sphere(1, 0, 0, 10)>>, <<Sphere(19, 0, 0, 10)>>,
   <<Sphere(1, 0, 0, 10), Sphere(18, 0, 0, 11)>>,
   <<YzRect(6, 16, 1), YzRect(6, 48, -1)>>, <<YzRect(6, 16, -1), YzRect(6, 60, 1)>>,
   <<YzRect(6, 32, 1), Sphere(10, 0, 0, 3)>>}

(* In the plane: spheres in general position, on grid points, with thin    *)
(* chords, over a corner, across the walls.                                *)
InThePlane ==
  {<<Sphere(9, 5, 0, 20)>>, <<Sphere(8, 4, 0, 16)>>, <<Sphere(7, 4, 0, 25)>>,
   <<Sphere(6, 6, 0, 6)>>, <<Sphere(0, 0, 0, 20)>>, <<Sphere(0, 6, 0, 10)>>,
   <<Sphere(16, 12, 0, 30)>>, <<Sphere(3, 4, 0, 5), Sphere(11, 6, 0, 14)>>}

InSpace == {<<>>, <<Sphere(6, 4, 7, 14)>>, <<Sphere(4, 5, 4, 3), Sphere(10, 3, 9, 6)>>}

MCConfigs ==
  UNION ({Meshes(1, Size(6, 1, 1), s) : s \in OnALine}
         \cup {Meshes(2, Size(5, 4, 1), s) : s \in InThePlane}
         \cup {Meshes(0, Size(4, 3, 4), s) : s \in InSpace})

=============================================================================
