------------------------------- MODULE Zones -------------------------------
(***************************************************************************)
(* The delivery zones (pkg/utils): a GeoJSON file per zone, a list of      *)
(* polygons each, a polygon a list of closed rings, the first its border   *)
(* and the others its holes.  Degrees are integers here, and the division  *)
(* of the ray test is multiplied out.                                      *)
(***************************************************************************)
EXTENDS Integers, Sequences, FiniteSets

CONSTANTS
  Files,         \* the zones in the order main.go names them
  Places,        \* bound: the places that are asked about
  Coordinates    \* where they are: <<longitude, latitude>>

Point == Int \X Int

ASSUME FilesAssumption == Files \in Seq(Seq(Seq(Seq(Point))))
ASSUME CoordinatesAssumption == Coordinates \in [Places -> Point]

\* The vertex before the i-th, the last one before the first.
Before(ring, i) == IF i = 1 THEN ring[Len(ring)] ELSE ring[i - 1]

\* x < (xj-xi)*(y-yi)/(yj-yi) + xi: the point is left of the edge at its height.
LeftOf(a, vi, vj) ==
  LET run  == (vj[1] - vi[1]) * (a[2] - vi[2])
      rise == vj[2] - vi[2]
  IN IF rise > 0 THEN (a[1] - vi[1]) * rise < run
                 ELSE (a[1] - vi[1]) * rise > run

StraddlesUneven(a, vi, vj) == (vi[2] >= a[2]) # (vj[2] > a[2])

\* An end at the height of the point counts as below it, at both of its edges.
Straddles(a, vi, vj) == (vi[2] > a[2]) # (vj[2] > a[2])

Intersects(a, vi, vj) == Straddles(a, vi, vj) /\ LeftOf(a, vi, vj)

PointInRing(a, ring) ==
  /\ Len(ring) >= 3
  /\ Cardinality({i \in DOMAIN ring : Intersects(a, ring[i], Before(ring, i))}) % 2 = 1

PointInPolygon(a, rings) ==
  /\ rings # <<>>
  /\ PointInRing(a, rings[1])
  /\ \A i \in 2 .. Len(rings) : ~PointInRing(a, rings[i])

IsPointInGeoJSON(file, a) == \E f \in DOMAIN file : PointInPolygon(a, file[f])

\* ContainsAnyWithIndex: the first file that contains it, 0 if none does.
ZoneAt(place) ==
  LET found == {i \in DOMAIN Files : IsPointInGeoJSON(Files[i], Coordinates[place])}
  IN IF found = {} THEN 0 ELSE CHOOSE i \in found : \A j \in found : i <= j

----------------------------------------------------------------------------
(* What a zone is meant to be, for convex rings (all of the shop's are):   *)
(* the points on one side of all edges                                     *)

\* Twice the area of the triangle, with the sign of its orientation.
Turn(u, v, a) ==
  (v[1] - u[1]) * (a[2] - u[2]) - (v[2] - u[2]) * (a[1] - u[1])

\* In the ring or on its border.
Within(a, ring) ==
  \E s \in {1, -1} :
    \A i \in DOMAIN ring : s * Turn(Before(ring, i), ring[i], a) >= 0

StrictlyWithin(a, ring) ==
  \E s \in {1, -1} :
    \A i \in DOMAIN ring :
      Before(ring, i) # ring[i] => s * Turn(Before(ring, i), ring[i], a) > 0

\* The ring that most of the shop's polygons are, from the west and the north.
Rectangle(west, south, east, north) ==
  << <<west, north>>, <<west, south>>, <<east, south>>, <<east, north>>,
     <<west, north>> >>

\* The vertices are on one side of every edge, or on it.
Convex(ring) ==
  \E s \in {1, -1} :
    \A i, j \in DOMAIN ring : s * Turn(Before(ring, i), ring[i], ring[j]) >= 0

IsRectangle(ring) ==
  /\ Len(ring) = 5
  /\ LET west == ring[1][1]   south == ring[2][2]
         east == ring[3][1]   north == ring[1][2]
     IN west < east /\ south < north /\ ring = Rectangle(west, south, east, north)

\* olmaliq.json, ohongoron.json: all borders are convex, and none has a hole.
ASSUME ShapesAssumption ==
  \A i \in DOMAIN Files : \A f \in DOMAIN Files[i] :
    LET rings == Files[i][f]
    IN \A k \in 1 .. Len(rings) : IF k = 1 THEN Convex(rings[k]) ELSE IsRectangle(rings[k])

\* Served by the zone i: in one of its polygons, and not in a hole of that.
Serves(i, place) ==
  LET a == Coordinates[place]
  IN \E f \in DOMAIN Files[i] :
       LET rings == Files[i][f]
       IN Within(a, rings[1]) /\ \A k \in 2 .. Len(rings) : ~StrictlyWithin(a, rings[k])
============================================================================
