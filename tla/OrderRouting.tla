---------------------------- MODULE OrderRouting ----------------------------
(***************************************************************************)
(* Branches, their delivery zones, and the branch and fee that a location  *)
(* is given (BranchesService, ZonesService, OrderRoutingService).          *)
(*                                                                         *)
(* Locations are points of a small grid.  A distance only matters by how   *)
(* it compares with others: its square stands for Haversine's formula.     *)
(* Administrators change zones and branches one request at a time.         *)
(***************************************************************************)
EXTENDS Integers, Sequences, FiniteSets, SequencesExt

CONSTANTS
    Zones,          \* ids of zones
    Outlets,        \* ids of branches
    Position,       \* branch -> the point where it is
    Polygons,       \* rings of points that zones may have
    Circles,        \* [center, radius] a zone may have besides
    NoCircle,
    Priorities, Fees,
    Grid,           \* coordinates of points are 0..Grid
    RoundedUp,      \* <<p, a, b>>: p is on the slanted edge from b to a, and the
                    \* quotient computed from that end comes out beyond it
    Locations       \* the points that are asked for

VARIABLES
    zones,          \* zone -> its row, or NoZone
    branches        \* branch -> its flags

routingVars == <<zones, branches>>

Points == (0..Grid) \X (0..Grid)
NoZone == [exists |-> FALSE]

-----------------------------------------------------------------------------
(* The geometry of ZonesService.                                           *)

\* IsValidPolygon: a closed ring of at least four points.
IsValidPolygon(ring) ==
    /\ Len(ring) >= 4
    /\ \A i \in DOMAIN ring : ring[i] \in Points
    /\ ring[1] = ring[Len(ring)]

\* pointInPolygon: the edge from b to a crosses the ray that leaves p to the
\* right.  The code divides by the height of the edge; here both sides are
\* multiplied by it.
Height(a, b) == b[2] - a[2]
Cross(p, a, b) == (b[1] - a[1]) * (p[2] - a[2]) - (p[1] - a[1]) * Height(a, b)
Reaches(p, a, b) == (a[2] > p[2]) # (b[2] > p[2])

\* Where the edge is slanted and p lies on it, the rounding of the quotient
\* decides, and it may differ with the end the edge is seen from.
OnSlanted(p, a, b) == Reaches(p, a, b) /\ Cross(p, a, b) = 0 /\ a[1] # b[1]

Crosses(p, a, b) ==
    /\ Reaches(p, a, b)
    /\ IF OnSlanted(p, a, b) THEN <<p, a, b>> \in RoundedUp
       ELSE IF Height(a, b) > 0 THEN Cross(p, a, b) > 0 ELSE Cross(p, a, b) < 0

PreviousPoint(ring, i) == IF i = 1 THEN ring[Len(ring)] ELSE ring[i - 1]

\* Mutant: the corners of a zone belong to it.
PointInPolygonOrCorner(p, ring) ==
    \/ p \in {ring[i] : i \in DOMAIN ring}
    \/ Cardinality({i \in DOMAIN ring :
          Crosses(p, ring[i], PreviousPoint(ring, i))}) % 2 = 1

PointInPolygon(p, ring) ==
    Cardinality({i \in DOMAIN ring : Crosses(p, ring[i], PreviousPoint(ring, i))})
        % 2 = 1

\* calculateDistance, squared and on a plane.
Distance(p, q) == (p[1] - q[1]) * (p[1] - q[1]) + (p[2] - q[2]) * (p[2] - q[2])

InCircle(p, circle) ==
    circle # NoCircle /\ Distance(p, circle.center) <= circle.radius

-----------------------------------------------------------------------------
RoutingAssumption ==
    /\ IsFiniteSet(Zones) /\ IsFiniteSet(Outlets)
    /\ Position \in [Outlets -> Points] /\ Locations \subseteq Points
    /\ Polygons \subseteq Seq(Points)
    /\ \A ring \in Polygons : IsValidPolygon(ring)
    /\ NoCircle \notin Circles
    /\ Priorities \subseteq Nat /\ Fees \subseteq Nat
    /\ Grid \in Nat

Zone ==
    [exists : {TRUE}, branch : Outlets, polygon : Polygons,
     circle : Circles \cup {NoCircle}, active : BOOLEAN,
     priority : Priorities, fee : Fees]

RoutingInit ==
    /\ zones = [z \in Zones |-> NoZone]
    /\ branches = [b \in Outlets |-> [isActive |-> TRUE, isOpen |-> TRUE]]

Existing == {z \in Zones : zones[z].exists}

CreateZone(z) ==
    /\ z \notin Existing
    /\ \E row \in Zone : zones' = [zones EXCEPT ![z] = row]
    /\ UNCHANGED branches

\* update with a polygon: every column the request names, the branch too.
\* Bound: a request names one property besides the polygon.
UpdatePolygon(z) ==
    /\ z \in Existing
    /\ \E ring \in Polygons, b \in Outlets :
         zones' = [zones EXCEPT ![z].polygon = ring, ![z].branch = b]
    /\ UNCHANGED branches

\* update without one goes through TypeORM's save, where the branch loaded
\* with the zone wins over a new branchId.  Bound: it names one property.
UpdateZone(z) ==
    /\ z \in Existing
    /\ \/ \E c \in Circles : zones' = [zones EXCEPT ![z].circle = c]
       \/ \E n \in Priorities : zones' = [zones EXCEPT ![z].priority = n]
       \/ \E n \in Fees : zones' = [zones EXCEPT ![z].fee = n]
       \/ \E v \in BOOLEAN : zones' = [zones EXCEPT ![z].active = v]
    /\ UNCHANGED branches

ToggleZone(z) ==
    /\ z \in Existing
    /\ zones' = [zones EXCEPT ![z].active = ~@]
    /\ UNCHANGED branches

RemoveZone(z) ==
    /\ z \in Existing
    /\ zones' = [zones EXCEPT ![z] = NoZone]
    /\ UNCHANGED branches

\* toggleStatus and update of a branch.
ToggleBranch(b) ==
    /\ \/ branches' = [branches EXCEPT ![b].isActive = ~@]
       \/ branches' = [branches EXCEPT ![b].isOpen = ~@]
    /\ UNCHANGED zones

RoutingNext ==
    \/ \E z \in Zones : \/ CreateZone(z) \/ UpdatePolygon(z) \/ UpdateZone(z)
                        \/ ToggleZone(z) \/ RemoveZone(z)
    \/ \E b \in Outlets : ToggleBranch(b)

RoutingSpec == RoutingInit /\ [][RoutingNext]_routingVars

-----------------------------------------------------------------------------
(* checkPointInZone and routeOrder.                                        *)

Takes(b) == branches[b].isActive /\ branches[b].isOpen

IsPointInZone(p, z) ==
    PointInPolygon(p, zones[z].polygon) \/ InCircle(p, zones[z].circle)

Matching(p) ==
    {z \in Existing : /\ zones[z].active /\ Takes(zones[z].branch)
                      /\ IsPointInZone(p, z)}

DistanceTo(p, z) == Distance(p, Position[zones[z].branch])

\* The rows as the database returns them: by priority, otherwise in any order.
Fetched ==
    {s \in SetToSeqs({z \in Existing : zones[z].active}) :
        \A i, j \in DOMAIN s : i < j => zones[s[i]].priority >= zones[s[j]].priority}

\* Mutant: priority is forgotten.
BeforeByDistance(p, s, y, z) ==
    \/ DistanceTo(p, y) < DistanceTo(p, z)
    \/ /\ DistanceTo(p, y) = DistanceTo(p, z)
       /\ \E i, j \in DOMAIN s : i < j /\ s[i] = y /\ s[j] = z

\* The stable sort: by priority, then distance, then as fetched.
Before(p, s, y, z) ==
    \/ zones[y].priority > zones[z].priority
    \/ /\ zones[y].priority = zones[z].priority
       /\ \/ DistanceTo(p, y) < DistanceTo(p, z)
          \/ /\ DistanceTo(p, y) = DistanceTo(p, z)
             /\ \E i, j \in DOMAIN s : i < j /\ s[i] = y /\ s[j] = z

\* The rows that match, in that order: Before leaves one way to list them.
MatchingBranches(p, s) ==
    CHOOSE t \in SetToSeqs(Matching(p)) :
        \A i, j \in DOMAIN t : i < j => Before(p, s, t[i], t[j])

NoRoute == [canDeliver |-> FALSE]

RouteOrder(p, s) ==
    LET matching == MatchingBranches(p, s) IN
    IF matching = <<>> THEN NoRoute
    ELSE [canDeliver |-> TRUE,
          branch |-> zones[matching[1]].branch,
          fee |-> zones[matching[1]].fee,
          alternatives |->
              [i \in 1..(IF Len(matching) > 4 THEN 3 ELSE Len(matching) - 1) |->
                  zones[matching[i + 1]].branch]]

-----------------------------------------------------------------------------
\* Every variable keeps its type (the entities Zone and Branch).
RoutingTypeOK ==
    /\ zones \in [Zones -> Zone \cup {NoZone}]
    /\ branches \in [Outlets -> [isActive : BOOLEAN, isOpen : BOOLEAN]]

\* The corners on the way along a ring from its i-th to its j-th.
Way(ring, i, j) ==
    IF i < j THEN SubSeq(ring, i, j)
    ELSE SubSeq(ring, i, Len(ring)) \o SubSeq(ring, 2, j)

\* Two corners divide a ring into two paths from the one to the other.
Cuts(ring) ==
    LET corners == 1..(Len(ring) - 1)
        forth == {<<Way(ring, c[1], c[2]), Reverse(Way(ring, c[2], c[1]))>> :
                    c \in {d \in corners \X corners : d[1] # d[2]}}
    IN forth \cup {<<c[2], c[1]>> : c \in forth}

\* The path s and back along the path t, which has the same ends: a ring.
Around(s, t) ==
    [k \in 1..(Len(s) + Len(t) - 1) |->
        IF k <= Len(s) THEN s[k] ELSE t[Len(s) + Len(t) - k]]

\* The outlines of two rings that have a path in common, their border: where
\* each goes besides.
Outlines ==
    [x \in Polygons |-> [y \in Polygons |->
        {Around(c[1][2], c[2][2]) : c \in {d \in Cuts(x) \X Cuts(y) : d[1][1] = d[2][1]}}]]

\* A point on a slanted edge of a ring, where rounding decides.
OnSlantOf(p, ring) ==
    \E i \in DOMAIN ring : OnSlanted(p, ring[i], PreviousPoint(ring, i))

\* For two rings: any point off the slanted edges that is within an outline of
\* both is in exactly one of them, any other in both or none.
Divided ==
    [x \in Polygons |-> [y \in Polygons |->
        \A p \in Points, outline \in Outlines[x][y] :
            \/ \E ring \in {x, y, outline} : OnSlantOf(p, ring)
            \/ PointInPolygon(p, outline)
                  <=> (PointInPolygon(p, x) # PointInPolygon(p, y))]]

\* Two zones with a common border divide the area within their outline: any
\* location there is in exactly one of them, so that it neither has two fees
\* nor none, one at a corner or on a level or upright part of the border too.
\* Not so on a slanted edge, where each zone rounds for itself (pointInPolygon).
BorderHasOneSide ==
    \A y, z \in Existing :
        zones[y].polygon # zones[z].polygon => Divided[zones[y].polygon][zones[z].polygon]

\* An order goes to a branch that takes orders and serves the location, none
\* of higher priority, or of the same and nearer, does; if there is one, it
\* goes somewhere (routeOrder over checkPointInZone).
Serves(b, p, n, d) ==
    \E z \in Existing :
        /\ zones[z].branch = b /\ zones[z].active /\ zones[z].priority = n
        /\ branches[b].isActive /\ branches[b].isOpen
        /\ IsPointInZone(p, z)
        /\ Distance(p, Position[b]) = d

RoutedToTheBest ==
    \A p \in Locations : \A s \in Fetched :
        LET route == RouteOrder(p, s)
            Offers == {o \in Outlets \X Priorities :
                          Serves(o[1], p, o[2], Distance(p, Position[o[1]]))}
        IN IF route.canDeliver
           THEN \E n \in Priorities :
                  /\ <<route.branch, n>> \in Offers
                  /\ \A o \in Offers :
                       \/ o[2] < n
                       \/ /\ o[2] = n
                          /\ Distance(p, Position[o[1]])
                                >= Distance(p, Position[route.branch])
           ELSE Offers = {}
=============================================================================
