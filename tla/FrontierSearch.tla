--------------------------- MODULE FrontierSearch ---------------------------
(***************************************************************************)
(* The frontier search of the exploration node (frontier_search.cpp,       *)
(* costmap_tools.h) on the costmap of CostmapClient.  From the free cell   *)
(* nearest to the robot it floods the free space; an unknown cell beside a *)
(* free one starts a frontier, which grows over its neighbours.            *)
(*                                                                         *)
(* A search runs between two of the client's callbacks, so the costmap     *)
(* stands still.  One step takes one cell off a queue, or looks at one     *)
(* neighbour of the cell taken last.  A vector of flags is the set of the  *)
(* cells whose flag is set.                                                *)
(***************************************************************************)
EXTENDS CostmapClient

CONSTANTS
    Positions,             \* cells the robot may be in: a set of indices
    min_frontier_size,     \* in cells
    OriginX, OriginY       \* of the map, in half cells

ASSUME SearchAssumption ==
    /\ Positions \subseteq Nat /\ min_frontier_size \in Nat
    /\ OriginX \in Int /\ OriginY \in Int

VARIABLES
    pc,              \* "idle", "seek", "search", "build" or "done"
    position,        \* the robot's cell
    bfs,             \* the queue of nearestCell(), then of searchFrom()
    visited_flag,    \* likewise
    frontier_flag,
    nbrs,            \* neighbours of the cell taken off bfs, still to look at
    idx,             \* that cell
    build_bfs,       \* the queue of buildNewFrontier()
    build_nbrs,      \* neighbours of the cell taken off it, still to look at
    output,          \* the frontier that it builds
    frontier_list

search == <<pc, position, bfs, visited_flag, frontier_flag, nbrs, idx, build_bfs, build_nbrs,
            output, frontier_list>>
searchVars == <<client, search>>

Infinity == 1000000

-----------------------------------------------------------------------------
(* costmap_tools.h                                                         *)

Size == costmap.width * costmap.height
map(i) == costmap.data[i]

(* The neighbours in the code's order, each unless the map ends there.     *)
nhood4(i) ==
    LET sx == costmap.width IN
       (IF i % sx > 0 THEN <<i - 1>> ELSE <<>>)
    \o (IF i % sx < sx - 1 THEN <<i + 1>> ELSE <<>>)
    \o (IF i >= sx THEN <<i - sx>> ELSE <<>>)
    \o (IF i < sx * (costmap.height - 1) THEN <<i + sx>> ELSE <<>>)

(* Variant: a row runs on into the next one.                               *)
nhood8Wrapping(i) ==
    SelectSeq(<<i - 1, i + 1, i - costmap.width, i + costmap.width, i - 1 - costmap.width,
                i - 1 + costmap.width, i + 1 - costmap.width, i + 1 + costmap.width>>,
              LAMBDA n : n \in 0..(Size - 1))

nhood8(i) ==
    LET sx == costmap.width
        left == i % sx > 0           right == i % sx < sx - 1
        above == i >= sx             below == i < sx * (costmap.height - 1)
    IN nhood4(i) \o (IF left /\ above THEN <<i - 1 - sx>> ELSE <<>>)
                 \o (IF left /\ below THEN <<i - 1 + sx>> ELSE <<>>)
                 \o (IF right /\ above THEN <<i + 1 - sx>> ELSE <<>>)
                 \o (IF right /\ below THEN <<i + 1 + sx>> ELSE <<>>)

-----------------------------------------------------------------------------
(* searchFrom() and buildNewFrontier()                                     *)

isNewFrontierCell(i) ==
    /\ map(i) = NO_INFORMATION /\ i \notin frontier_flag
    /\ \E n \in Range(nhood4(i)) : map(n) = FREE_SPACE

(* mapToWorld(), in half cells.                                            *)
WorldX(i) == OriginX + 2 * XOf(costmap, i) + 1
WorldY(i) == OriginY + 2 * YOf(costmap, i) + 1
Square(x) == x * x
DistanceSq(i, j) == Square(WorldX(i) - WorldX(j)) + Square(WorldY(i) - WorldY(j))

SearchInit ==
    /\ ClientInit
    /\ pc = "idle" /\ position \in Positions
    /\ bfs = <<>> /\ visited_flag = {} /\ frontier_flag = {} /\ nbrs = <<>> /\ idx = 0
    /\ build_bfs = <<>> /\ build_nbrs = <<>> /\ output = <<>> /\ frontier_list = <<>>

(* A position outside the map finds nothing; otherwise look for the        *)
(* nearest free cell to start from.                                        *)
searchFrom ==
    /\ pc = "idle" /\ costmap # <<>> /\ subscribed
    /\ IF position >= Size
       THEN pc' = "done" /\ UNCHANGED <<bfs, visited_flag>>
       ELSE pc' = "seek" /\ bfs' = <<position>> /\ visited_flag' = {position}
    /\ UNCHANGED <<client, position, frontier_flag, nbrs, idx, build_bfs, build_nbrs, output,
                   frontier_list>>

(* nearestCell() breadth first over nhood8: the first cell it takes off    *)
(* the queue that holds val is where the flood starts, or, if there is     *)
(* none, the robot's own.                                                  *)
nearestCell(val) ==
    /\ pc = "seek" /\ nbrs = <<>>
    /\ IF bfs # <<>> /\ map(Head(bfs)) # val
       THEN /\ nbrs' = nhood8(Head(bfs)) /\ bfs' = Tail(bfs)
            /\ UNCHANGED <<pc, visited_flag>>
       ELSE LET start == IF bfs # <<>> THEN Head(bfs) ELSE position IN
            /\ bfs' = <<start>> /\ visited_flag' = {start}
            /\ pc' = "search" /\ UNCHANGED nbrs
    /\ UNCHANGED <<client, position, frontier_flag, idx, build_bfs, build_nbrs, output,
                   frontier_list>>

Seek ==
    /\ pc = "seek" /\ nbrs # <<>> /\ nbrs' = Tail(nbrs)
    /\ visited_flag' = visited_flag \cup {Head(nbrs)}
    /\ bfs' = IF Head(nbrs) \in visited_flag THEN bfs ELSE Append(bfs, Head(nbrs))
    /\ UNCHANGED <<client, pc, position, frontier_flag, idx, build_bfs, build_nbrs, output,
                   frontier_list>>

Pop ==
    /\ pc = "search" /\ nbrs = <<>> /\ bfs # <<>>
    /\ idx' = Head(bfs) /\ bfs' = Tail(bfs) /\ nbrs' = nhood4(Head(bfs))
    /\ UNCHANGED <<client, pc, position, visited_flag, frontier_flag, build_bfs, build_nbrs,
                   output, frontier_list>>

(* Flood on over cells that cost no more.                                  *)
Visitable(n) == map(n) <= map(idx) /\ n \notin visited_flag

Visit ==
    /\ pc = "search" /\ nbrs # <<>> /\ nbrs' = Tail(nbrs)
    /\ LET n == Head(nbrs) IN
       \/ /\ Visitable(n)
          /\ visited_flag' = visited_flag \cup {n} /\ bfs' = Append(bfs, n)
          /\ UNCHANGED <<pc, frontier_flag, build_bfs, output>>
       \/ /\ ~Visitable(n) /\ isNewFrontierCell(n)
          /\ frontier_flag' = frontier_flag \cup {n}
          /\ build_bfs' = <<n>>
          /\ output' = [initial |-> n, points |-> {}, size |-> 1, sumx |-> 0, sumy |-> 0,
                        min_distance |-> Infinity]
          /\ pc' = "build"
          /\ UNCHANGED <<visited_flag, bfs>>
       \/ /\ ~Visitable(n) /\ ~isNewFrontierCell(n)
          /\ UNCHANGED <<pc, visited_flag, bfs, frontier_flag, build_bfs, output>>
    /\ UNCHANGED <<client, position, idx, build_nbrs, frontier_list>>

(* Take a cell of the frontier, then add each new neighbour of it.         *)
PopBuild ==
    /\ pc = "build" /\ build_nbrs = <<>> /\ build_bfs # <<>>
    /\ build_nbrs' = nhood8(Head(build_bfs)) /\ build_bfs' = Tail(build_bfs)
    /\ UNCHANGED <<client, pc, position, bfs, visited_flag, frontier_flag, nbrs, idx, output,
                   frontier_list>>

Grow ==
    /\ pc = "build" /\ build_nbrs # <<>> /\ build_nbrs' = Tail(build_nbrs)
    /\ LET n == Head(build_nbrs)
           away == DistanceSq(position, n)
       IN IF isNewFrontierCell(n)
          THEN /\ frontier_flag' = frontier_flag \cup {n}
               /\ build_bfs' = Append(build_bfs, n)
               /\ output' = [output EXCEPT
                               !.points = @ \cup {n}, !.size = @ + 1,
                               !.sumx = @ + WorldX(n), !.sumy = @ + WorldY(n),
                               !.min_distance = IF away < @ THEN away ELSE @]
          ELSE UNCHANGED <<frontier_flag, build_bfs, output>>
    /\ UNCHANGED <<client, pc, position, bfs, visited_flag, nbrs, idx, frontier_list>>

(* A frontier that is large enough joins the list.                         *)
Built ==
    /\ pc = "build" /\ build_nbrs = <<>> /\ build_bfs = <<>>
    /\ pc' = "search" /\ output' = <<>>
    /\ frontier_list' = IF output.size >= min_frontier_size
                        THEN Append(frontier_list, output) ELSE frontier_list
    /\ UNCHANGED <<client, position, bfs, visited_flag, frontier_flag, nbrs, idx, build_bfs,
                   build_nbrs>>

(* The costs are left out, so that sorting by them leaves any order.       *)
Orders(list) == {t \in [DOMAIN list -> Range(list)] : Range(t) = Range(list)}

Searched ==
    /\ pc = "search" /\ nbrs = <<>> /\ bfs = <<>>
    /\ pc' = "done" /\ frontier_list' \in Orders(frontier_list)
    /\ UNCHANGED <<client, position, bfs, visited_flag, frontier_flag, nbrs, idx, build_bfs,
                   build_nbrs, output>>

(* The plan is made; the node's callbacks run until the next one, from     *)
(* wherever the robot is by then.                                          *)
Again ==
    /\ pc = "done"
    /\ pc' = "idle" /\ position' \in Positions
    /\ visited_flag' = {} /\ frontier_flag' = {} /\ idx' = 0 /\ frontier_list' = <<>>
    /\ UNCHANGED <<client, bfs, nbrs, build_bfs, build_nbrs, output>>

Search ==
    \/ searchFrom \/ nearestCell(FREE_SPACE) \/ Seek \/ Pop \/ Visit
    \/ PopBuild \/ Grow \/ Built \/ Searched \/ Again
Callback == pc = "idle" /\ ClientNext /\ UNCHANGED search

SearchNext == Search \/ Callback

SearchSpec == SearchInit /\ [][SearchNext]_searchVars

-----------------------------------------------------------------------------
(* What the search is for, stated without an algorithm                     *)

Apart(i, j) ==      \* in cells, diagonally adjacent ones being one apart
    LET dx == XOf(costmap, i) - XOf(costmap, j)
        dy == YOf(costmap, i) - YOf(costmap, j)
    IN Max({dx, -dx, dy, -dy})

(* The cells around a cell, and those of them that share a side with it.   *)
Around == [c \in Cells(costmap) |-> {d \in Cells(costmap) : Apart(c, d) = 1}]
Beside ==
    [c \in Cells(costmap) |->
       {d \in Around[c] : \/ XOf(costmap, c) = XOf(costmap, d)
                          \/ YOf(costmap, c) = YOf(costmap, d)}]

(* The cells of allowed that from reaches in steps to near ones: those in  *)
(* every set that has from and with a cell the allowed ones near it.       *)
ReachedFrom(from, allowed, near) ==
    {c \in allowed :
       \A S \in SUBSET allowed :
          from \in S /\ (\A d \in S : near[d] \cap allowed \subseteq S) => c \in S}

FreeCells == {c \in Cells(costmap) : map(c) = FREE_SPACE}
FrontierCells ==
    {c \in Cells(costmap) : map(c) = NO_INFORMATION /\ Beside[c] \cap FreeCells # {}}

FrontierOf(c) == ReachedFrom(c, FrontierCells, Around)

(* The frontiers that the free space around cell s borders on.             *)
FrontiersAround(s) ==
    LET space == ReachedFrom(s, FreeCells, Beside)
    IN {FrontierOf(c) : c \in {d \in FrontierCells : Beside[d] \cap space # {}}}

CellsOf(frontier) == {frontier.initial} \cup frontier.points
Listed == {CellsOf(frontier_list[k]) : k \in DOMAIN frontier_list}

(* The search finds each frontier that borders on the free space around    *)
(* the free cell nearest to the robot, once, with all its cells and its    *)
(* true size, and no other (searchFrom, buildNewFrontier, nearestCell).    *)
FindsTheFrontiers ==
    pc = "done" /\ position < Size =>
       /\ FreeCells # {} =>
            \E s \in FreeCells :
               /\ \A c \in FreeCells : Apart(position, s) <= Apart(position, c)
               /\ Listed = {f \in FrontiersAround(s) : Cardinality(f) >= min_frontier_size}
       /\ Cardinality(Listed) = Len(frontier_list)
       /\ \A k \in DOMAIN frontier_list :
            frontier_list[k].size = Cardinality(CellsOf(frontier_list[k]))

=============================================================================
