---------------------------- MODULE CostmapClient ---------------------------
(***************************************************************************)
(* The copy of the map that the exploration node keeps (costmap_client.cpp *)
(* of m-explore-ros2).  A publisher sends its whole map when its size      *)
(* changes and the rectangle that changed otherwise, on two topics; the    *)
(* client translates occupancy values to costs as it copies.               *)
(*                                                                         *)
(* A grid is its width, its height and its cells, indexed row by row from  *)
(* 0 like the code's arrays.                                               *)
(***************************************************************************)
EXTENDS Integers, Sequences, SequencesExt

CONSTANTS
    Grids,        \* initial maps: pairs of a grid and the changes it may undergo
    Ordered       \* the two topics deliver in the order of publication

VARIABLES
    subscribed,   \* the subscription to updates exists
    missed,       \* history: an update was published before that
    published,    \* the publisher's map
    edits,        \* bound: changes of the map still to come
    messages,     \* published and not yet received, in order of publication
    costmap       \* costmap_; <<>> before costmap_received_

client == <<subscribed, missed, published, edits, messages, costmap>>

FREE_SPACE == 0
NO_INFORMATION == 255

Cells(grid) == 0..(grid.width * grid.height - 1)
getIndex(grid, x, y) == y * grid.width + x
XOf(grid, i) == i % grid.width
YOf(grid, i) == i \div grid.width

(* What nav_msgs/OccupancyGrid may hold: unknown, or a probability.        *)
IsMap(grid) == grid \in [width : Nat, height : Nat, data : [Cells(grid) -> (-1)..100]]

ASSUME GridAssumption == \A g \in Grids : IsMap(g[1]) /\ g[2] \in Nat
ASSUME OrderedAssumption == Ordered \in BOOLEAN

(* init_translation_table() over the values an occupancy grid may hold,    *)
(* -1 being its byte 255: unknown, free, inscribed, lethal, the rest       *)
(* linear.                                                                 *)
cost_translation_table(v) ==
    CASE v = -1 -> 255
      [] v = 0 -> 0
      [] v = 99 -> 253
      [] v = 100 -> 254
      [] OTHER -> (1 + (251 * (v - 1)) \div 97) % 256

Translated(grid) == [grid EXCEPT !.data = [i \in Cells(grid) |-> cost_translation_table(@[i])]]

ClientInit ==
    /\ \E g \in Grids : published = g[1] /\ edits = g[2]
    /\ messages = <<[full |-> TRUE, grid |-> published]>>
    /\ costmap = <<>> /\ subscribed = FALSE /\ missed = FALSE

-----------------------------------------------------------------------------
(* The publisher                                                           *)

(* The rectangle of the map with corner x, y and the size of grid.         *)
Window(x, y, w, h) ==
    [width |-> w, height |-> h,
     data |-> [i \in 0..(w * h - 1) |->
                 published.data[getIndex(published, x + (i % w), y + (i \div w))]]]

(* One cell changes and a rectangle around it is sent; the topic keeps     *)
(* nothing for later subscribers.                                          *)
PublishUpdate ==
    /\ edits > 0 /\ edits' = edits - 1
    /\ \E cell \in Cells(published), v \in {-1, 0, 100} :
         /\ v # published.data[cell]
         /\ published' = [published EXCEPT !.data[cell] = v]
         /\ \E x \in 0..XOf(published, cell), y \in 0..YOf(published, cell) :
            \E w \in 1..(published.width - x), h \in 1..(published.height - y) :
              /\ XOf(published, cell) < x + w /\ YOf(published, cell) < y + h
              /\ messages' = IF subscribed
                              THEN Append(messages, [full |-> FALSE, x |-> x, y |-> y,
                                                     grid |-> Window(x, y, w, h)'])
                              ELSE messages
    /\ missed' = (missed \/ ~subscribed)
    /\ UNCHANGED <<costmap, subscribed>>

(* The map grows by a column and is sent as a whole.                       *)
PublishFull ==
    /\ edits > 0 /\ edits' = edits - 1
    /\ LET w == published.width + 1 IN
       published' = [published EXCEPT !.width = w,
                       !.data = [i \in 0..(w * published.height - 1) |->
                                   IF i % w = w - 1 THEN -1
                                   ELSE published.data[(i \div w) * (w - 1) + (i % w)]]]
    /\ messages' = Append(messages, [full |-> TRUE, grid |-> published'])
    /\ UNCHANGED <<costmap, subscribed, missed>>

-----------------------------------------------------------------------------
(* The client's callbacks                                                  *)

updateFullMap(msg) == costmap' = Translated(msg.grid)

(* The cells that updatePartialMap() writes: those of the rectangle that   *)
(* the map has.                                                            *)
Copies(msg, c) ==
    /\ XOf(costmap, c) \in msg.x..(msg.x + msg.grid.width - 1)
    /\ YOf(costmap, c) \in msg.y..(msg.y + msg.grid.height - 1)

(* Variant: the data is taken column by column.                            *)
TakenByColumn(msg, c) ==
    (XOf(costmap, c) - msg.x) * msg.grid.height + (YOf(costmap, c) - msg.y)

(* The place in the message's data that it takes cell c from: i counts the *)
(* cells copied, not the cells of the message, so that rows cut off on the *)
(* right shift the rest.                                                   *)
Taken(msg, c) ==
    LET xn == msg.x + msg.grid.width
        columns == (IF xn < costmap.width THEN xn ELSE costmap.width) - msg.x
    IN (YOf(costmap, c) - msg.y) * columns + (XOf(costmap, c) - msg.x)

updatePartialMap(msg) ==
    costmap' = [costmap EXCEPT !.data =
                  [c \in Cells(costmap) |->
                     IF Copies(msg, c) THEN cost_translation_table(msg.grid.data[Taken(msg, c)])
                     ELSE @[c]]]

(* A topic keeps the order of its messages; the other one may overtake it. *)
Deliverable(k) ==
    \A j \in 1..(k - 1) : ~Ordered /\ messages[j].full # messages[k].full

Receive ==
    /\ \E k \in DOMAIN messages :
         /\ Deliverable(k)
         /\ IF messages[k].full THEN updateFullMap(messages[k])
            ELSE updatePartialMap(messages[k])
         /\ messages' = RemoveAt(messages, k)
    /\ UNCHANGED <<subscribed, missed, published, edits>>

(* The constructor waits for a first map, then subscribes to the updates.  *)
Subscribe ==
    /\ costmap # <<>> /\ ~subscribed
    /\ subscribed' = TRUE
    /\ UNCHANGED <<missed, published, edits, messages, costmap>>

ClientNext == PublishUpdate \/ PublishFull \/ Receive \/ Subscribe

ClientSpec == ClientInit /\ [][ClientNext]_client

-----------------------------------------------------------------------------
(* Once everything published has arrived, the copy is the publisher's map, *)
(* cell by cell, whatever rectangles were sent (updateFullMap,             *)
(* updatePartialMap, init_translation_table).  Updates published before    *)
(* the subscription existed are the ones it lacks.                         *)
CopyIsCurrent == messages = <<>> /\ ~missed => costmap = Translated(published)
=============================================================================
