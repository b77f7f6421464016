----------------------------- MODULE LocationArray -----------------------------
(***************************************************************************)
(* The storage of the TP01 server: an array with a fill count.  Adding and *)
(* removing are single steps; the search for the closest location, which   *)
(* carries a minimum from one location to the next, is one step per round  *)
(* of its loop.                                                            *)
(***************************************************************************)
EXTENDS Integers, Sequences

CONSTANTS
  Coord,               \* coordinates that a message may name
  MAX_NUM_LOCATIONS,
  None                 \* no value

INF == 1061109567    \* 0x3f3f3f3f

Point2D_t == [x : Coord, y : Coord]

\* A search for the closest location to coord: the next cell to look at and the
\* minimum so far.
SearchType ==
  [coord : Point2D_t, i : 0..MAX_NUM_LOCATIONS, min : Point2D_t \cup {None}, min_dist : 0..INF]

\* parse_message lets no other coordinates through.
ASSUME CoordAssumption == Coord \subseteq 0..9999
ASSUME LimitAssumption == MAX_NUM_LOCATIONS \in Nat \ {0}
ASSUME NoneAssumption == None \notin SearchType

VARIABLES
  size, array,
  search,     \* the search for the closest location, or None when there is none
  status

vars == <<size, array, search, status>>

Index == 0..MAX_NUM_LOCATIONS - 1

\* The first size cells of the array, as a sequence.
Contents == [i \in 1..size |-> array[i - 1]]

L == INSTANCE LocationList WITH locations <- Contents

Answer(result, points) == L!Answer(result, points)

\* The array lives on the stack of main: its cells hold anything at first.
create_location_array ==
  /\ size = 0
  /\ array \in [Index -> Point2D_t]

Init ==
  /\ create_location_array
  /\ search = None
  /\ status = Answer("none yet", <<>>)

-----------------------------------------------------------------------------

Stored(coord) == \E i \in 0..size - 1 : array[i] = coord

\* Mutant of add_location: the full array is not noticed.
AddPastTheEnd(coord) ==
  /\ search = None
  /\ \/ /\ Stored(coord)
        /\ status' = Answer("already exists", <<coord>>)
        /\ UNCHANGED <<size, array>>
     \/ /\ ~Stored(coord)
        /\ array' = [array EXCEPT ![size] = coord]
        /\ size' = size + 1
        /\ status' = Answer("added", <<coord>>)
  /\ UNCHANGED search

\* Mutant of add_location: the array is not searched first.
AddUnseen(coord) ==
  /\ search = None
  /\ \/ /\ size = MAX_NUM_LOCATIONS
        /\ status' = Answer("limit exceeded", <<>>)
        /\ UNCHANGED <<size, array>>
     \/ /\ size # MAX_NUM_LOCATIONS
        /\ array' = [array EXCEPT ![size] = coord]
        /\ size' = size + 1
        /\ status' = Answer("added", <<coord>>)
  /\ UNCHANGED search

add_location(coord) ==
  /\ search = None
  /\ \/ /\ size = MAX_NUM_LOCATIONS
        /\ status' = Answer("limit exceeded", <<>>)
        /\ UNCHANGED <<size, array>>
     \/ /\ size # MAX_NUM_LOCATIONS /\ Stored(coord)
        /\ status' = Answer("already exists", <<coord>>)
        /\ UNCHANGED <<size, array>>
     \/ /\ size # MAX_NUM_LOCATIONS /\ ~Stored(coord)
        /\ array' = [array EXCEPT ![size] = coord]
        /\ size' = size + 1
        /\ status' = Answer("added", <<coord>>)
  /\ UNCHANGED search

shift_left(idx) ==
  array' = [i \in Index |-> IF i \in idx..size - 2 THEN array[i + 1] ELSE array[i]]

\* The first cell that holds the location.
location_idx(coord) ==
  CHOOSE i \in 0..size - 1 : array[i] = coord /\ \A j \in 0..i - 1 : array[j] # coord

remove_location(coord) ==
  /\ search = None
  /\ \/ /\ ~Stored(coord)
        /\ status' = Answer("does not exist", <<coord>>)
        /\ UNCHANGED <<size, array>>
     \/ /\ Stored(coord)
        /\ shift_left(location_idx(coord))
        /\ size' = size - 1
        /\ status' = Answer("removed", <<coord>>)
  /\ UNCHANGED search

location_array_to_string ==
  /\ search = None
  /\ status' = Answer("list", Contents)
  /\ UNCHANGED <<size, array, search>>

-----------------------------------------------------------------------------
(* get_closest_location *)

\* xmin and ymin have no value before the first location that is near enough.
QueryStart(coord) ==
  /\ search = None
  /\ \/ /\ size = 0
        /\ status' = Answer("none", <<>>)
        /\ UNCHANGED search
     \/ /\ size # 0
        /\ search' = [coord |-> coord, i |-> 0, min |-> None, min_dist |-> INF]
        /\ UNCHANGED status
  /\ UNCHANGED <<size, array>>

\* Mutant of Closer: a later location wins a tie.
CloserOrEqual(dist) == dist <= search.min_dist

Closer(dist) == dist < search.min_dist

QueryStep ==
  /\ search # None /\ search.i < size
  /\ LET curr_location == array[search.i]
         dist == L!Dist(curr_location, search.coord)
     IN  search' =
           IF Closer(dist)
           THEN [search EXCEPT !.i = @ + 1, !.min = curr_location, !.min_dist = dist]
           ELSE [search EXCEPT !.i = @ + 1]
  /\ UNCHANGED <<size, array, status>>

\* The answer names the closest location only; which one was asked for is kept with it.
QueryEnd ==
  /\ search # None /\ search.i = size
  /\ status' = Answer("closest", <<search.coord, search.min>>)
  /\ search' = None
  /\ UNCHANGED <<size, array>>

-----------------------------------------------------------------------------

Next ==
  \/ location_array_to_string \/ QueryStep \/ QueryEnd
  \/ \E coord \in Point2D_t :
       add_location(coord) \/ remove_location(coord) \/ QueryStart(coord)

Spec == Init /\ [][Next]_vars

-----------------------------------------------------------------------------
(* Properties *)

\* The count never leaves the array, and neither does a search.
TypeOK ==
  /\ size \in 0..MAX_NUM_LOCATIONS
  /\ array \in [Index -> Point2D_t]
  /\ search # None => search \in SearchType /\ search.i <= size
  /\ status.points \in Seq(Point2D_t)

\* No location is stored twice, however additions and removals follow each other.
Distinct == \A i, j \in 0..size - 1 : array[i] = array[j] => i = j

\* The array is the list of the locations added and not removed since, in the order
\* of their addition, and every answer is the one that list gives.
IsLocationList == L!ListSpec
=============================================================================
