----------------------------- MODULE LocationList -----------------------------
(***************************************************************************)
(* What the storage of TP01 promises: the locations added and not removed  *)
(* since, each once, in the order in which they were added.                *)
(***************************************************************************)
EXTENDS Integers, Sequences

CONSTANTS
  Coord,               \* coordinates that a message may name
  MAX_NUM_LOCATIONS

\* parse_message lets no other coordinates through.
ASSUME CoordAssumption == Coord \subseteq 0..9999
ASSUME LimitAssumption == MAX_NUM_LOCATIONS \in Nat \ {0}

Point2D_t == [x : Coord, y : Coord]

VARIABLES
  locations,   \* the locations, oldest first
  status       \* the answer to the last operation, and the locations it is about

listVars == <<locations, status>>

Answer(result, points) == [result |-> result, points |-> points]

\* Squared distance.
Dist(p, q) == (p.x - q.x) * (p.x - q.x) + (p.y - q.y) * (p.y - q.y)

Has(p) == \E i \in 1..Len(locations) : locations[i] = p

ListInit ==
  /\ locations = <<>>
  /\ status = Answer("none yet", <<>>)

Add(p) ==
  \/ /\ Len(locations) = MAX_NUM_LOCATIONS
     /\ status' = Answer("limit exceeded", <<>>)
     /\ UNCHANGED locations
  \/ /\ Len(locations) < MAX_NUM_LOCATIONS /\ Has(p)
     /\ status' = Answer("already exists", <<p>>)
     /\ UNCHANGED locations
  \/ /\ Len(locations) < MAX_NUM_LOCATIONS /\ ~Has(p)
     /\ status' = Answer("added", <<p>>)
     /\ locations' = Append(locations, p)

Remove(p) ==
  \/ /\ ~Has(p)
     /\ status' = Answer("does not exist", <<p>>)
     /\ UNCHANGED locations
  \/ \E i \in 1..Len(locations) :
       /\ locations[i] = p
       /\ status' = Answer("removed", <<p>>)
       /\ locations' = SubSeq(locations, 1, i - 1) \o SubSeq(locations, i + 1, Len(locations))

List ==
  /\ status' = Answer("list", locations)
  /\ UNCHANGED locations

\* Location i is as near to q as any, and nearer than those added before it.
Nearest(i, q) ==
  \A j \in 1..Len(locations) :
    /\ Dist(locations[i], q) <= Dist(locations[j], q)
    /\ j < i => Dist(locations[i], q) < Dist(locations[j], q)

Query(q) ==
  \/ /\ locations = <<>>
     /\ status' = Answer("none", <<>>)
     /\ UNCHANGED locations
  \/ \E i \in 1..Len(locations) :
       /\ Nearest(i, q)
       /\ status' = Answer("closest", <<q, locations[i]>>)
       /\ UNCHANGED locations

ListNext == List \/ \E p \in Point2D_t : Add(p) \/ Remove(p) \/ Query(p)

ListSpec == ListInit /\ [][ListNext]_listVars

=============================================================================
