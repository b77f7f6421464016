-------------------------- MODULE LocationArrayProofs --------------------------
(***************************************************************************)
(* LocationArray implements LocationList, for every capacity and every set *)
(* of coordinates.                                                         *)
(***************************************************************************)
EXTENDS LocationArray, SequenceTheorems, TLAPS

-----------------------------------------------------------------------------
(* Distances *)

LEMMA SquareBound ==
  ASSUME NEW b \in Nat, NEW n \in -b..b
  PROVE  n * n \in 0..b * b
<1>1. CASE n >= 0
  <2>1. n * n <= n * b
    BY <1>1, SMT
  <2>2. n * b <= b * b
    BY <1>1, SMT
  <2> QED
    BY <1>1, <2>1, <2>2, SMT
<1>2. CASE n < 0
  <2> DEFINE m == -n
  <2>1. m \in 0..b /\ m * m = n * n
    BY <1>2, SMT
  <2>2. m * m <= m * b
    BY <2>1, SMT
  <2>3. m * b <= b * b
    BY <2>1, SMT
  <2> QED
    BY <2>1, <2>2, <2>3, SMT
<1> QED
  BY <1>1, <1>2, SMT

LEMMA SumBound ==
  ASSUME NEW b \in Nat, NEW m \in 0..b, NEW n \in 0..b, NEW t \in Nat, b + b < t
  PROVE  m + n \in 0..t - 1
BY SMT

\* Every distance between two coordinates a message may name is below INF, so that a
\* search of an array that is not empty always finds a minimum.
THEOREM DistanceBelowInf ==
  ASSUME NEW p \in Point2D_t, NEW q \in Point2D_t
  PROVE  L!Dist(p, q) \in 0..INF - 1
<1> DEFINE m == 9999
           dx == p.x - q.x
           dy == p.y - q.y
<1>1. /\ m \in Nat /\ INF \in Nat /\ m * m + m * m < INF
      /\ Coord \subseteq 0..m
  BY CoordAssumption, SMT DEF INF
<1> HIDE DEF m
<1>2. dx \in -m..m /\ dy \in -m..m
  <2>1. /\ p.x \in 0..m /\ q.x \in 0..m
        /\ p.y \in 0..m /\ q.y \in 0..m
    BY <1>1 DEF Point2D_t
  <2> QED
    BY <1>1, <2>1, SMT
<1>3. dx * dx \in 0..m * m /\ dy * dy \in 0..m * m
  BY <1>1, <1>2, SquareBound
<1>4. L!Dist(p, q) = dx * dx + dy * dy
  BY DEF L!Dist
<1>5. m * m \in Nat
  BY <1>1, SMT
<1> HIDE DEF dx, dy
<1> QED
  BY <1>1, <1>3, <1>4, <1>5, SumBound

-----------------------------------------------------------------------------
(* The inductive invariant *)

\* The minimum of a search is the first of the nearest locations looked at so far.
Minimum(k) ==
  /\ array[k] = search.min
  /\ search.min_dist = L!Dist(array[k], search.coord)
  /\ \A j \in 0..search.i - 1 :
       /\ search.min_dist <= L!Dist(array[j], search.coord)
       /\ j < k => search.min_dist < L!Dist(array[j], search.coord)

SearchInv ==
  search # None =>
    /\ size > 0
    /\ search.i = 0 => search.min_dist = INF
    /\ search.i > 0 => \E k \in 0..search.i - 1 : Minimum(k)

Inv == TypeOK /\ Distinct /\ SearchInv

LEMMA PrefixType ==
  ASSUME NEW n \in Nat, NEW f, \A i \in 1..n : f[i - 1] \in Point2D_t
  PROVE  /\ [i \in 1..n |-> f[i - 1]] \in Seq(Point2D_t)
         /\ Len([i \in 1..n |-> f[i - 1]]) = n
OBVIOUS

LEMMA ContentsType ==
  ASSUME TypeOK
  PROVE  /\ Contents \in Seq(Point2D_t) /\ Len(Contents) = size
         /\ \A i \in 1..size : Contents[i] = array[i - 1]
<1>1. \A i \in 1..size : array[i - 1] \in Point2D_t
  BY LimitAssumption DEF TypeOK, Index
<1>2. size \in Nat
  BY LimitAssumption DEF TypeOK
<1> QED
  BY <1>1, <1>2 DEF Contents

LEMMA InitInv == Init => Inv
<1> SUFFICES ASSUME Init PROVE Inv
  OBVIOUS
<1>1. size = 0 /\ array \in [Index -> Point2D_t] /\ search = None
  BY DEF Init, create_location_array
<1>2. status.points \in Seq(Point2D_t)
  <2>1. status = [result |-> "none yet", points |-> <<>>]
    BY DEF Init, Answer, L!Answer
  <2>2. status.points = <<>>
    BY <2>1
  <2> QED
    BY <2>2
<1>3. TypeOK
  BY <1>1, <1>2, LimitAssumption DEF TypeOK
<1>4. Distinct
  BY <1>1 DEF Distinct
<1>5. SearchInv
  BY <1>1 DEF SearchInv
<1> QED
  BY <1>3, <1>4, <1>5 DEF Inv

\* Where the location to remove is.
LEMMA LocationIdx ==
  ASSUME TypeOK, Distinct, NEW coord, Stored(coord)
  PROVE  /\ location_idx(coord) \in 0..size - 1
         /\ array[location_idx(coord)] = coord
<1>1. \E i \in 0..size - 1 : array[i] = coord /\ \A j \in 0..i - 1 : array[j] # coord
  <2>1. PICK i \in 0..size - 1 : array[i] = coord
    BY DEF Stored
  <2>2. \A j \in 0..i - 1 : j \in 0..size - 1 /\ j # i
    BY <2>1, LimitAssumption DEF TypeOK
  <2> QED
    BY <2>1, <2>2 DEF Distinct
<1> QED
  BY <1>1 DEF location_idx

\* The cells after a removal.
LEMMA Shifted ==
  ASSUME TypeOK, NEW idx \in 0..size - 1, shift_left(idx), size' = size - 1
  PROVE  /\ array' \in [Index -> Point2D_t]
         /\ \A i \in 0..size' - 1 : array'[i] = array[IF i < idx THEN i ELSE i + 1]
<1>1. size \in Nat /\ size <= MAX_NUM_LOCATIONS /\ MAX_NUM_LOCATIONS \in Nat
  BY LimitAssumption DEF TypeOK
<1>2. \A i \in idx..size - 2 : i + 1 \in Index
  BY <1>1 DEF Index
<1>3. array' \in [Index -> Point2D_t]
  BY <1>2 DEF shift_left, TypeOK
<1>4. ASSUME NEW i \in 0..size' - 1
      PROVE  array'[i] = array[IF i < idx THEN i ELSE i + 1]
  <2>1. i \in Index /\ (i \in idx..size - 2 <=> ~(i < idx))
    BY <1>1 DEF Index
  <2> QED
    BY <2>1 DEF shift_left
<1> QED
  BY <1>3, <1>4

\* The answer names locations.
LEMMA AnswerType ==
  ASSUME NEW result, NEW points \in Seq(Point2D_t), status' = Answer(result, points)
  PROVE  status'.points \in Seq(Point2D_t)
<1>1. Answer(result, points).points = points
  BY DEF Answer, L!Answer
<1> QED
  BY <1>1

LEMMA NumbersType ==
  ASSUME TypeOK
  PROVE  /\ size \in Nat /\ size <= MAX_NUM_LOCATIONS /\ MAX_NUM_LOCATIONS \in Nat \ {0}
         /\ \A i \in 0..size - 1 : i \in Index /\ array[i] \in Point2D_t
BY LimitAssumption DEF TypeOK, Index

LEMMA AddKeeps ==
  ASSUME Inv, NEW coord \in Point2D_t, add_location(coord)
  PROVE  Inv'
<1> USE DEF Inv
<1>1. search = None /\ search' = None
  BY DEF add_location
<1>2. status'.points \in Seq(Point2D_t)
  <2>1. <<coord>> \in Seq(Point2D_t) /\ <<>> \in Seq(Point2D_t)
    OBVIOUS
  <2> QED
    BY <2>1, AnswerType DEF add_location
<1>3. CASE UNCHANGED <<size, array>>
  BY <1>1, <1>2, <1>3 DEF TypeOK, Distinct, SearchInv
<1>4. CASE /\ size # MAX_NUM_LOCATIONS /\ ~Stored(coord)
           /\ array' = [array EXCEPT ![size] = coord]
           /\ size' = size + 1
  <2>1. size \in Index /\ size' \in 0..MAX_NUM_LOCATIONS
    BY <1>4, NumbersType DEF Index
  <2>2. array' \in [Index -> Point2D_t]
    BY <1>4 DEF TypeOK
  <2>3. TypeOK'
    BY <1>1, <1>2, <2>1, <2>2 DEF TypeOK
  <2>4. \A i \in 0..size' - 1 : /\ i # size => i \in 0..size - 1 /\ array'[i] = array[i]
                                /\ i = size => array'[i] = coord
    BY <1>4, <2>1, NumbersType DEF TypeOK
  <2>5. Distinct'
    BY <1>4, <2>4 DEF Distinct, Stored
  <2> QED
    BY <1>1, <2>3, <2>5 DEF SearchInv
<1> QED
  BY <1>3, <1>4 DEF add_location

LEMMA RemoveKeeps ==
  ASSUME Inv, NEW coord \in Point2D_t, remove_location(coord)
  PROVE  Inv'
<1> USE DEF Inv
<1>1. search = None /\ search' = None
  BY DEF remove_location
<1>2. status'.points \in Seq(Point2D_t)
  <2>1. <<coord>> \in Seq(Point2D_t)
    OBVIOUS
  <2> QED
    BY <2>1, AnswerType DEF remove_location
<1>3. CASE UNCHANGED <<size, array>>
  BY <1>1, <1>2, <1>3 DEF TypeOK, Distinct, SearchInv
<1>4. CASE Stored(coord) /\ shift_left(location_idx(coord)) /\ size' = size - 1
  <2> DEFINE idx == location_idx(coord)
  <2>1. idx \in 0..size - 1
    BY <1>4, LocationIdx
  <2>2. /\ array' \in [Index -> Point2D_t]
        /\ \A i \in 0..size' - 1 : array'[i] = array[IF i < idx THEN i ELSE i + 1]
    BY <1>4, <2>1, Shifted
  <2> HIDE DEF idx
  <2>3. size' \in 0..MAX_NUM_LOCATIONS /\ size' = size - 1
    BY <1>4, <2>1, NumbersType
  <2>4. TypeOK'
    BY <1>1, <1>2, <2>2, <2>3 DEF TypeOK
  <2>5. Distinct'
    <3> SUFFICES ASSUME NEW i \in 0..size' - 1, NEW j \in 0..size' - 1, array'[i] = array'[j]
                 PROVE  i = j
      BY DEF Distinct
    <3> DEFINE o(k) == IF k < idx THEN k ELSE k + 1
    <3>1. o(i) \in 0..size - 1 /\ o(j) \in 0..size - 1
      BY <2>1, <2>3, NumbersType
    <3>2. array[o(i)] = array[o(j)]
      BY <2>2
    <3>3. o(i) = o(j)
      BY <3>1, <3>2 DEF Distinct
    <3> QED
      BY <2>1, <3>3, NumbersType
  <2> QED
    BY <1>1, <2>4, <2>5 DEF SearchInv
<1> QED
  BY <1>3, <1>4 DEF remove_location

LEMMA QueryKeeps ==
  ASSUME Inv, \/ location_array_to_string \/ QueryStep \/ QueryEnd
              \/ \E coord \in Point2D_t : QueryStart(coord)
  PROVE  Inv'
<1> USE DEF Inv
<1>1. UNCHANGED <<size, array>> /\ Distinct'
  BY DEF location_array_to_string, QueryStep, QueryEnd, QueryStart, Distinct
<1>2. INF \in Nat
  BY SMT DEF INF
<1>3. CASE location_array_to_string
  <2>1. status'.points \in Seq(Point2D_t)
    BY <1>3, ContentsType, AnswerType DEF location_array_to_string
  <2>2. search = None /\ search' = None
    BY <1>3 DEF location_array_to_string
  <2> QED
    BY <1>1, <2>1, <2>2 DEF TypeOK, SearchInv
<1>4. ASSUME NEW coord \in Point2D_t, QueryStart(coord)
      PROVE  Inv'
  <2>1. CASE size = 0
    <3>1. <<>> \in Seq(Point2D_t)
      OBVIOUS
    <3>2. status'.points \in Seq(Point2D_t)
      BY <1>4, <2>1, <3>1, AnswerType DEF QueryStart
    <3>3. search = None /\ search' = None
      BY <1>4, <2>1 DEF QueryStart
    <3> QED
      BY <1>1, <3>2, <3>3 DEF TypeOK, SearchInv
  <2>2. CASE size # 0
    <3>1. /\ search' = [coord |-> coord, i |-> 0, min |-> None, min_dist |-> INF]
          /\ UNCHANGED status
      BY <1>4, <2>2 DEF QueryStart
    <3>2. search' \in SearchType /\ search'.i = 0 /\ search'.min_dist = INF
      BY <1>2, <3>1, NumbersType DEF SearchType
    <3>3. TypeOK'
      BY <1>1, <3>1, <3>2, NumbersType DEF TypeOK
    <3>4. SearchInv'
      BY <1>1, <2>2, <3>2, NumbersType DEF SearchInv
    <3> QED
      BY <1>1, <3>3, <3>4
  <2> QED
    BY <2>1, <2>2
<1>5. CASE QueryStep
  <2> DEFINE curr == array[search.i]
             dist == L!Dist(curr, search.coord)
  <2>1. search # None /\ search.i < size /\ search \in SearchType /\ UNCHANGED status
    BY <1>5 DEF QueryStep, TypeOK
  <2>2. search.i \in 0..size - 1 /\ curr \in Point2D_t /\ search.coord \in Point2D_t
    BY <2>1, NumbersType DEF SearchType
  <2>3. dist \in 0..INF - 1
    BY <2>2, DistanceBelowInf
  <2> HIDE DEF curr, dist
  <2>4. search' = IF Closer(dist)
                  THEN [search EXCEPT !.i = @ + 1, !.min = curr, !.min_dist = dist]
                  ELSE [search EXCEPT !.i = @ + 1]
    BY <1>5 DEF QueryStep, curr, dist
  <2>5. /\ search' \in SearchType /\ search'.i = search.i + 1
        /\ search'.coord = search.coord
        /\ dist < search.min_dist => search'.min = curr /\ search'.min_dist = dist
        /\ ~(dist < search.min_dist) =>
             search'.min = search.min /\ search'.min_dist = search.min_dist
    <3>1. search.i + 1 \in 0..MAX_NUM_LOCATIONS /\ dist \in 0..INF
      BY <1>2, <2>2, <2>3, NumbersType
    <3>2. CASE Closer(dist)
      <4>1. search' = [search EXCEPT !.i = @ + 1, !.min = curr, !.min_dist = dist]
        BY <2>4, <3>2
      <4> QED
        BY <2>1, <2>2, <3>1, <3>2, <4>1 DEF SearchType, Closer
    <3>3. CASE ~Closer(dist)
      <4>1. search' = [search EXCEPT !.i = @ + 1]
        BY <2>4, <3>3
      <4> QED
        BY <2>1, <3>1, <3>3, <4>1 DEF SearchType, Closer
    <3> QED
      BY <3>2, <3>3
  <2>6. TypeOK'
    BY <1>1, <2>1, <2>2, <2>5, NumbersType DEF TypeOK
  <2>7. \E k \in 0..search'.i - 1 : Minimum(k)'
    <3>1. \A j \in 0..search'.i - 1 : j = search.i \/ j \in 0..search.i - 1
      BY <2>2, <2>5, NumbersType
    <3>2. \A j \in 0..search.i : L!Dist(array[j], search.coord) \in 0..INF - 1
      BY <2>2, NumbersType, DistanceBelowInf
    <3>3. CASE dist < search.min_dist
      <4>1. PICK k \in 0..search'.i - 1 : k = search.i
        BY <2>2, <2>5, NumbersType
      <4>2. \A j \in 0..k - 1 : dist < L!Dist(array[j], search.coord)
        <5>1. CASE k = 0
          BY <5>1
        <5>2. CASE k > 0
          <6>1. \A j \in 0..k - 1 : search.min_dist <= L!Dist(array[j], search.coord)
            BY <2>1, <4>1, <5>2 DEF SearchInv, Minimum
          <6>2. search.min_dist \in Int /\ dist \in Int
            BY <1>2, <2>1, <2>3 DEF SearchType
          <6> QED
            BY <1>2, <2>2, <3>2, <3>3, <4>1, <6>1, <6>2, NumbersType
        <5> QED
          BY <2>2, <4>1, <5>1, <5>2, NumbersType
      <4>3. array'[k] = curr /\ dist = L!Dist(array'[k], search'.coord)
        BY <1>1, <2>5, <4>1 DEF curr, dist
      <4>4. ASSUME NEW j \in 0..search'.i - 1
            PROVE  /\ dist <= L!Dist(array'[j], search'.coord)
                   /\ j < k => dist < L!Dist(array'[j], search'.coord)
        BY <1>1, <1>2, <2>2, <2>3, <2>5, <3>1, <3>2, <4>1, <4>2, <4>3, NumbersType
      <4>5. Minimum(k)'
        BY <2>5, <3>3, <4>3, <4>4 DEF Minimum
      <4> QED
        BY <4>1, <4>5
    <3>4. CASE ~(dist < search.min_dist)
      <4>1. search.i > 0
        BY <1>2, <2>1, <2>2, <2>3, <3>4, NumbersType DEF SearchInv
      <4>2. PICK k \in 0..search.i - 1 : Minimum(k)
        BY <2>1, <4>1 DEF SearchInv
      <4>3. k \in 0..search'.i - 1
        BY <2>2, <2>5, <4>2, NumbersType
      <4>4. search.min_dist <= dist
        <5>1. search.min_dist \in Int /\ dist \in Int
          BY <1>2, <2>1, <2>3 DEF SearchType
        <5> QED
          BY <3>4, <5>1
      <4>5. ASSUME NEW j \in 0..search'.i - 1
            PROVE  /\ search.min_dist <= L!Dist(array'[j], search'.coord)
                   /\ j < k => search.min_dist < L!Dist(array'[j], search'.coord)
        <5>1. CASE j = search.i
          <6>1. L!Dist(array'[j], search'.coord) = dist /\ ~(j < k)
            BY <1>1, <2>2, <2>5, <4>2, <5>1, NumbersType DEF dist, curr
          <6> QED
            BY <4>4, <6>1
        <5>2. CASE j \in 0..search.i - 1
          BY <1>1, <2>5, <4>2, <5>2 DEF Minimum
        <5> QED
          BY <3>1, <5>1, <5>2
      <4>6. Minimum(k)'
        BY <1>1, <2>5, <3>4, <4>2, <4>5 DEF Minimum
      <4> QED
        BY <4>3, <4>6
    <3> QED
      BY <3>3, <3>4
  <2>8. SearchInv'
    BY <1>1, <2>2, <2>5, <2>7, NumbersType DEF SearchInv
  <2> QED
    BY <1>1, <2>6, <2>8
<1>6. CASE QueryEnd
  <2>1. /\ search # None /\ search.i = size /\ search' = None
        /\ status' = Answer("closest", <<search.coord, search.min>>)
    BY <1>6 DEF QueryEnd
  <2>2. PICK k \in 0..search.i - 1 : Minimum(k)
    BY <2>1 DEF SearchInv
  <2>3. <<search.coord, search.min>> \in Seq(Point2D_t)
    BY <2>1, <2>2, NumbersType DEF Minimum, TypeOK, SearchType
  <2>4. status'.points \in Seq(Point2D_t)
    BY <2>1, <2>3, AnswerType
  <2> QED
    BY <1>1, <2>1, <2>4 DEF TypeOK, SearchInv
<1> QED
  BY <1>3, <1>4, <1>5, <1>6

LEMMA Invariance == Spec => []Inv
<1>1. Inv /\ Next => Inv'
  BY AddKeeps, RemoveKeeps, QueryKeeps DEF Next
<1>2. Inv /\ UNCHANGED vars => Inv'
  BY DEF vars, Inv, TypeOK, Distinct, SearchInv, Minimum
<1> QED
  BY <1>1, <1>2, InitInv, PTL DEF Spec

-----------------------------------------------------------------------------
(* Every step is a step of the list, or none *)

LEMMA ContentsKeep ==
  ASSUME UNCHANGED <<size, array>>
  PROVE  UNCHANGED Contents
BY DEF Contents

LEMMA InitIsListInit == Init => L!ListInit
<1> SUFFICES ASSUME Init PROVE L!ListInit
  OBVIOUS
<1>1. Contents \in Seq(Point2D_t) /\ Len(Contents) = 0
  BY InitInv, ContentsType DEF Inv, Init, create_location_array
<1>2. Contents = <<>>
  BY <1>1
<1> QED
  BY <1>2 DEF Init, Answer, L!ListInit

LEMMA StoredIsHas ==
  ASSUME TypeOK, NEW coord
  PROVE  Stored(coord) <=> L!Has(coord)
<1>1. ASSUME NEW i \in 0..size - 1, array[i] = coord
      PROVE  L!Has(coord)
  <2>1. i + 1 \in 1..Len(Contents) /\ Contents[i + 1] = coord
    BY <1>1, ContentsType, NumbersType
  <2> QED
    BY <2>1 DEF L!Has
<1>2. ASSUME NEW i \in 1..Len(Contents), Contents[i] = coord
      PROVE  Stored(coord)
  <2>1. i - 1 \in 0..size - 1 /\ array[i - 1] = coord
    BY <1>2, ContentsType, NumbersType
  <2> QED
    BY <2>1 DEF Stored
<1> QED
  BY <1>1, <1>2 DEF Stored, L!Has

LEMMA AddImplements ==
  ASSUME Inv, Inv', NEW coord \in Point2D_t, add_location(coord)
  PROVE  L!Add(coord)
<1> USE DEF Inv
<1>1. Len(Contents) = size /\ (Stored(coord) <=> L!Has(coord))
  BY ContentsType, StoredIsHas
<1>2. CASE size = MAX_NUM_LOCATIONS /\ status' = Answer("limit exceeded", <<>>)
           /\ UNCHANGED <<size, array>>
  BY <1>1, <1>2, ContentsKeep DEF L!Add, Answer
<1>3. CASE size # MAX_NUM_LOCATIONS /\ Stored(coord)
           /\ status' = Answer("already exists", <<coord>>) /\ UNCHANGED <<size, array>>
  <2>1. Len(Contents) < MAX_NUM_LOCATIONS /\ L!Has(coord) /\ UNCHANGED Contents
    <3>1. Len(Contents) < MAX_NUM_LOCATIONS
      <4>1. Len(Contents) = size /\ size # MAX_NUM_LOCATIONS
        BY <1>1, <1>3
      <4> QED
        BY <4>1, NumbersType
    <3>2. L!Has(coord)
      BY <1>1, <1>3
    <3>3. UNCHANGED Contents
      BY <1>3, ContentsKeep
    <3> QED
      BY <3>1, <3>2, <3>3
  <2>2. status' = L!Answer("already exists", <<coord>>)
    BY <1>3 DEF Answer
  <2> QED
    BY <2>1, <2>2 DEF L!Add
<1>4. CASE /\ size # MAX_NUM_LOCATIONS /\ ~Stored(coord)
           /\ array' = [array EXCEPT ![size] = coord]
           /\ size' = size + 1
           /\ status' = Answer("added", <<coord>>)
  <2>1. /\ Contents' \in Seq(Point2D_t) /\ Len(Contents') = size + 1
        /\ \A i \in 1..size + 1 : Contents'[i] = array'[i - 1]
    <3>1. size' \in Nat /\ \A i \in 1..size' : array'[i - 1] \in Point2D_t
      BY <1>4, LimitAssumption DEF TypeOK, Index
    <3> QED
      BY <1>4, <3>1, PrefixType DEF Contents
  <2>2. \A i \in 1..size + 1 : array'[i - 1] = IF i = size + 1 THEN coord ELSE array[i - 1]
    BY <1>4, NumbersType DEF TypeOK, Index
  <2>3. /\ Append(Contents, coord) \in Seq(Point2D_t)
        /\ Len(Append(Contents, coord)) = size + 1
        /\ \A i \in 1..size + 1 :
             Append(Contents, coord)[i] = IF i = size + 1 THEN coord ELSE array[i - 1]
    BY ContentsType, NumbersType
  <2>4. Contents' = Append(Contents, coord)
    BY <2>1, <2>2, <2>3, SeqEqual
  <2> QED
    <3>1. Len(Contents) < MAX_NUM_LOCATIONS /\ ~L!Has(coord)
      BY <1>1, <1>4, NumbersType
    <3>2. status' = L!Answer("added", <<coord>>)
      BY <1>4 DEF Answer
    <3> QED
      BY <2>4, <3>1, <3>2 DEF L!Add
<1> QED
  BY <1>2, <1>3, <1>4 DEF add_location

LEMMA RemoveImplements ==
  ASSUME Inv, Inv', NEW coord \in Point2D_t, remove_location(coord)
  PROVE  L!Remove(coord)
<1> USE DEF Inv
<1>1. CASE ~Stored(coord) /\ status' = Answer("does not exist", <<coord>>)
           /\ UNCHANGED <<size, array>>
  BY <1>1, StoredIsHas, ContentsKeep DEF L!Remove, Answer
<1>2. CASE /\ Stored(coord) /\ shift_left(location_idx(coord)) /\ size' = size - 1
           /\ status' = Answer("removed", <<coord>>)
  <2> DEFINE idx == location_idx(coord)
             left == SubSeq(Contents, 1, idx)
             right == SubSeq(Contents, idx + 2, Len(Contents))
  <2>1. idx \in 0..size - 1 /\ array[idx] = coord
    BY <1>2, LocationIdx
  <2>2. /\ size \in Nat /\ Contents \in Seq(Point2D_t) /\ Len(Contents) = size
        /\ \A i \in 1..size : Contents[i] = array[i - 1] /\ Contents[i] \in Point2D_t
    BY ContentsType, NumbersType
  <2>3. \A i \in 0..size' - 1 : array'[i] = array[IF i < idx THEN i ELSE i + 1]
    BY <1>2, <2>1, Shifted
  <2> HIDE DEF idx
  <2>4. /\ Contents' \in Seq(Point2D_t) /\ Len(Contents') = size - 1
        /\ \A i \in 1..size - 1 : Contents'[i] = array'[i - 1]
    <3>1. size' \in Nat /\ \A i \in 1..size' : array'[i - 1] \in Point2D_t
      BY LimitAssumption DEF TypeOK, Index
    <3> QED
      BY <1>2, <3>1, PrefixType DEF Contents
  <2>5. /\ left \in Seq(Point2D_t) /\ Len(left) = idx
        /\ \A i \in 1..idx : left[i] = Contents[i]
    BY <2>1, <2>2, SubSeqProperties
  <2>6. /\ right \in Seq(Point2D_t) /\ Len(right) = size - idx - 1
        /\ \A i \in 1..size - idx - 1 : right[i] = Contents[idx + 1 + i]
    <3>1. \A i \in idx + 2..size : Contents[i] \in Point2D_t
      BY <2>1, <2>2
    <3>2. /\ right \in Seq(Point2D_t)
          /\ Len(right) = IF idx + 2 <= size THEN size - (idx + 2) + 1 ELSE 0
          /\ \A i \in 1..size - (idx + 2) + 1 : right[i] = Contents[idx + 2 + i - 1]
      BY <2>1, <2>2, <3>1, SubSeqProperties
    <3> QED
      BY <2>1, <2>2, <3>2
  <2>7. /\ left \o right \in Seq(Point2D_t) /\ Len(left \o right) = size - 1
        /\ \A i \in 1..size - 1 : (left \o right)[i] =
             IF i <= idx THEN left[i] ELSE right[i - idx]
    <3> HIDE DEF left, right
    <3>1. /\ left \o right \in Seq(Point2D_t)
          /\ Len(left \o right) = Len(left) + Len(right)
          /\ \A i \in 1..Len(left) + Len(right) : (left \o right)[i] =
               IF i <= Len(left) THEN left[i] ELSE right[i - Len(left)]
      BY <2>5, <2>6, ConcatProperties
    <3> QED
      BY <2>1, <2>2, <2>5, <2>6, <3>1
  <2>8. ASSUME NEW i \in 1..size - 1
        PROVE  Contents'[i] = (left \o right)[i]
    <3> HIDE DEF left, right
    <3>1. i - 1 \in 0..size' - 1 /\ i \in 1..size /\ i + 1 \in 1..size
      BY <1>2, <2>2
    <3>2. Contents'[i] = array[IF i - 1 < idx THEN i - 1 ELSE i]
      BY <2>3, <2>4, <3>1
    <3>3. Contents'[i] = Contents[IF i <= idx THEN i ELSE i + 1]
      BY <2>1, <2>2, <3>1, <3>2
    <3>4. CASE i <= idx
      BY <2>1, <2>5, <2>7, <3>3, <3>4
    <3>5. CASE ~(i <= idx)
      <4>1. i - idx \in 1..size - idx - 1 /\ idx + 1 + (i - idx) = i + 1
        BY <2>1, <2>2, <3>5
      <4> QED
        BY <2>6, <2>7, <3>3, <3>5, <4>1
    <3> QED
      BY <3>4, <3>5
  <2>9. Contents' = left \o right
    <3> HIDE DEF left, right
    <3> QED
      BY <2>4, <2>7, <2>8, SeqEqual
  <2>10. PICK i \in 1..Len(Contents) : i = idx + 1
    BY <2>1, <2>2
  <2>11. /\ Contents[i] = coord
         /\ left = SubSeq(Contents, 1, i - 1)
         /\ right = SubSeq(Contents, i + 1, Len(Contents))
    <3>1. i - 1 = idx /\ i + 1 = idx + 2
      BY <2>1, <2>2, <2>10
    <3> QED
      BY <2>1, <2>2, <2>10, <3>1
  <2> HIDE DEF left, right
  <2> QED
    BY <1>2, <2>9, <2>10, <2>11 DEF L!Remove, Answer
<1> QED
  BY <1>1, <1>2 DEF remove_location

\* The search ends with the location that the list would choose.
LEMMA QueryImplements ==
  ASSUME Inv, QueryEnd
  PROVE  \E q \in Point2D_t : L!Query(q)
<1> USE DEF Inv
<1>1. /\ search \in SearchType /\ search.i = size /\ size \in Nat
      /\ status' = Answer("closest", <<search.coord, search.min>>) /\ UNCHANGED Contents
  BY NumbersType, ContentsKeep DEF QueryEnd, TypeOK
<1>2. PICK k \in 0..size - 1 : Minimum(k)
  BY <1>1 DEF QueryEnd, SearchInv
<1>3. PICK i \in 1..Len(Contents) : i = k + 1
  BY <1>1, <1>2, ContentsType
<1>4. Contents[i] = array[k] /\ Contents[i] = search.min
  BY <1>1, <1>2, <1>3, ContentsType DEF Minimum
<1>5. L!Nearest(i, search.coord)
  <2> SUFFICES ASSUME NEW j \in 1..Len(Contents)
               PROVE  /\ L!Dist(Contents[i], search.coord) <= L!Dist(Contents[j], search.coord)
                      /\ j < i =>
                          L!Dist(Contents[i], search.coord) < L!Dist(Contents[j], search.coord)
    BY DEF L!Nearest
  <2>1. j - 1 \in 0..search.i - 1 /\ Contents[j] = array[j - 1] /\ (j < i => j - 1 < k)
    BY <1>1, <1>2, <1>3, ContentsType
  <2>2. search.min_dist = L!Dist(Contents[i], search.coord)
    BY <1>2, <1>4 DEF Minimum
  <2> QED
    BY <1>2, <2>1, <2>2 DEF Minimum
<1>6. search.coord \in Point2D_t
  BY <1>1 DEF SearchType
<1>7. L!Query(search.coord)
  BY <1>1, <1>3, <1>4, <1>5 DEF L!Query, Answer
<1> QED
  BY <1>6, <1>7

LEMMA StepImplements ==
  ASSUME Inv, Inv', [Next]_vars
  PROVE  [L!ListNext]_(L!listVars)
<1> USE DEF L!ListNext, L!listVars, L!Point2D_t
<1>1. ASSUME NEW coord \in Point2D_t, add_location(coord)
      PROVE  L!ListNext
  BY <1>1, AddImplements DEF Point2D_t
<1>2. ASSUME NEW coord \in Point2D_t, remove_location(coord)
      PROVE  L!ListNext
  BY <1>2, RemoveImplements DEF Point2D_t
<1>3. CASE location_array_to_string
  BY <1>3, ContentsKeep DEF location_array_to_string, L!List, Answer
<1>4. ASSUME NEW coord \in Point2D_t, QueryStart(coord)
      PROVE  [L!ListNext]_(L!listVars)
  <2>1. UNCHANGED Contents
    BY <1>4, ContentsKeep DEF QueryStart
  <2>2. CASE size = 0
    <3>1. Contents = <<>>
      BY <2>2, ContentsType DEF Inv
    <3>2. L!Query(coord)
      BY <1>4, <2>1, <2>2, <3>1 DEF QueryStart, L!Query, Answer
    <3> QED
      BY <3>2 DEF Point2D_t
  <2>3. CASE size # 0
    BY <1>4, <2>1, <2>3 DEF QueryStart
  <2> QED
    BY <2>2, <2>3
<1>5. CASE QueryStep
  BY <1>5, ContentsKeep DEF QueryStep
<1>6. CASE QueryEnd
  BY <1>6, QueryImplements DEF Point2D_t
<1>7. CASE UNCHANGED vars
  BY <1>7, ContentsKeep DEF vars
<1> QED
  BY <1>1, <1>2, <1>3, <1>4, <1>5, <1>6, <1>7 DEF Next

-----------------------------------------------------------------------------
(* The theorems *)

\* The fill count and every search stay inside the array.
THEOREM TypeCorrect == Spec => []TypeOK
<1>1. Inv => TypeOK
  BY DEF Inv
<1> QED
  BY <1>1, Invariance, PTL

\* However long it runs, the array holds no location twice.
THEOREM NeverTwice == Spec => []Distinct
<1>1. Inv => Distinct
  BY DEF Inv
<1> QED
  BY <1>1, Invariance, PTL

\* The array with its shifts and its search loop implements the list of locations,
\* whatever the memory of the array held at the start.
THEOREM ArrayImplementsList == Spec => IsLocationList
<1>1. Init => L!ListInit
  BY InitIsListInit
<1>2. Inv /\ Inv' /\ [Next]_vars => [L!ListNext]_(L!listVars)
  BY StepImplements
<1> QED
  BY <1>1, <1>2, Invariance, PTL DEF Spec, IsLocationList, L!ListSpec

=============================================================================
