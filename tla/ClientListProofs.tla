-------------------------- MODULE ClientListProofs ---------------------------
(* Theorems of ClientList, for any connections, any order in which the     *)
(* library keeps them and any number of them that come and go meanwhile.   *)
EXTENDS ClientList, SequenceLemmas, FiniteSetTheorems

-----------------------------------------------------------------------------
(* Counting. *)

LEMMA PartCounts ==
  ASSUME NEW S, IsFiniteSet(S), NEW T, T \subseteq S
  PROVE  /\ IsFiniteSet(T)
         /\ Cardinality(T) \in Nat /\ Cardinality(S) \in Nat
         /\ Cardinality(T) <= Cardinality(S)
  BY FS_Subset, FS_CardinalityType

LEMMA OneMoreCounts ==
  ASSUME NEW S, IsFiniteSet(S), NEW e, NEW T, T \subseteq S \cup {e}
  PROVE  /\ IsFiniteSet(T)
         /\ Cardinality(T) \in Nat /\ Cardinality(S) \in Nat
         /\ Cardinality(T) <= Cardinality(S) + 1
<1>1. /\ IsFiniteSet(S \cup {e})
      /\ Cardinality(S \cup {e}) \in {Cardinality(S), Cardinality(S) + 1}
      /\ Cardinality(S) \in Nat
  BY FS_AddElement, FS_CardinalityType
<1>2. /\ IsFiniteSet(T) /\ Cardinality(T) \in Nat
      /\ Cardinality(T) <= Cardinality(S \cup {e})
  BY <1>1, PartCounts
<1>3. QED
  BY <1>1, <1>2

(* A finite set of numbers that is not empty has a greatest element: the   *)
(* one above which there is the least.                                     *)
LEMMA Greatest ==
  ASSUME NEW M, IsFiniteSet(M), M \subseteq Nat, M # {}
  PROVE  \E n \in M : \A m \in M : m <= n
<1> DEFINE Above(n) == {m \in M : m > n}
           Sets == {Above(n) : n \in M}
<1>1. Sets \subseteq SUBSET M /\ Sets # {}
  OBVIOUS
<1>2. IsWellFoundedOn(StrictSubsetOrdering(M), SUBSET M)
  BY FS_StrictSubsetOrderingWellFounded, FS_FiniteSubsetsOfFinite
<1>3. PICK least \in Sets : \A s \in Sets : ~(<<s, least>> \in StrictSubsetOrdering(M))
  <2> HIDE DEF Sets
  <2> QED BY <1>1, <1>2, WFMin
<1>4. PICK n \in M : least = Above(n)
  OBVIOUS
<1>5. ASSUME NEW m \in M, m > n
      PROVE  FALSE
  <2>1. Above(m) \subseteq Above(n) /\ m \in Above(n) /\ m \notin Above(m)
    <3>1. m \in Nat /\ n \in Nat /\ M \subseteq Nat
      OBVIOUS
    <3>2. \A x \in M : x > m => x > n
      BY <1>5, <3>1
    <3>3. ~(m > m)
      BY <3>1
    <3>4. QED
      BY <1>5, <3>2, <3>3
  <2>2. Above(m) \in SUBSET M /\ Above(n) \in SUBSET M /\ Above(m) # Above(n)
    BY <2>1
  <2>3. <<Above(m), Above(n)>> \in StrictSubsetOrdering(M)
    <3> HIDE DEF Above
    <3> QED BY <2>1, <2>2 DEF StrictSubsetOrdering
  <2>4. Above(m) \in Sets
    OBVIOUS
  <2>5. QED
    BY <1>3, <1>4, <2>3, <2>4
<1>6. QED
  BY <1>5

-----------------------------------------------------------------------------
(* The places of the list when a connection comes or goes. *)

LEMMA ArriveFacts ==
  ASSUME TypeOK, NEW c \in Ids, Arrive(c)
  PROVE  /\ c \notin came
         /\ clients' \in Seq(came') /\ came' = came \cup {c} /\ came \subseteq came'
         /\ ToSet(clients') = ToSet(clients) \cup {c}
         /\ \E n \in 1..(Len(clients) + 1) :
              /\ DOMAIN clients' = 1..(Len(clients) + 1)
              /\ \A j \in 1..(Len(clients) + 1) :
                   clients'[j] = IF j < n THEN clients[j]
                                 ELSE IF j = n THEN c ELSE clients[j - 1]
<1>1. PICK n \in 1..(Len(clients) + 1) : clients' = InsertAt(clients, n, c)
  BY DEF Arrive
<1>2. clients \in Seq(came') /\ c \in came' /\ came' = came \cup {c} /\ c \notin came
  BY DEF Arrive, TypeOK
<1> DEFINE new == InsertAt(clients, n, c)
<1>3. /\ new \in Seq(came') /\ Len(new) = Len(clients) + 1
      /\ \A j \in 1..(Len(clients) + 1) :
           new[j] = IF j < n THEN clients[j]
                    ELSE IF j = n THEN c ELSE clients[j - 1]
      /\ ToSet(new) = ToSet(clients) \cup {c}
  BY <1>2, InsertFacts
<1> HIDE DEF new
<1>4. clients' = new /\ DOMAIN new = 1..(Len(clients) + 1)
  BY <1>1, <1>3 DEF new
<1>5. QED
  BY <1>2, <1>3, <1>4

LEMMA LeaveFacts ==
  ASSUME TypeOK, EachOnce, NEW c \in Ids, Leave(c)
  PROVE  /\ clients' \in Seq(came)
         /\ c \in ToSet(clients)
         /\ ToSet(clients') \subseteq ToSet(clients) \ {c}
         /\ Len(clients) \in Nat \ {0}
         /\ \E n \in 1..Len(clients) :
              /\ DOMAIN clients' = 1..(Len(clients) - 1)
              /\ \A j \in 1..(Len(clients) - 1) :
                   clients'[j] = IF j < n THEN clients[j] ELSE clients[j + 1]
<1>1. PICK n \in DOMAIN clients : clients[n] = c /\ clients' = RemoveAt(clients, n)
  BY DEF Leave
<1>2. clients \in Seq(came) /\ n \in 1..Len(clients) /\ Len(clients) \in Nat \ {0}
      /\ DOMAIN clients = 1..Len(clients)
  BY DEF TypeOK
<1>3. /\ clients' \in Seq(came) /\ Len(clients') = Len(clients) - 1
      /\ \A j \in 1..(Len(clients) - 1) :
           clients'[j] = IF j < n THEN clients[j] ELSE clients[j + 1]
      /\ ToSet(clients') \subseteq ToSet(clients)
      /\ c \in ToSet(clients)
  BY <1>1, <1>2, RemoveFacts
<1>4. DOMAIN clients' = 1..(Len(clients) - 1)
  BY <1>3
<1>5. c \notin ToSet(clients')
  <2>1. SUFFICES ASSUME NEW j \in 1..(Len(clients) - 1), clients'[j] = c
                 PROVE  FALSE
    BY <1>4 DEF ToSet
  <2>2. /\ j \in 1..Len(clients) /\ j + 1 \in 1..Len(clients)
        /\ j < n => j # n
        /\ ~(j < n) => j + 1 # n
    BY <1>2
  <2>3. QED
    BY <1>1, <1>2, <1>3, <2>1, <2>2 DEF EachOnce
<1>6. QED
  BY <1>2, <1>3, <1>4, <1>5
-----------------------------------------------------------------------------
(* What the counts are of. *)

LEMMA PlacesAreNumbers ==
  ASSUME TypeOK
  PROVE  /\ Len(clients) \in Nat /\ DOMAIN clients = 1..Len(clients)
         /\ \A n \in DOMAIN clients : clients[n] \in ToSet(clients) /\ clients[n] \in came
         /\ \A d \in ToSet(clients) : \E n \in DOMAIN clients : clients[n] = d
         /\ Len(seen) \in Nat /\ DOMAIN seen = 1..Len(seen)
         /\ Passed \in Nat
<1>1. clients \in Seq(came) /\ seen \in Seq([client : came, id : Nat]) /\ i \in Nat
  BY DEF TypeOK
<1>2. Passed \in Nat
  BY <1>1 DEF Passed
<1>3. Len(clients) \in Nat /\ DOMAIN clients = 1..Len(clients)
  BY <1>1
<1>4. \A n \in DOMAIN clients : clients[n] \in ToSet(clients) /\ clients[n] \in came
  BY <1>1 DEF ToSet
<1>5. \A d \in ToSet(clients) : \E n \in DOMAIN clients : clients[n] = d
  BY DEF ToSet
<1>6. QED
  BY <1>1, <1>2, <1>3, <1>4, <1>5

LEMMA SeenHaveCome ==
  ASSUME TypeOK
  PROVE  Found \subseteq came /\ ToSet(clients) \subseteq came
<1>1. ASSUME NEW n \in DOMAIN seen
      PROVE  seen[n].client \in came
  <2>1. seen[n] \in [client : came, id : Nat]
    BY ElementOfSeq, PlacesAreNumbers DEF TypeOK
  <2>2. QED
    BY <2>1
<1>2. Found \subseteq came
  BY <1>1 DEF Found
<1>3. QED
  BY <1>2, PlacesAreNumbers

LEMMA Counted ==
  ASSUME TypeOK
  PROVE  /\ IsFiniteSet(Found) /\ Cardinality(Found) \in Nat
         /\ IsFiniteSet(Ahead) /\ Cardinality(Ahead) \in Nat
         /\ IsFiniteSet(Missed) /\ Cardinality(Missed) \in Nat
         /\ IsFiniteSet(arrived) /\ Cardinality(arrived) \in Nat
         /\ IsFiniteSet(left) /\ Cardinality(left) \in Nat
<1>1. /\ IsFiniteSet(came) /\ arrived \subseteq came /\ left \subseteq came
      /\ Found \subseteq came /\ ToSet(clients) \subseteq came
  BY SeenHaveCome DEF TypeOK
<1>2. Ahead \subseteq came /\ Missed \subseteq came
  BY <1>1 DEF Ahead, Missed
<1>3. QED
  BY <1>1, <1>2, PartCounts

-----------------------------------------------------------------------------
(* A connection that comes moves at most one client from before the index  *)
(* to behind it, and none the other way.                                   *)

LEMMA ArriveShifts ==
  ASSUME ListInv, NEW c \in Ids, Arrive(c)
  PROVE  /\ Ahead' \subseteq Ahead \cup {clients[Passed]}
         /\ InLoop => Missed' \subseteq Missed
<1>t. TypeOK
  BY DEF ListInv
<1>u. /\ UNCHANGED <<seen, i, at>> /\ Passed' = Passed /\ Found' = Found
  BY DEF Arrive, loop, Passed, Found
<1>1. /\ c \notin came /\ c \notin Found /\ c \notin ToSet(clients)
      /\ ToSet(clients') = ToSet(clients) \cup {c}
      /\ InLoop => arrived' = arrived \cup {c}
  BY <1>t, ArriveFacts, SeenHaveCome DEF Arrive, InLoop
<1>2. PICK n \in 1..(Len(clients) + 1) :
        /\ DOMAIN clients' = 1..(Len(clients) + 1)
        /\ \A j \in 1..(Len(clients) + 1) :
             clients'[j] = IF j < n THEN clients[j]
                           ELSE IF j = n THEN c ELSE clients[j - 1]
  BY <1>t, ArriveFacts
<1>3. /\ Len(clients) \in Nat /\ DOMAIN clients = 1..Len(clients) /\ Passed \in Nat
      /\ n \in Nat
  BY <1>t, PlacesAreNumbers
<1>4. ASSUME NEW d, NEW m \in DOMAIN clients', clients'[m] = d, d # c
      PROVE  \/ m < n /\ m \in DOMAIN clients /\ clients[m] = d
             \/ m > n /\ m - 1 \in DOMAIN clients /\ clients[m - 1] = d
  BY <1>2, <1>3, <1>4
<1>5. ASSUME NEW d \in Ahead'
      PROVE  d \in Ahead \cup {clients[Passed]}
  <2>1. PICK m \in DOMAIN clients' : m > Passed /\ clients'[m] = d
    BY <1>u DEF Ahead
  <2>2. d \in Found /\ d # c
    BY <1>u, <1>1 DEF Ahead
  <2>3. CASE m < n /\ m \in DOMAIN clients /\ clients[m] = d
    BY <2>1, <2>2, <2>3 DEF Ahead
  <2>4. CASE m > n /\ m - 1 \in DOMAIN clients /\ clients[m - 1] = d
    <3>1. m - 1 > Passed \/ m - 1 = Passed
      BY <1>2, <1>3, <2>1
    <3>2. QED
      BY <2>2, <2>4, <3>1 DEF Ahead
  <2>5. QED
    BY <1>4, <2>1, <2>2, <2>3, <2>4
<1>6. ASSUME InLoop, NEW d \in Missed'
      PROVE  d \in Missed
  <2>1. PICK m \in DOMAIN clients' : m <= Passed /\ clients'[m] = d
    BY <1>u DEF Missed
  <2>2. d \in ToSet(clients) \ (arrived \cup Found) /\ d # c
    BY <1>u, <1>1, <1>6 DEF Missed
  <2>3. CASE m < n /\ m \in DOMAIN clients /\ clients[m] = d
    BY <2>1, <2>2, <2>3 DEF Missed
  <2>4. CASE m > n /\ m - 1 \in DOMAIN clients /\ clients[m - 1] = d
    <3>1. m - 1 <= Passed
      BY <1>2, <1>3, <2>1
    <3>2. QED
      BY <2>2, <2>4, <3>1 DEF Missed
  <2>5. QED
    BY <1>4, <2>1, <2>2, <2>3, <2>4
<1>7. QED
  BY <1>5, <1>6

(* One that goes moves at most one client from behind the index to before  *)
(* it, and none the other way.                                             *)
LEMMA LeaveShifts ==
  ASSUME ListInv, NEW c \in Ids, Leave(c)
  PROVE  /\ Ahead' \subseteq Ahead
         /\ Missed' \subseteq Missed \cup {clients[Passed + 1]}
<1>t. TypeOK /\ EachOnce
  BY DEF ListInv
<1>u. /\ UNCHANGED <<seen, i, at, arrived>> /\ Passed' = Passed /\ Found' = Found
  BY DEF Leave, loop, Passed, Found
<1>1. PICK n \in 1..Len(clients) :
        /\ DOMAIN clients' = 1..(Len(clients) - 1)
        /\ \A j \in 1..(Len(clients) - 1) :
             clients'[j] = IF j < n THEN clients[j] ELSE clients[j + 1]
  BY <1>t, LeaveFacts
<1>2. /\ Len(clients) \in Nat /\ DOMAIN clients = 1..Len(clients) /\ Passed \in Nat
      /\ ToSet(clients') \subseteq ToSet(clients)
  BY <1>t, PlacesAreNumbers, LeaveFacts
<1>3. ASSUME NEW d, NEW m \in DOMAIN clients', clients'[m] = d
      PROVE  \/ m \in DOMAIN clients /\ clients[m] = d
             \/ m + 1 \in DOMAIN clients /\ clients[m + 1] = d
  BY <1>1, <1>2, <1>3
<1>4. ASSUME NEW d \in Ahead'
      PROVE  d \in Ahead
  <2>1. PICK m \in DOMAIN clients' : m > Passed /\ clients'[m] = d
    BY <1>u DEF Ahead
  <2>2. d \in Found /\ m + 1 > Passed
    BY <1>u, <1>1, <1>2, <2>1 DEF Ahead
  <2>3. QED
    BY <1>3, <2>1, <2>2 DEF Ahead
<1>5. ASSUME NEW d \in Missed'
      PROVE  d \in Missed \cup {clients[Passed + 1]}
  <2>1. PICK m \in DOMAIN clients' : m <= Passed /\ clients'[m] = d
    BY <1>u DEF Missed
  <2>2. d \in ToSet(clients) \ (arrived \cup Found)
    BY <1>u, <1>2 DEF Missed
  <2>3. m + 1 <= Passed \/ m + 1 = Passed + 1
    BY <1>1, <1>2, <2>1
  <2>4. QED
    BY <1>3, <2>1, <2>2, <2>3 DEF Missed
<1>6. QED
  BY <1>4, <1>5
-----------------------------------------------------------------------------
(* The connections. *)

LEMMA ArriveStep ==
  ASSUME ListInv, NEW c \in Ids, Arrive(c)
  PROVE  ListInv'
<1>t. TypeOK /\ EachOnce
  BY DEF ListInv
<1>u. /\ UNCHANGED <<at, room, i, seen, socket, reached, left>>
      /\ Found' = Found /\ InLoop' = InLoop
      /\ came' = came \cup {c} /\ c \notin came
      /\ clients' \in Seq(came')
      /\ ToSet(clients') = ToSet(clients) \cup {c}
      /\ InLoop => arrived' = arrived \cup {c}
      /\ ~InLoop => arrived' = arrived
  <2>1. /\ UNCHANGED <<at, room, i, seen, socket, reached, left>>
        /\ came' = came \cup {c}
        /\ InLoop => arrived' = arrived \cup {c}
        /\ ~InLoop => arrived' = arrived
    BY DEF Arrive, loop, InLoop
  <2>2. Found' = Found /\ InLoop' = InLoop
    BY <2>1 DEF Found, InLoop
  <2>3. QED
    BY <1>t, <2>1, <2>2, ArriveFacts
<1>1. TypeOK'
  <2>1. came' \subseteq Ids /\ IsFiniteSet(came') /\ arrived' \subseteq came'
    BY <1>t, <1>u, FS_AddElement DEF TypeOK
  <2>2. left' \subseteq came' \ ToSet(clients')
    BY <1>t, <1>u DEF TypeOK
  <2>3. [client : came, id : Nat] \subseteq [client : came', id : Nat]
    BY <1>u
  <2>4. seen' \in Seq([client : came', id : Nat])
    <3>1. seen \in Seq([client : came, id : Nat]) /\ seen' = seen
      BY <1>t, <1>u DEF TypeOK
    <3>2. seen \in Seq([client : came', id : Nat])
      BY <2>3, <3>1, SeqMonotonic
    <3>3. QED
      BY <3>1, <3>2
  <2>5. reached' \subseteq [meant : came', got : Nat]
    BY <1>t, <1>u DEF TypeOK
  <2>6. QED
    BY <1>t, <1>u, <2>1, <2>2, <2>4, <2>5 DEF TypeOK
<1>2. EachOnce'
  <2>1. PICK n \in 1..(Len(clients) + 1) :
          /\ DOMAIN clients' = 1..(Len(clients) + 1)
          /\ \A j \in 1..(Len(clients) + 1) :
               clients'[j] = IF j < n THEN clients[j]
                             ELSE IF j = n THEN c ELSE clients[j - 1]
    BY <1>t, ArriveFacts
  <2>2. /\ Len(clients) \in Nat /\ DOMAIN clients = 1..Len(clients)
        /\ \A j \in DOMAIN clients : clients[j] # c
    BY <1>t, <1>u, PlacesAreNumbers
  <2>3. ASSUME NEW j \in DOMAIN clients', NEW k \in DOMAIN clients',
               clients'[j] = clients'[k], j < k
        PROVE  FALSE
    <3>1. /\ j < n => j \in DOMAIN clients
          /\ j > n => j - 1 \in DOMAIN clients
          /\ k < n => k \in DOMAIN clients
          /\ k > n => k - 1 \in DOMAIN clients
          /\ j \in Nat /\ k \in Nat /\ n \in Nat
      BY <2>1, <2>2
    <3>2. CASE j = n \/ k = n
      BY <2>1, <2>2, <2>3, <3>1, <3>2
    <3>3. CASE k < n
      BY <1>t, <2>1, <2>2, <2>3, <3>1, <3>3 DEF EachOnce
    <3>4. CASE j > n
      <4>1. clients[j - 1] = clients[k - 1] /\ k > n
        BY <2>1, <2>2, <2>3, <3>1, <3>4
      <4>2. j - 1 = k - 1
        BY <1>t, <3>1, <3>4, <4>1 DEF EachOnce
      <4>3. QED
        BY <2>3, <3>1, <4>2
    <3>5. CASE j < n /\ k > n
      <4>1. clients[j] = clients[k - 1]
        BY <2>1, <2>2, <2>3, <3>1, <3>5
      <4>2. j = k - 1
        BY <1>t, <3>1, <3>5, <4>1 DEF EachOnce
      <4>3. QED
        BY <3>1, <3>5, <4>2
    <3>6. QED
      BY <3>1, <3>2, <3>3, <3>4, <3>5
  <2>4. ASSUME NEW j \in DOMAIN clients', NEW k \in DOMAIN clients'
        PROVE  j < k \/ k < j \/ j = k
    BY <2>1, <2>2
  <2>5. QED
    BY <2>3, <2>4 DEF EachOnce
<1>3. RoomForAll'
  BY <1>u DEF ListInv, RoomForAll, InLoop
<1>4. IdsWhole' /\ MistakesNeedArrivals'
  BY <1>u DEF ListInv, IdsWhole, MistakesNeedArrivals
<1>5. /\ Cardinality(arrived) \in Nat
      /\ InLoop => Cardinality(arrived') = Cardinality(arrived) + 1
      /\ ~InLoop => arrived' = arrived
  <2>1. c \notin arrived
    BY <1>t, <1>u DEF TypeOK
  <2>2. QED
    BY <1>t, <1>u, <2>1, Counted, FS_AddElement
<1>6. Len(seen) \in Nat /\ Cardinality(Found) \in Nat
  BY <1>t, Counted, PlacesAreNumbers
<1>7. RepeatsPaid'
  <2>1. SUFFICES ASSUME InLoop
                 PROVE  Cardinality(Ahead') + Len(seen)
                          <= Cardinality(Found) + Cardinality(arrived')
    BY <1>u DEF RepeatsPaid
  <2>2. /\ Cardinality(Ahead') \in Nat /\ Cardinality(Ahead) \in Nat
        /\ Cardinality(Ahead') <= Cardinality(Ahead) + 1
    BY <1>t, ArriveShifts, Counted, OneMoreCounts
  <2>3. Cardinality(Ahead) + Len(seen) <= Cardinality(Found) + Cardinality(arrived)
    BY <2>1 DEF ListInv, RepeatsPaid
  <2>4. QED
    BY <2>1, <2>2, <2>3, <1>5, <1>6
<1>8. MissesPaid'
  <2>1. SUFFICES ASSUME InLoop PROVE Cardinality(Missed') <= Cardinality(left)
    BY <1>u DEF MissesPaid
  <2>2. Cardinality(Missed') <= Cardinality(Missed) /\ Cardinality(Missed') \in Nat
        /\ Cardinality(Missed) \in Nat /\ Cardinality(left) \in Nat
    BY <1>t, <2>1, ArriveShifts, Counted, PartCounts
  <2>3. QED
    BY <2>1, <2>2 DEF ListInv, MissesPaid
<1>9. RepeatsNeedArrivals'
  <2>1. Len(seen) - Cardinality(Found) <= Cardinality(arrived)
    BY DEF ListInv, RepeatsNeedArrivals
  <2>2. Cardinality(arrived') \in Nat /\ Cardinality(arrived) <= Cardinality(arrived')
    BY <1>5
  <2>3. QED
    BY <1>u, <1>5, <1>6, <2>1, <2>2 DEF RepeatsNeedArrivals
<1>10. QED
  BY <1>1, <1>2, <1>3, <1>4, <1>7, <1>8, <1>9 DEF ListInv
LEMMA LeaveStep ==
  ASSUME ListInv, NEW c \in Ids, Leave(c)
  PROVE  ListInv'
<1>t. TypeOK /\ EachOnce
  BY DEF ListInv
<1>u. /\ UNCHANGED <<at, room, i, seen, socket, reached, came, arrived>>
      /\ Found' = Found /\ InLoop' = InLoop
      /\ clients' \in Seq(came)
      /\ c \in ToSet(clients) /\ c \in came /\ c \notin left
      /\ ToSet(clients') \subseteq ToSet(clients) \ {c}
      /\ left' \in {left, left \cup {c}}
      /\ InLoop => left' = left \cup {c}
  <2>1. /\ UNCHANGED <<at, room, i, seen, socket, reached, came, arrived>>
        /\ left' \in {left, left \cup {c}}
        /\ InLoop => left' = left \cup {c}
    BY DEF Leave, loop, InLoop
  <2>2. Found' = Found /\ InLoop' = InLoop
    BY <2>1 DEF Found, InLoop
  <2>3. c \in ToSet(clients) => c \in came /\ c \notin left
    BY <1>t, SeenHaveCome DEF TypeOK
  <2>4. QED
    BY <1>t, <2>1, <2>2, <2>3, LeaveFacts
<1>1. TypeOK'
  BY <1>t, <1>u DEF TypeOK
<1>2. EachOnce'
  <2>1. PICK n \in 1..Len(clients) :
          /\ DOMAIN clients' = 1..(Len(clients) - 1)
          /\ \A j \in 1..(Len(clients) - 1) :
               clients'[j] = IF j < n THEN clients[j] ELSE clients[j + 1]
    BY <1>t, LeaveFacts
  <2>2. Len(clients) \in Nat /\ DOMAIN clients = 1..Len(clients)
    BY <1>t, PlacesAreNumbers
  <2>3. ASSUME NEW j \in DOMAIN clients', NEW k \in DOMAIN clients',
               clients'[j] = clients'[k]
        PROVE  j = k
    <3>1. /\ j \in DOMAIN clients /\ j + 1 \in DOMAIN clients
          /\ k \in DOMAIN clients /\ k + 1 \in DOMAIN clients
          /\ j \in Nat /\ k \in Nat /\ n \in Nat
      BY <2>1, <2>2
    <3>2. (IF j < n THEN j ELSE j + 1) = (IF k < n THEN k ELSE k + 1)
      BY <1>t, <2>1, <2>2, <2>3, <3>1 DEF EachOnce
    <3>3. QED
      BY <3>1, <3>2
  <2>4. QED
    BY <2>3 DEF EachOnce
<1>3. RoomForAll' /\ IdsWhole' /\ MistakesNeedArrivals' /\ RepeatsNeedArrivals'
  BY <1>u DEF ListInv, RoomForAll, IdsWhole, MistakesNeedArrivals, RepeatsNeedArrivals
<1>4. RepeatsPaid'
  <2>1. SUFFICES ASSUME InLoop
                 PROVE  Cardinality(Ahead') + Len(seen)
                          <= Cardinality(Found) + Cardinality(arrived)
    BY <1>u DEF RepeatsPaid
  <2>2. /\ Cardinality(Ahead') \in Nat /\ Cardinality(Ahead) \in Nat
        /\ Cardinality(Ahead') <= Cardinality(Ahead)
    BY <1>t, LeaveShifts, Counted, PartCounts
  <2>3. Len(seen) \in Nat /\ Cardinality(Found) \in Nat /\ Cardinality(arrived) \in Nat
    BY <1>t, Counted, PlacesAreNumbers
  <2>4. Cardinality(Ahead) + Len(seen) <= Cardinality(Found) + Cardinality(arrived)
    BY <2>1 DEF ListInv, RepeatsPaid
  <2>5. QED
    BY <2>2, <2>3, <2>4
<1>5. MissesPaid'
  <2>1. SUFFICES ASSUME InLoop PROVE Cardinality(Missed') <= Cardinality(left')
    BY <1>u DEF MissesPaid
  <2>2. Cardinality(left') = Cardinality(left) + 1
    BY <1>t, <1>u, <2>1, Counted, FS_AddElement
  <2>3. /\ Cardinality(Missed') \in Nat /\ Cardinality(Missed) \in Nat
        /\ Cardinality(Missed') <= Cardinality(Missed) + 1
        /\ Cardinality(left) \in Nat
    BY <1>t, LeaveShifts, Counted, OneMoreCounts
  <2>4. Cardinality(Missed) <= Cardinality(left)
    BY <2>1 DEF ListInv, MissesPaid
  <2>5. QED
    BY <2>2, <2>3, <2>4
<1>6. QED
  BY <1>1, <1>2, <1>3, <1>4, <1>5 DEF ListInv

-----------------------------------------------------------------------------
(* The plugin's loop. *)

(* MaxClientIdLength is a length no client's is above.                     *)
LEMMA MaxLengthFacts ==
  ASSUME TypeOK
  PROVE  /\ MaxClientIdLength \in {0} \cup {Length(c) : c \in ToSet(clients)}
         /\ \A c \in ToSet(clients) : Length(c) <= MaxClientIdLength
<1> DEFINE lengths == {0} \cup {Length(c) : c \in ToSet(clients)}
<1>1. IsFiniteSet(ToSet(clients)) /\ ToSet(clients) \subseteq Ids
  BY SeenHaveCome, PartCounts DEF TypeOK
<1>2. IsFiniteSet({Length(c) : c \in ToSet(clients)})
  <2> DEFINE image == {Length(c) : c \in ToSet(clients)}
             lengthOf == [c \in ToSet(clients) |-> Length(c)]
  <2>1. lengthOf \in Surjection(ToSet(clients), image)
    BY DEF Surjection
  <2> HIDE DEF image, lengthOf
  <2>2. IsFiniteSet(image)
    BY <1>1, <2>1, FS_Surjection
  <2>3. QED
    BY <2>2 DEF image
<1>3. IsFiniteSet(lengths)
  <2>1. lengths = {Length(c) : c \in ToSet(clients)} \cup {0}
    OBVIOUS
  <2>2. QED
    BY <1>2, <2>1, FS_AddElement
<1>4. lengths \subseteq Nat /\ lengths # {}
  <2>1. \A c \in ToSet(clients) : Length(c) \in Nat
    BY <1>1, ListAssumption
  <2>2. QED
    BY <2>1
<1>5. \E n \in lengths : \A m \in lengths : m <= n
  BY <1>3, <1>4, Greatest
<1>6. \E n \in lengths : \A c \in ToSet(clients) : Length(c) <= n
  BY <1>5
<1>7. QED
  BY <1>6 DEF MaxClientIdLength, getClientIds

LEMMA LongestFacts ==
  /\ LongestEver \in {Length(c) : c \in Ids}
  /\ \A c \in Ids : Length(c) <= LongestEver
  BY ListAssumption DEF LongestEver

LEMMA BeginStep ==
  ASSUME ListInv, Begin
  PROVE  ListInv'
<1>t. TypeOK /\ EachOnce
  BY DEF ListInv
<1>u. /\ UNCHANGED <<clients, came, socket>>
      /\ at' = "count" /\ i' = 0 /\ seen' = <<>> /\ reached' = {}
      /\ arrived' = {} /\ left' = {}
      /\ room' \in {MaxClientIdLength, LongestEver}
  BY DEF Begin
<1>1. /\ room' \in {0} \cup {Length(c) : c \in Ids}
      /\ \A c \in ToSet(clients) : Length(c) <= room'
  <2>1. ToSet(clients) \subseteq Ids
    BY <1>t, SeenHaveCome DEF TypeOK
  <2>2. QED
    BY <1>t, <1>u, <2>1, MaxLengthFacts, LongestFacts
<1>2. TypeOK'
  <2>1. seen' \in Seq([client : came', id : Nat])
    BY <1>u, EmptySeq
  <2>2. QED
    BY <1>t, <1>u, <1>1, <2>1 DEF TypeOK
<1>3. Found' = {} /\ Ahead' = {} /\ Len(seen') = 0
  <2>1. Found' = {}
    BY <1>u DEF Found
  <2>2. QED
    BY <1>u, <2>1 DEF Ahead
<1>4. Missed' = {}
  <2>1. Passed' = 0
    BY <1>u DEF Passed
  <2>2. \A n \in DOMAIN clients : ~(n <= 0)
    BY <1>t, PlacesAreNumbers
  <2>3. QED
    BY <1>u, <2>1, <2>2 DEF Missed
<1>5. Cardinality({}) = 0
  BY FS_EmptySet
<1>6. RepeatsPaid' /\ MissesPaid' /\ RepeatsNeedArrivals'
  BY <1>u, <1>3, <1>4, <1>5 DEF RepeatsPaid, MissesPaid, RepeatsNeedArrivals
<1>7. EachOnce' /\ RoomForAll' /\ IdsWhole' /\ MistakesNeedArrivals'
  BY <1>t, <1>u, <1>1 DEF EachOnce, RoomForAll, IdsWhole, MistakesNeedArrivals
<1>8. QED
  BY <1>2, <1>6, <1>7 DEF ListInv
(* Steps that see no client and move nothing past the index.               *)
LEMMA QuietStep ==
  ASSUME ListInv, InLoop,
         UNCHANGED <<clients, came, room, seen, arrived, left>>,
         Passed' = Passed
  PROVE  /\ EachOnce' /\ RepeatsPaid' /\ MissesPaid' /\ RepeatsNeedArrivals'
         /\ RoomForAll'
<1>1. Found' = Found
  BY DEF Found
<1>2. Ahead' = Ahead /\ Missed' = Missed
  BY <1>1 DEF Ahead, Missed
<1>3. QED
  BY <1>1, <1>2
  DEF ListInv, EachOnce, RepeatsPaid, MissesPaid, RepeatsNeedArrivals, RoomForAll

LEMMA ClientsCountStep ==
  ASSUME ListInv, ClientsCount
  PROVE  ListInv'
<1>1. /\ at = "count" /\ at' \in {"index", "outside"}
      /\ UNCHANGED <<clients, came, room, i, seen, socket, reached, arrived, left>>
  BY DEF ClientsCount
<1>2. InLoop /\ Passed' = Passed
  BY <1>1 DEF InLoop, Passed
<1>3. TypeOK' /\ IdsWhole' /\ MistakesNeedArrivals'
  BY <1>1 DEF ListInv, TypeOK, IdsWhole, MistakesNeedArrivals
<1>4. QED
  BY <1>1, <1>2, <1>3, QuietStep DEF ListInv

LEMMA GetClientByIdStep ==
  ASSUME ListInv, getClientById
  PROVE  ListInv'
<1>1. /\ at = "call" /\ at' = "act"
      /\ socket' \in {0, Last(seen).id}
      /\ UNCHANGED <<clients, came, room, i, seen, reached, arrived, left>>
  BY DEF getClientById
<1>2. InLoop /\ Passed' = Passed
  BY <1>1 DEF InLoop, Passed
<1>3. Last(seen).id \in Nat
  <2>1. seen # <<>> /\ seen \in Seq([client : came, id : Nat])
    BY <1>1 DEF ListInv, IdsWhole, TypeOK
  <2>2. Last(seen) \in [client : came, id : Nat]
    BY <2>1, FrontFacts
  <2>3. QED
    BY <2>2
<1>4. TypeOK'
  BY <1>1, <1>3 DEF ListInv, TypeOK
<1>5. IdsWhole' /\ MistakesNeedArrivals'
  BY <1>1 DEF ListInv, IdsWhole, MistakesNeedArrivals
<1>6. QED
  BY <1>1, <1>2, <1>4, <1>5, QuietStep DEF ListInv

LEMMA ActStep ==
  ASSUME ListInv, Act
  PROVE  ListInv'
<1>t. TypeOK /\ IdsWhole
  BY DEF ListInv
<1>1. /\ at = "act" /\ at' = "count" /\ i' = i + 1 /\ socket' = 0
      /\ reached' \in {reached, reached \cup {[meant |-> Last(seen).client, got |-> socket]}}
      /\ socket = 0 => reached' = reached
      /\ UNCHANGED <<clients, came, room, seen, arrived, left>>
  BY DEF Act
<1>2. InLoop /\ Passed' = Passed
  BY <1>1 DEF InLoop, Passed
<1>3. /\ seen # <<>> /\ Last(seen) \in [client : came, id : Nat]
      /\ Last(seen) = seen[Len(seen)] /\ Len(seen) \in DOMAIN seen
  <2>1. seen # <<>> /\ seen \in Seq([client : came, id : Nat])
    BY <1>t, <1>1 DEF IdsWhole, TypeOK
  <2>2. /\ Last(seen) \in [client : came, id : Nat]
        /\ Last(seen) = seen[Len(seen)] /\ Len(seen) \in Nat \ {0}
    BY <2>1, FrontFacts
  <2>3. Len(seen) \in DOMAIN seen
    BY <1>t, <2>2, PlacesAreNumbers
  <2>4. QED
    BY <2>1, <2>2, <2>3
<1>4. TypeOK'
  <2>1. reached' \subseteq [meant : came, got : Nat]
    BY <1>t, <1>1, <1>3 DEF TypeOK
  <2>2. i' \in Nat
    BY <1>t, <1>1 DEF TypeOK
  <2>3. QED
    BY <1>t, <1>1, <2>1, <2>2 DEF TypeOK
<1>5. IdsWhole'
  BY <1>t, <1>1 DEF IdsWhole
<1>6. MistakesNeedArrivals'
  <2>1. CASE socket = 0
    BY <1>1, <2>1 DEF ListInv, MistakesNeedArrivals
  <2>2. CASE socket # 0
    <3>1. socket = Last(seen).id
      BY <1>t, <1>1, <2>2 DEF IdsWhole
    <3>2. Last(seen).client \in arrived \/ socket = Last(seen).client
      BY <1>t, <1>3, <3>1 DEF IdsWhole
    <3>3. QED
      BY <1>1, <3>2 DEF ListInv, MistakesNeedArrivals
  <2>3. QED
    BY <2>1, <2>2
<1>7. QED
  BY <1>1, <1>2, <1>4, <1>5, <1>6, QuietStep DEF ListInv

(* An index out of range is past every client.                             *)
LEMMA OutOfRangeStep ==
  ASSUME ListInv, at = "index", i >= Len(clients), at' = "count", i' = i + 1,
         UNCHANGED <<clients, came, room, seen, socket, reached, arrived, left>>
  PROVE  ListInv'
<1>t. TypeOK /\ i \in Nat
  BY DEF ListInv, TypeOK
<1>1. InLoop /\ Passed = i /\ Passed' = i + 1
  BY DEF InLoop, Passed
<1>2. Found' = Found
  BY DEF Found
<1>3. /\ DOMAIN clients = 1..Len(clients) /\ Len(clients) \in Nat
      /\ \A n \in DOMAIN clients : n <= i /\ ~(n > i) /\ ~(n > i + 1) /\ n <= i + 1
  <2>1. DOMAIN clients = 1..Len(clients) /\ Len(clients) \in Nat
    BY <1>t, PlacesAreNumbers
  <2>2. QED
    BY <1>t, <2>1
<1>4. Ahead' = Ahead /\ Missed' = Missed
  BY <1>1, <1>2, <1>3 DEF Ahead, Missed
<1>5. TypeOK'
  BY <1>t DEF TypeOK
<1>6. /\ EachOnce' /\ RoomForAll' /\ IdsWhole' /\ RepeatsPaid' /\ MissesPaid'
      /\ RepeatsNeedArrivals' /\ MistakesNeedArrivals'
  BY <1>1, <1>2, <1>4
  DEF ListInv, EachOnce, RoomForAll, InLoop, IdsWhole, RepeatsPaid, MissesPaid,
      RepeatsNeedArrivals, MistakesNeedArrivals
<1>7. QED
  BY <1>5, <1>6 DEF ListInv

(* What is left of an id in the buffer. *)
LEMMA CutFacts ==
  ASSUME TypeOK, NEW c \in Ids
  PROVE  Cut(c, room) \in Nat /\ (Length(c) <= room => Cut(c, room) = c)
  BY ListAssumption DEF TypeOK

LEMMA InRangeStep ==
  ASSUME ListInv, at = "index", i < Len(clients), at' = "call",
         seen' = Append(seen, [client |-> clients[i + 1], id |-> Cut(clients[i + 1], room)]),
         UNCHANGED <<clients, came, room, i, socket, reached, arrived, left>>
  PROVE  ListInv'
<1> DEFINE c == clients[i + 1]
           entry == [client |-> c, id |-> Cut(c, room)]
<1>t. TypeOK /\ EachOnce /\ IdsWhole /\ i \in Nat
  BY DEF ListInv, TypeOK
<1>1. InLoop /\ InLoop' /\ Passed = i /\ Passed' = i + 1
  BY DEF InLoop, Passed
<1>2. /\ i + 1 \in DOMAIN clients /\ c \in ToSet(clients) /\ c \in came /\ c \in Ids
      /\ DOMAIN clients \subseteq Nat
  <2>1. DOMAIN clients = 1..Len(clients) /\ Len(clients) \in Nat
    BY <1>t, PlacesAreNumbers
  <2>2. i + 1 \in DOMAIN clients /\ DOMAIN clients \subseteq Nat
    BY <1>t, <2>1
  <2>3. QED
    BY <1>t, <2>2, PlacesAreNumbers DEF TypeOK
<1>3. entry \in [client : came, id : Nat] /\ (c \in arrived \/ entry.id = c)
  BY <1>t, <1>1, <1>2, CutFacts DEF ListInv, RoomForAll
<1> HIDE DEF entry
<1>4. /\ seen' \in Seq([client : came, id : Nat]) /\ seen' # <<>>
      /\ Len(seen') = Len(seen) + 1 /\ Len(seen) \in Nat
      /\ DOMAIN seen' = 1..(Len(seen) + 1) /\ DOMAIN seen = 1..Len(seen)
      /\ \A n \in 1..Len(seen) : seen'[n] = seen[n]
      /\ seen'[Len(seen) + 1] = entry
  <2> DEFINE new == Append(seen, entry)
  <2>1. seen \in Seq([client : came, id : Nat])
    BY <1>t DEF TypeOK
  <2>2. /\ new \in Seq([client : came, id : Nat]) /\ new # <<>>
        /\ Len(new) = Len(seen) + 1
        /\ \A n \in 1..Len(seen) : new[n] = seen[n]
        /\ new[Len(seen) + 1] = entry
    BY <1>3, <2>1, AppendFacts
  <2>3. seen' = new
    BY DEF entry
  <2> HIDE DEF new
  <2>4. DOMAIN new = 1..(Len(seen) + 1)
    BY <2>2
  <2>5. QED
    BY <1>t, <2>2, <2>3, <2>4, PlacesAreNumbers
<1>e. entry.client = c
  BY DEF entry
<1>5. \A n \in DOMAIN seen' : n \in DOMAIN seen \/ n = Len(seen) + 1
  BY <1>4
<1>6. Found' = Found \cup {c}
  <2>1. \A n \in DOMAIN seen : n \in DOMAIN seen' /\ seen'[n] = seen[n]
    BY <1>4
  <2>2. Len(seen) + 1 \in DOMAIN seen'
    BY <1>4
  <2>3. QED
    BY <1>4, <1>5, <1>e, <2>1, <2>2 DEF Found
<1>7. TypeOK'
  BY <1>t, <1>4 DEF TypeOK
<1>8. IdsWhole' /\ MistakesNeedArrivals' /\ EachOnce' /\ RoomForAll'
  <2>1. IdsWhole'
    BY <1>t, <1>3, <1>4, <1>5, <1>e DEF IdsWhole
  <2>2. QED
    BY <2>1, <1>1 DEF ListInv, MistakesNeedArrivals, EachOnce, RoomForAll
<1>9. Ahead' \subseteq Ahead \ {c}
  <2>1. SUFFICES ASSUME NEW d \in Ahead' PROVE d \in Ahead \ {c}
    OBVIOUS
  <2>2. PICK n \in DOMAIN clients : n > i + 1 /\ clients[n] = d
    BY <1>1 DEF Ahead
  <2>3. n > i /\ n # i + 1
    BY <1>t, <1>2, <2>2
  <2>4. d # c
    BY <1>t, <1>2, <2>2, <2>3 DEF EachOnce
  <2>5. d \in Found
    BY <1>6, <2>4 DEF Ahead
  <2>6. QED
    BY <1>1, <2>2, <2>3, <2>4, <2>5 DEF Ahead
<1>10. Missed' \subseteq Missed
  <2>1. SUFFICES ASSUME NEW d \in Missed' PROVE d \in Missed
    OBVIOUS
  <2>2. PICK n \in DOMAIN clients : n <= i + 1 /\ clients[n] = d
    BY <1>1 DEF Missed
  <2>3. d \in ToSet(clients) \ (arrived \cup Found) /\ d # c
    BY <1>6 DEF Missed
  <2>4. n # i + 1 /\ n <= i
    BY <1>t, <1>2, <2>2, <2>3
  <2>5. QED
    BY <1>1, <2>2, <2>3, <2>4 DEF Missed
<1>11. RepeatsPaid' /\ RepeatsNeedArrivals'
  <2>1. /\ IsFiniteSet(Ahead) /\ Cardinality(Ahead) \in Nat
        /\ IsFiniteSet(Found) /\ Cardinality(Found) \in Nat
        /\ Cardinality(arrived) \in Nat
        /\ Cardinality(Ahead) + Len(seen) <= Cardinality(Found) + Cardinality(arrived)
    BY <1>t, <1>1, Counted DEF ListInv, RepeatsPaid
  <2>2. /\ IsFiniteSet(Ahead \ {c})
        /\ Cardinality(Ahead \ {c})
             = IF c \in Ahead THEN Cardinality(Ahead) - 1 ELSE Cardinality(Ahead)
    BY <2>1, FS_RemoveElement
  <2>3. /\ Cardinality(Ahead') \in Nat /\ Cardinality(Ahead \ {c}) \in Nat
        /\ Cardinality(Ahead') <= Cardinality(Ahead \ {c})
    BY <1>9, <2>2, PartCounts
  <2>4. Cardinality(Found')
          = IF c \in Found THEN Cardinality(Found) ELSE Cardinality(Found) + 1
    BY <1>6, <2>1, FS_AddElement
  <2>5. c \in Found => c \in Ahead
    <3>1. i + 1 > i
      BY <1>t
    <3>2. QED
      BY <1>1, <1>2, <3>1 DEF Ahead
  <2>6. Cardinality(Ahead') + Cardinality(Found)
          <= Cardinality(Ahead) + Cardinality(Found') - 1
    BY <2>1, <2>2, <2>3, <2>4, <2>5
  <2>7. Cardinality(Found') \in Nat
    BY <2>1, <2>4
  <2>8. Cardinality(Ahead') + (Len(seen) + 1) <= Cardinality(Found') + Cardinality(arrived)
    BY <1>4, <2>1, <2>3, <2>6, <2>7
  <2>9. (Len(seen) + 1) - Cardinality(Found') <= Cardinality(arrived)
    BY <1>4, <2>1, <2>3, <2>7, <2>8
  <2>10. QED
    BY <1>4, <2>8, <2>9 DEF RepeatsPaid, RepeatsNeedArrivals
<1>12. MissesPaid'
  <2>1. Cardinality(Missed') <= Cardinality(Missed)
        /\ Cardinality(Missed') \in Nat /\ Cardinality(Missed) \in Nat
        /\ Cardinality(left) \in Nat
    BY <1>t, <1>10, Counted, PartCounts
  <2>2. QED
    BY <1>1, <2>1 DEF ListInv, MissesPaid
<1>13. QED
  BY <1>7, <1>8, <1>11, <1>12 DEF ListInv

-----------------------------------------------------------------------------
LEMMA InitList == Init => ListInv
<1> SUFFICES ASSUME Init PROVE ListInv
  OBVIOUS
<1>1. /\ clients = <<>> /\ came = {} /\ at = "outside" /\ room = 0 /\ i = 0
      /\ seen = <<>> /\ socket = 0 /\ reached = {} /\ arrived = {} /\ left = {}
  BY DEF Init
<1>2. Found = {} /\ ToSet(clients) = {}
  BY <1>1 DEF Found, ToSet
<1>3. TypeOK
  BY <1>1, <1>2, FS_EmptySet, EmptySeq DEF TypeOK
<1>4. Cardinality({}) = 0 /\ Len(seen) = 0
  BY <1>1, FS_EmptySet
<1>5. /\ EachOnce /\ RoomForAll /\ IdsWhole /\ RepeatsPaid /\ MissesPaid
      /\ RepeatsNeedArrivals /\ MistakesNeedArrivals
  BY <1>1, <1>2, <1>4
  DEF EachOnce, RoomForAll, InLoop, IdsWhole, RepeatsPaid, MissesPaid,
      RepeatsNeedArrivals, MistakesNeedArrivals
<1>6. QED
  BY <1>3, <1>5 DEF ListInv

LEMMA NextList == ListInv /\ [Next]_vars => ListInv'
<1> SUFFICES ASSUME ListInv, [Next]_vars PROVE ListInv'
  OBVIOUS
<1>1. CASE Begin
  BY <1>1, BeginStep
<1>2. CASE ClientsCount
  BY <1>2, ClientsCountStep
<1>3. CASE GetClientIdByIndex
  BY <1>3, OutOfRangeStep, InRangeStep DEF GetClientIdByIndex, getClientIds
<1>4. CASE getClientById
  BY <1>4, GetClientByIdStep
<1>5. CASE Act
  BY <1>5, ActStep
<1>6. ASSUME NEW c \in Ids, Arrive(c)
      PROVE  ListInv'
  BY <1>6, ArriveStep
<1>7. ASSUME NEW c \in Ids, Leave(c)
      PROVE  ListInv'
  BY <1>7, LeaveStep
<1>8. CASE UNCHANGED vars
  BY <1>8
  DEF vars, loop, ListInv, TypeOK, EachOnce, RoomForAll, InLoop, IdsWhole, RepeatsPaid,
      MissesPaid, Ahead, Missed, Found, Passed, RepeatsNeedArrivals, MistakesNeedArrivals
<1>9. QED
  BY <1>1, <1>2, <1>3, <1>4, <1>5, <1>6, <1>7, <1>8 DEF Next, Game

(* The inductive invariant of the list and the loop.                       *)
THEOREM ListInvariance == Spec => []ListInv
<1>1. QED
  BY InitList, NextList, PTL DEF Spec

(* No loop is told an id again more often than connections came during it  *)
(* (ws_natives_server.cpp:264): a client told again had been moved up by   *)
(* one inserted before the index, and each insertion moves one across.     *)
THEOREM RepeatsAreArrivals == Spec => []RepeatsNeedArrivals
<1>1. ListInv => RepeatsNeedArrivals
  BY DEF ListInv
<1>2. QED
  BY ListInvariance, <1>1, PTL

(* A call by id acts on the client whose id was reported, or that client   *)
(* came after the buffer was made (ws_server.cpp:122, 132;                 *)
(* ws_natives_server.cpp:271, 293).                                        *)
THEOREM MistakesAreArrivals == Spec => []MistakesNeedArrivals
<1>1. ListInv => MistakesNeedArrivals
  BY DEF ListInv
<1>2. QED
  BY ListInvariance, <1>1, PTL

(* A loop that ends at ClientsCount (ws_natives_server.cpp:201) has missed *)
(* no more clients than disconnected during it.                            *)
THEOREM MissesAreDepartures == Spec => MissesNeedDepartures
<1>1. ASSUME ListInv, at = "count", at' = "outside", [Next]_vars
      PROVE  Cardinality(ToSet(clients) \ (arrived \cup Found)) <= Cardinality(left)
  <2>t. TypeOK
    BY <1>1 DEF ListInv
  <2>1. ClientsCount
    BY <1>1
    DEF Next, Game, Begin, GetClientIdByIndex, getClientById, Act, Arrive, Leave,
        ClientsCount, loop, vars
  <2>2. ~(i < Len(clients)) /\ Passed = i
    BY <1>1, <2>1 DEF ClientsCount, Passed
  <2>3. \A n \in DOMAIN clients : n <= Passed
    BY <2>t, <2>2, PlacesAreNumbers DEF TypeOK
  <2>4. ToSet(clients) \ (arrived \cup Found) = Missed
    BY <2>t, <2>3, PlacesAreNumbers DEF Missed
  <2>5. QED
    BY <1>1, <2>4 DEF ListInv, MissesPaid, InLoop
<1>2. ListInv /\ [Next]_vars =>
        [at = "count" /\ at' = "outside" =>
           Cardinality(ToSet(clients) \ (arrived \cup Found)) <= Cardinality(left)]_vars
  BY <1>1
<1>3. QED
  BY <1>2, ListInvariance, PTL DEF Spec, MissesNeedDepartures
=============================================================================
