---------------------------- MODULE RunLoopProofs ----------------------------
(***************************************************************************)
(* The safety properties of RunLoop hold for every size of the ring and    *)
(* every set of items, and RunLoop implements Mailbox: beyond the          *)
(* invariant of the places this needs that the reserved places are those   *)
(* between the two indices.                                                *)
(***************************************************************************)
EXTENDS RunLoop, SequenceTheorems, TLAPS

\* The entries of the ring.
PlaceRecord == [reserved : BOOLEAN, handled : BOOLEAN, dataHandled : BOOLEAN,
                item : Item \cup {GEF_NONE}]

\* nextIndex and the index that reserve takes stay in the ring.
LEMMA FollowingType == ASSUME NEW k \in Place PROVE Following(k) \in Place
  BY RunLoopAssumption DEF Following, Place

\* No token is a place.
LEMMA NullType == NULL \notin Place
  BY RunLoopAssumption DEF NULL, Place

LEMMA ZeroType == Zero \in PlaceRecord
  BY DEF Zero, PlaceRecord

-----------------------------------------------------------------------------

\* The ring starts wiped.
LEMMA InitSlotInv == Init => SlotInv
<1> SUFFICES ASSUME Init PROVE SlotInv
  OBVIOUS
<1>1. 0 \in Place
  BY RunLoopAssumption DEF Place
<1>2. TypeOK
  BY <1>1, ZeroType DEF Init, TypeOK, Users, PlaceRecord
<1>3. \A k \in Place : queue[k] = Zero
  BY DEF Init
<1>4. FreePlaceIsZero /\ EmptyPlaceIsToken /\ HalfReadIsNext /\ LibraryFollows
  BY <1>3 DEF Init, FreePlaceIsZero, EmptyPlaceIsToken, HalfReadIsNext,
              LibraryFollows, Zero
<1>6. TokenIsEmpty /\ ReservesForLiving
  BY DEF Init, TokenIsEmpty, ReservesForLiving
<1>5. TokenIsGood /\ LibraryIsConsistent /\ DataBelongsToItem
  BY DEF Init, TokenIsGood, LibraryIsConsistent, DataBelongsToItem
<1> QED
  BY <1>2, <1>4, <1>5, <1>6 DEF SlotInv

\* An item is put in a place nobody holds, so in one that was wiped, and never
\* in the kernel's.
LEMMA DeliverSlotInv ==
  ASSUME SlotInv, NEW m \in Item, Deliver(m)
  PROVE SlotInv'
<1> DEFINE k == Following(endIndex)
<1>1. k \in Place /\ nextIndex \in Place
  BY FollowingType DEF SlotInv, TypeOK, nextIndex
<1>2. /\ queue \in [Place -> PlaceRecord]
      /\ user \in Users
  BY DEF SlotInv, TypeOK, PlaceRecord
<1>3. queue[k] = Zero
  BY <1>1 DEF SlotInv, FreePlaceIsZero, Deliver, IsFree
<1>4. k # token
  <2>1. token # NULL => queue[token].reserved
    BY DEF SlotInv, TokenIsEmpty
  <2>2. ~queue[k].reserved /\ k # NULL
    BY <1>1, <1>3, NullType DEF Zero
  <2> QED
    BY <2>1, <2>2
<1>5. /\ queue' = [queue EXCEPT ![k].reserved = TRUE, ![k].item = m]
      /\ endIndex' = k
      /\ oops' = "none"
      /\ user' = Unlocked
      /\ UNCHANGED <<finishedIndex, token, current, data>>
  BY <1>3 DEF Deliver, Zero
<1>6. /\ queue'[k].reserved /\ queue'[k].item = m
      /\ ~queue'[k].handled /\ ~queue'[k].dataHandled
  BY <1>1, <1>2, <1>3, <1>5 DEF Zero
<1>7. \A j \in Place \ {k} : queue'[j] = queue[j]
  BY <1>1, <1>2, <1>5
<1>8. m # GEF_NONE
  BY RunLoopAssumption
<1>9. queue' \in [Place -> PlaceRecord]
  BY <1>1, <1>2, <1>5 DEF PlaceRecord
<1>10. Alive /\ user' \in Users /\ Alive' /\ (user' = "data" <=> user = "data")
       /\ (user' = "execute" <=> user = "execute") /\ user' # "fug" /\ user' # "none"
  BY <1>2, <1>5 DEF Deliver, Unlocked, Alive, Users
<1>11. nextIndex' = nextIndex
  BY <1>5 DEF nextIndex
<1> HIDE DEF k
<1>12. TypeOK'
  BY <1>1, <1>5, <1>9, <1>10 DEF SlotInv, TypeOK, PlaceRecord
<1>13. FreePlaceIsZero'
  BY <1>6, <1>7 DEF SlotInv, FreePlaceIsZero, Zero
<1>14. EmptyPlaceIsToken'
  <2> SUFFICES ASSUME NEW j \in Place,
                      queue'[j].reserved, queue'[j].item = GEF_NONE
               PROVE j = token'
    BY DEF EmptyPlaceIsToken
  <2>1. queue'[j] = queue[j]
    BY <1>6, <1>7, <1>8
  <2> QED
    BY <1>5, <2>1 DEF SlotInv, EmptyPlaceIsToken
<1>18. TokenIsEmpty'
  <2>1. token # NULL => token \in Place
    BY DEF SlotInv, TypeOK
  <2> QED
    BY <1>4, <1>5, <1>7, <2>1 DEF SlotInv, TokenIsEmpty
<1>19. ReservesForLiving'
  BY <1>10 DEF ReservesForLiving
<1>15. HalfReadIsNext'
  BY <1>3, <1>6, <1>7, <1>10, <1>11 DEF SlotInv, HalfReadIsNext, Zero
<1>16. LibraryFollows'
  <2>1. user = "data" => nextIndex # k
    BY <1>1, <1>3 DEF SlotInv, HalfReadIsNext, Zero
  <2> QED
    BY <1>1, <1>5, <1>7, <1>10, <1>11, <2>1 DEF SlotInv, LibraryFollows
<1>17. TokenIsGood' /\ LibraryIsConsistent' /\ DataBelongsToItem'
  BY <1>5, <1>10 DEF SlotInv, TokenIsGood, LibraryIsConsistent, DataBelongsToItem
<1> QED
  BY <1>12, <1>13, <1>14, <1>15, <1>16, <1>17, <1>18, <1>19 DEF SlotInv

\* The kernel takes a place that was wiped.
LEMMA ReserveSlotInv ==
  ASSUME SlotInv, Reserve
  PROVE SlotInv'
<1> DEFINE k == Following(endIndex)
<1>1. k \in Place /\ nextIndex \in Place
  BY FollowingType DEF SlotInv, TypeOK, nextIndex
<1>2. queue \in [Place -> PlaceRecord]
  BY DEF SlotInv, TypeOK, PlaceRecord
<1>3. queue[k] = Zero
  BY <1>1 DEF SlotInv, FreePlaceIsZero, Reserve, IsFree
<1>4. /\ queue' = [queue EXCEPT ![k].reserved = TRUE]
      /\ endIndex' = k
      /\ token' = k
      /\ token = NULL
      /\ UNCHANGED <<finishedIndex, library, oops>>
      /\ Alive
  BY DEF Reserve
<1>5. /\ queue'[k].reserved /\ queue'[k].item = GEF_NONE
      /\ ~queue'[k].handled /\ ~queue'[k].dataHandled
  BY <1>1, <1>2, <1>3, <1>4 DEF Zero
<1>6. \A j \in Place \ {k} : queue'[j] = queue[j]
  BY <1>1, <1>2, <1>4
<1>7. queue' \in [Place -> PlaceRecord]
  BY <1>1, <1>2, <1>4 DEF PlaceRecord
<1>8. nextIndex' = nextIndex /\ user' = user /\ current' = current /\ data' = data
      /\ oops' = oops
  BY <1>4 DEF nextIndex, library
<1> HIDE DEF k
<1>9. TypeOK'
  BY <1>1, <1>4, <1>7, <1>8 DEF SlotInv, TypeOK, PlaceRecord
<1>10. FreePlaceIsZero'
  BY <1>5, <1>6 DEF SlotInv, FreePlaceIsZero, Zero
<1>11. EmptyPlaceIsToken' /\ TokenIsEmpty' /\ ReservesForLiving'
  <2>1. \A j \in Place \ {k} : ~(queue[j].reserved /\ queue[j].item = GEF_NONE)
    BY <1>4, NullType DEF SlotInv, EmptyPlaceIsToken
  <2>2. EmptyPlaceIsToken'
    BY <1>4, <1>5, <1>6, <2>1 DEF EmptyPlaceIsToken
  <2>3. TokenIsEmpty'
    BY <1>1, <1>4, <1>5 DEF TokenIsEmpty, Zero
  <2>4. Alive'
    BY <1>4, <1>8 DEF Alive
  <2> QED
    BY <2>2, <2>3, <2>4 DEF ReservesForLiving
<1>12. HalfReadIsNext'
  BY <1>3, <1>5, <1>6, <1>8 DEF SlotInv, HalfReadIsNext, Zero
<1>13. LibraryFollows'
  <2>1. user = "data" => nextIndex # k
    BY <1>1, <1>3 DEF SlotInv, HalfReadIsNext, Zero
  <2>2. user # "none"
    BY <1>4 DEF Alive
  <2> QED
    BY <1>1, <1>6, <1>8, <2>1, <2>2 DEF SlotInv, LibraryFollows
<1>14. TokenIsGood' /\ LibraryIsConsistent' /\ DataBelongsToItem'
  BY <1>8 DEF SlotInv, TokenIsGood, LibraryIsConsistent, DataBelongsToItem
<1> QED
  BY <1>9, <1>10, <1>11, <1>12, <1>13, <1>14 DEF SlotInv

\* The kernel fills the place it has reserved.
LEMMA DispatchSlotInv ==
  ASSUME SlotInv, NEW m \in Item, Dispatch(m)
  PROVE SlotInv'
<1>1. /\ token # NULL
      /\ queue[token].reserved /\ queue[token].item = GEF_NONE
      /\ ~queue[token].handled /\ ~queue[token].dataHandled
      /\ token \in Place
  BY DEF SlotInv, TypeOK, TokenIsEmpty, HalfReadIsNext, Dispatch
<1>2. /\ queue \in [Place -> PlaceRecord]
      /\ user \in Users
      /\ nextIndex \in Place
  BY FollowingType DEF SlotInv, TypeOK, PlaceRecord, nextIndex
<1>3. /\ queue' = [queue EXCEPT ![token].item = m]
      /\ user' = Unlocked
      /\ token' = NULL
      /\ oops' = "none"
      /\ UNCHANGED <<finishedIndex, endIndex, current, data>>
  BY <1>1 DEF Dispatch, IsReservedAndEmpty
<1>4. /\ queue'[token].reserved /\ queue'[token].item = m
      /\ ~queue'[token].handled /\ ~queue'[token].dataHandled
  BY <1>1, <1>2, <1>3 DEF PlaceRecord
<1>5. \A j \in Place \ {token} : queue'[j] = queue[j]
  BY <1>2, <1>3
<1>6. queue' \in [Place -> PlaceRecord]
  BY <1>1, <1>2, <1>3 DEF PlaceRecord
<1>7. Alive
  BY <1>1 DEF SlotInv, ReservesForLiving
<1>8. /\ user' \in Users
      /\ user' = "data" <=> user = "data"
      /\ user' = "execute" <=> user = "execute"
      /\ user' # "fug" /\ user' # "none"
  BY <1>2, <1>3, <1>7 DEF Unlocked, Alive, Users
<1>9. nextIndex' = nextIndex
  BY <1>3 DEF nextIndex
<1>10. TypeOK'
  BY <1>3, <1>6, <1>8 DEF SlotInv, TypeOK, PlaceRecord
<1>11. FreePlaceIsZero'
  BY <1>4, <1>5 DEF SlotInv, FreePlaceIsZero, Zero
<1>12. EmptyPlaceIsToken'
  <2> SUFFICES ASSUME NEW j \in Place,
                      queue'[j].reserved, queue'[j].item = GEF_NONE
               PROVE FALSE
    BY DEF EmptyPlaceIsToken
  <2>1. j # token
    BY <1>4, RunLoopAssumption
  <2> QED
    BY <1>5, <2>1 DEF SlotInv, EmptyPlaceIsToken
<1>13. TokenIsEmpty' /\ ReservesForLiving'
  BY <1>3 DEF TokenIsEmpty, ReservesForLiving, NULL
<1>14. HalfReadIsNext'
  <2>1. user = "data" => nextIndex # token
    BY <1>1, <1>2 DEF SlotInv, HalfReadIsNext
  <2> QED
    BY <1>4, <1>5, <1>8, <1>9, <2>1 DEF SlotInv, HalfReadIsNext
<1>15. LibraryFollows'
  <2>1. user = "data" => nextIndex # token
    BY <1>1, <1>2 DEF SlotInv, HalfReadIsNext
  <2> QED
    BY <1>2, <1>3, <1>5, <1>8, <1>9, <2>1 DEF SlotInv, LibraryFollows
<1>16. TokenIsGood' /\ LibraryIsConsistent' /\ DataBelongsToItem'
  BY <1>3, <1>8 DEF SlotInv, TokenIsGood, LibraryIsConsistent, DataBelongsToItem
<1> QED
  BY <1>10, <1>11, <1>12, <1>13, <1>14, <1>15, <1>16 DEF SlotInv

\* What a step of the process needs that leaves the ring alone and reads
\* nothing of it.
LEMMA RingUntouchedSlotInv ==
  ASSUME SlotInv, token = NULL, user # "data", UNCHANGED <<loop, token, oops>>,
         user' \in Users \ {"none", "data", "fug"},
         current' \in Item \cup {GEF_NONE},
         data' = GEF_NONE
  PROVE SlotInv'
<1>1. /\ queue' = queue /\ token' = token /\ oops' = oops
      /\ finishedIndex' = finishedIndex /\ endIndex' = endIndex
      /\ nextIndex' = nextIndex
  BY DEF loop, nextIndex
<1>2. TypeOK'
  BY <1>1 DEF SlotInv, TypeOK
<1>3. FreePlaceIsZero' /\ EmptyPlaceIsToken' /\ TokenIsEmpty'
  BY <1>1 DEF SlotInv, FreePlaceIsZero, EmptyPlaceIsToken, TokenIsEmpty
<1>4. ReservesForLiving'
  BY <1>1 DEF ReservesForLiving, NULL
<1>5. HalfReadIsNext' /\ LibraryFollows'
  BY <1>1 DEF SlotInv, HalfReadIsNext, LibraryFollows
<1>6. TokenIsGood' /\ LibraryIsConsistent' /\ DataBelongsToItem'
  BY <1>1 DEF SlotInv, TokenIsGood, LibraryIsConsistent, DataBelongsToItem
<1> QED
  BY <1>2, <1>3, <1>4, <1>5, <1>6 DEF SlotInv

\* The library reads the next item: a place with an item is nobody's token.
LEMMA GetItemSlotInv ==
  ASSUME SlotInv, GetItem
  PROVE SlotInv'
<1>1. token = NULL /\ user = "get" /\ oops = "none" /\ token' = token
      /\ data' = data /\ oops' = oops
  BY DEF GetItem, At
<1>2. data = GEF_NONE
  BY <1>1 DEF SlotInv, LibraryFollows
<1>3. CASE isEmpty
  <2>1. UNCHANGED <<loop, token, oops>> /\ user' = "wait" /\ current' = current
    BY <1>1, <1>3 DEF GetItem
  <2>2. current' \in Item \cup {GEF_NONE}
    BY <2>1 DEF SlotInv, TypeOK
  <2> QED
    BY <1>1, <1>2, <2>1, <2>2, RingUntouchedSlotInv DEF Users
<1>4. CASE ~isEmpty
  <2>1. /\ queue \in [Place -> PlaceRecord]
        /\ nextIndex \in Place
    BY FollowingType DEF SlotInv, TypeOK, PlaceRecord, nextIndex
  <2>2. /\ queue[nextIndex].item # GEF_NONE
        /\ queue[nextIndex].reserved
        /\ ~queue[nextIndex].handled /\ ~queue[nextIndex].dataHandled
    BY <1>1, <1>4, <2>1
    DEF SlotInv, isEmpty, FreePlaceIsZero, HalfReadIsNext, Zero
  <2> DEFINE q == [queue EXCEPT ![nextIndex].handled = TRUE]
  <2>3. q[nextIndex].handled /\ ~q[nextIndex].dataHandled
    BY <2>1, <2>2 DEF PlaceRecord
  <2>4. /\ queue' = q
        /\ finishedIndex' = finishedIndex
        /\ endIndex' = endIndex
        /\ user' = "data"
        /\ current' = queue[nextIndex].item
    BY <1>4, <2>2, <2>3 DEF GetItem, finishIfNeeded, Finish
  <2>5. /\ queue'[nextIndex].reserved
        /\ queue'[nextIndex].item = queue[nextIndex].item
        /\ queue'[nextIndex].handled /\ ~queue'[nextIndex].dataHandled
    BY <2>1, <2>2, <2>4 DEF PlaceRecord
  <2>6. \A j \in Place \ {nextIndex} : queue'[j] = queue[j]
    BY <2>1, <2>4
  <2>7. queue' \in [Place -> PlaceRecord]
    BY <2>1, <2>4 DEF PlaceRecord
  <2>8. nextIndex' = nextIndex
    BY <2>4 DEF nextIndex
  <2>9. current' \in Item
    BY <2>1, <2>2, <2>4 DEF PlaceRecord
  <2> HIDE DEF q
  <2>10. TypeOK'
    BY <1>1, <2>4, <2>7, <2>9 DEF SlotInv, TypeOK, PlaceRecord, Users
  <2>11. FreePlaceIsZero' /\ EmptyPlaceIsToken'
    BY <1>1, <2>2, <2>5, <2>6 DEF SlotInv, FreePlaceIsZero, EmptyPlaceIsToken
  <2>12. TokenIsEmpty' /\ ReservesForLiving'
    BY <1>1 DEF TokenIsEmpty, ReservesForLiving, NULL
  <2>13. HalfReadIsNext'
    BY <1>1, <2>4, <2>5, <2>6, <2>8 DEF SlotInv, HalfReadIsNext
  <2>14. LibraryFollows'
    BY <1>1, <1>2, <2>4, <2>5, <2>8 DEF LibraryFollows
  <2>15. TokenIsGood' /\ LibraryIsConsistent' /\ DataBelongsToItem'
    BY <1>1, <1>2, <2>4
    DEF TokenIsGood, LibraryIsConsistent, DataBelongsToItem
  <2> QED
    BY <2>10, <2>11, <2>12, <2>13, <2>14, <2>15 DEF SlotInv
<1> QED
  BY <1>3, <1>4

\* It reads its data, and the place is wiped.
LEMMA GetDataSlotInv ==
  ASSUME SlotInv, GetData
  PROVE SlotInv'
<1>1. token = NULL /\ user = "data" /\ oops = "none" /\ token' = token
      /\ current' = current /\ oops' = oops /\ endIndex' = endIndex
  BY DEF GetData, At
<1>2. /\ queue \in [Place -> PlaceRecord]
      /\ nextIndex \in Place
  BY FollowingType DEF SlotInv, TypeOK, PlaceRecord, nextIndex
<1>3. queue[nextIndex].handled /\ ~queue[nextIndex].dataHandled
  BY <1>1, <1>2 DEF SlotInv, HalfReadIsNext
<1>4. queue[nextIndex].reserved
  BY <1>2, <1>3 DEF SlotInv, FreePlaceIsZero, Zero
<1>5. queue[nextIndex].item # GEF_NONE
  BY <1>1, <1>2, <1>4, NullType DEF SlotInv, EmptyPlaceIsToken
<1>6. queue[nextIndex].item = current
  BY <1>1 DEF SlotInv, LibraryFollows
<1> DEFINE q == [queue EXCEPT ![nextIndex].dataHandled = TRUE]
<1>7. q[nextIndex].handled /\ q[nextIndex].dataHandled
  BY <1>2, <1>3 DEF PlaceRecord
<1>8. /\ queue' = [q EXCEPT ![nextIndex] = Zero]
      /\ finishedIndex' = nextIndex
      /\ user' = "execute"
      /\ data' = current
  BY <1>3, <1>5, <1>6, <1>7 DEF GetData, Pending, isEmpty, finishIfNeeded, Finish
<1>9. queue' = [queue EXCEPT ![nextIndex] = Zero]
  BY <1>2, <1>8
<1> HIDE DEF q
<1>10. queue' \in [Place -> PlaceRecord] /\ nextIndex' \in Place
  BY <1>2, <1>8, <1>9, ZeroType, FollowingType DEF nextIndex
<1>11. \A j \in Place : queue'[j] = Zero \/ (j # nextIndex /\ queue'[j] = queue[j])
  BY <1>2, <1>9
<1>12. TypeOK'
  BY <1>1, <1>2, <1>8, <1>10 DEF SlotInv, TypeOK, PlaceRecord, Users
<1>13. FreePlaceIsZero' /\ EmptyPlaceIsToken'
  <2>1. FreePlaceIsZero'
    BY <1>11 DEF SlotInv, FreePlaceIsZero
  <2>2. ~Zero.reserved
    BY DEF Zero
  <2>3. EmptyPlaceIsToken'
    BY <1>1, <1>11, <2>2 DEF SlotInv, EmptyPlaceIsToken
  <2> QED
    BY <2>1, <2>3
<1>14. TokenIsEmpty' /\ ReservesForLiving'
  BY <1>1 DEF TokenIsEmpty, ReservesForLiving, NULL
<1>15. HalfReadIsNext'
  BY <1>1, <1>8, <1>11 DEF SlotInv, HalfReadIsNext, Zero
<1>16. LibraryFollows'
  BY <1>8 DEF LibraryFollows
<1>17. TokenIsGood' /\ LibraryIsConsistent' /\ DataBelongsToItem'
  BY <1>1, <1>8 DEF TokenIsGood, LibraryIsConsistent, DataBelongsToItem
<1> QED
  BY <1>12, <1>13, <1>14, <1>15, <1>16, <1>17 DEF SlotInv

\* The ring is wiped for the next process.
LEMMA CleanupSlotInv ==
  ASSUME SlotInv, Cleanup
  PROVE SlotInv'
<1>1. /\ token = NULL /\ user = "finished" /\ oops = "none"
      /\ queue' = [k \in Place |-> Zero]
      /\ finishedIndex' = 0 /\ endIndex' = 0
      /\ user' = "none"
      /\ token' = token /\ current' = current /\ data' = data /\ oops' = oops
  BY DEF Cleanup, At, ZeroesIndices
<1>2. 0 \in Place
  BY RunLoopAssumption DEF Place
<1>3. data = GEF_NONE
  BY <1>1 DEF SlotInv, LibraryFollows
<1>4. \A k \in Place : queue'[k] = Zero
  BY <1>1
<1>5. TypeOK'
  BY <1>1, <1>2, ZeroType DEF SlotInv, TypeOK, PlaceRecord, Users
<1>6. FreePlaceIsZero' /\ EmptyPlaceIsToken' /\ HalfReadIsNext' /\ LibraryFollows'
  BY <1>1, <1>3, <1>4
  DEF FreePlaceIsZero, EmptyPlaceIsToken, HalfReadIsNext, LibraryFollows, Zero
<1>7. TokenIsEmpty' /\ ReservesForLiving'
  BY <1>1 DEF TokenIsEmpty, ReservesForLiving, NULL
<1>8. TokenIsGood' /\ LibraryIsConsistent' /\ DataBelongsToItem'
  BY <1>1, <1>3 DEF TokenIsGood, LibraryIsConsistent, DataBelongsToItem
<1> QED
  BY <1>5, <1>6, <1>7, <1>8 DEF SlotInv

\* A step that changes nothing.
LEMMA StutterSlotInv ==
  ASSUME SlotInv, UNCHANGED vars
  PROVE SlotInv'
<1>1. /\ queue' = queue /\ finishedIndex' = finishedIndex /\ endIndex' = endIndex
      /\ token' = token /\ user' = user /\ current' = current
      /\ data' = data /\ oops' = oops
  BY DEF vars, loop, library
<1>2. TypeOK' /\ FreePlaceIsZero' /\ EmptyPlaceIsToken' /\ TokenIsEmpty'
  BY <1>1 DEF SlotInv, TypeOK, FreePlaceIsZero, EmptyPlaceIsToken, TokenIsEmpty
<1>3. Alive' <=> Alive
  BY <1>1 DEF Alive
<1>4. ReservesForLiving'
  BY <1>1, <1>3 DEF SlotInv, ReservesForLiving, NULL
<1>5. HalfReadIsNext' /\ LibraryFollows'
  BY <1>1 DEF SlotInv, HalfReadIsNext, LibraryFollows, nextIndex
<1>6. TokenIsGood' /\ LibraryIsConsistent' /\ DataBelongsToItem'
  BY <1>1 DEF SlotInv, TokenIsGood, LibraryIsConsistent, DataBelongsToItem
<1> QED
  BY <1>2, <1>4, <1>5, <1>6 DEF SlotInv

-----------------------------------------------------------------------------

\* The ring's invariant holds in every reachable state: what runloop.c writes
\* and the library reads agree, whoever dispatches between their steps.
THEOREM RingSafe == Spec => []SlotInv
<1>1. SlotInv /\ [Next]_vars => SlotInv'
  <2> SUFFICES ASSUME SlotInv, [Next]_vars PROVE SlotInv'
    OBVIOUS
  <2>1. ASSUME NEW m \in Item, Deliver(m) PROVE SlotInv'
    BY <2>1, DeliverSlotInv
  <2>2. CASE Reserve
    BY <2>2, ReserveSlotInv
  <2>3. ASSUME NEW m \in Item, Dispatch(m) PROVE SlotInv'
    BY <2>3, DispatchSlotInv
  <2>4. CASE GetItem
    BY <2>4, GetItemSlotInv
  <2>5. CASE GetData
    BY <2>5, GetDataSlotInv
  <2>6. CASE Execute
    BY <2>6, RingUntouchedSlotInv DEF Execute, At, Users
  <2>7. CASE WaitForEvent
    <3>1. token = NULL /\ user = "wait" /\ UNCHANGED <<loop, token, oops>>
          /\ current' = current /\ data' = data
          /\ user' \in {"blocked", "get"}
      BY <2>7 DEF WaitForEvent, At
    <3>2. data = GEF_NONE /\ current \in Item \cup {GEF_NONE}
      BY <3>1 DEF SlotInv, LibraryFollows, TypeOK
    <3> QED
      BY <3>1, <3>2, RingUntouchedSlotInv DEF Users
  <2>8. CASE Bye
    BY <2>8, RingUntouchedSlotInv DEF Bye, At, Users
  <2>9. CASE Cleanup
    BY <2>9, CleanupSlotInv
  <2>10. CASE Hatch
    <3>1. token = NULL /\ user = "none" /\ UNCHANGED <<loop, token, oops>>
          /\ current' = current /\ data' = data
          /\ user' = "get"
      BY <2>10 DEF Hatch, At
    <3>2. data = GEF_NONE /\ current \in Item \cup {GEF_NONE}
      BY <3>1 DEF SlotInv, LibraryFollows, TypeOK
    <3> QED
      BY <3>1, <3>2, RingUntouchedSlotInv DEF Users
  <2>11. CASE UNCHANGED vars
    BY <2>11, StutterSlotInv
  <2> QED
    BY <2>1, <2>2, <2>3, <2>4, <2>5, <2>6, <2>7, <2>8, <2>9, <2>10, <2>11
    DEF Next, Kernel, Library
<1> QED
  BY InitSlotInv, <1>1, PTL DEF Spec

\* "Invalid dispatch item state" (runloop.c) is never reached: a token still
\* names a reserved and empty place when the kernel fills it.
THEOREM TokenStaysGood == Spec => []TokenIsGood
<1>1. SlotInv => TokenIsGood
  BY DEF SlotInv
<1> QED
  BY RingSafe, <1>1, PTL

\* The kernel never refuses the item or the data runLoopHandle asks for.
THEOREM LibraryStaysConsistent == Spec => []LibraryIsConsistent
<1>1. SlotInv => LibraryIsConsistent
  BY DEF SlotInv
<1> QED
  BY RingSafe, <1>1, PTL

\* The data runLoopHandle decodes is that of the item it has read.
THEOREM DataFollowsItem == Spec => []DataBelongsToItem
<1>1. SlotInv => DataBelongsToItem
  BY DEF SlotInv
<1> QED
  BY RingSafe, <1>1, PTL

-----------------------------------------------------------------------------
(* The ring implements the mailbox.                                        *)

Entry == Item \cup {GEF_NONE}

\* Indices modulo the size of the ring: the k-th place after f.
LEMMA PlaceAfter ==
  ASSUME NEW f \in Place, NEW k \in 0 .. DISPATCH_QUEUE_SIZE
  PROVE  /\ (f + k) % DISPATCH_QUEUE_SIZE \in Place
         /\ (f + k) % DISPATCH_QUEUE_SIZE =
              IF f + k < DISPATCH_QUEUE_SIZE THEN f + k
              ELSE f + k - DISPATCH_QUEUE_SIZE
  BY RunLoopAssumption DEF Place

\* The places that follow the finished one are all there are, each once.
LEMMA NthType ==
  ASSUME finishedIndex \in Place
  PROVE  \A k \in 0 .. DISPATCH_QUEUE_SIZE : Nth(k) \in Place
  BY PlaceAfter DEF Nth

LEMMA NthInjective ==
  ASSUME finishedIndex \in Place,
         NEW j \in 1 .. DISPATCH_QUEUE_SIZE, NEW k \in 1 .. DISPATCH_QUEUE_SIZE,
         Nth(j) = Nth(k)
  PROVE  j = k
<1>1. /\ j \in 0 .. DISPATCH_QUEUE_SIZE /\ k \in 0 .. DISPATCH_QUEUE_SIZE
      /\ finishedIndex \in 0 .. DISPATCH_QUEUE_SIZE - 1
      /\ DISPATCH_QUEUE_SIZE \in Nat
  BY RunLoopAssumption DEF Place
<1>2. Nth(j) = IF finishedIndex + j < DISPATCH_QUEUE_SIZE THEN finishedIndex + j
               ELSE finishedIndex + j - DISPATCH_QUEUE_SIZE
  BY <1>1, PlaceAfter DEF Nth
<1>3. Nth(k) = IF finishedIndex + k < DISPATCH_QUEUE_SIZE THEN finishedIndex + k
               ELSE finishedIndex + k - DISPATCH_QUEUE_SIZE
  BY <1>1, PlaceAfter DEF Nth
<1>4. CASE finishedIndex + j < DISPATCH_QUEUE_SIZE
  <2>1. Nth(j) = finishedIndex + j
    BY <1>2, <1>4
  <2> QED
    BY <1>1, <1>3, <2>1
<1>5. CASE ~(finishedIndex + j < DISPATCH_QUEUE_SIZE)
  <2>1. Nth(j) = finishedIndex + j - DISPATCH_QUEUE_SIZE
    BY <1>2, <1>5
  <2> QED
    BY <1>1, <1>3, <2>1
<1> QED
  BY <1>4, <1>5

LEMMA NthOnto ==
  ASSUME finishedIndex \in Place, NEW p \in Place
  PROVE  \E k \in 1 .. DISPATCH_QUEUE_SIZE : Nth(k) = p
<1> DEFINE k == IF p > finishedIndex THEN p - finishedIndex
                ELSE p - finishedIndex + DISPATCH_QUEUE_SIZE
<1>1. k \in 1 .. DISPATCH_QUEUE_SIZE /\ k \in 0 .. DISPATCH_QUEUE_SIZE
  BY RunLoopAssumption DEF Place
<1>2. Nth(k) = IF finishedIndex + k < DISPATCH_QUEUE_SIZE THEN finishedIndex + k
               ELSE finishedIndex + k - DISPATCH_QUEUE_SIZE
  <2> HIDE DEF k
  <2> QED
    BY <1>1, PlaceAfter DEF Nth
<1>3. Nth(k) = p
  BY <1>2, RunLoopAssumption DEF Place
<1> QED
  BY <1>1, <1>3

\* The place after the n-th is the next; after the last comes the first.
LEMMA FollowingNth ==
  ASSUME finishedIndex \in Place, NEW n \in 0 .. DISPATCH_QUEUE_SIZE
  PROVE  Following(Nth(n)) = IF n = DISPATCH_QUEUE_SIZE THEN Nth(1) ELSE Nth(n + 1)
<1>1. /\ finishedIndex \in 0 .. DISPATCH_QUEUE_SIZE - 1
      /\ DISPATCH_QUEUE_SIZE \in Nat \ {0}
      /\ 1 \in 0 .. DISPATCH_QUEUE_SIZE
  BY RunLoopAssumption DEF Place
<1>2. /\ Nth(n) \in Place
      /\ Nth(n) = IF finishedIndex + n < DISPATCH_QUEUE_SIZE THEN finishedIndex + n
                  ELSE finishedIndex + n - DISPATCH_QUEUE_SIZE
  BY PlaceAfter DEF Nth
<1>3. Following(Nth(n)) = IF Nth(n) = DISPATCH_QUEUE_SIZE - 1 THEN 0 ELSE Nth(n) + 1
  BY <1>2, <1>1 DEF Following, Place
<1>4. Nth(1) = IF finishedIndex + 1 < DISPATCH_QUEUE_SIZE THEN finishedIndex + 1
               ELSE finishedIndex + 1 - DISPATCH_QUEUE_SIZE
  BY <1>1, PlaceAfter DEF Nth
<1>5. CASE n = DISPATCH_QUEUE_SIZE
  BY <1>1, <1>2, <1>3, <1>4, <1>5
<1>6. CASE n # DISPATCH_QUEUE_SIZE
  <2>1. n + 1 \in 0 .. DISPATCH_QUEUE_SIZE
    BY <1>1, <1>6
  <2> DEFINE m == n + 1
  <2>2. Nth(m) = IF finishedIndex + m < DISPATCH_QUEUE_SIZE THEN finishedIndex + m
                 ELSE finishedIndex + m - DISPATCH_QUEUE_SIZE
    <3> HIDE DEF m
    <3>1. m \in 0 .. DISPATCH_QUEUE_SIZE
      BY <2>1 DEF m
    <3> QED
      BY <3>1, PlaceAfter DEF Nth
  <2> QED
    BY <1>1, <1>2, <1>3, <1>6, <2>2
<1> QED
  BY <1>5, <1>6

\* What Length counts.
LEMMA LengthOfHolds ==
  ASSUME finishedIndex \in Place, NEW n \in 0 .. DISPATCH_QUEUE_SIZE, Holds(n)
  PROVE  Length = n
<1>1. /\ finishedIndex \in 0 .. DISPATCH_QUEUE_SIZE - 1
      /\ DISPATCH_QUEUE_SIZE \in Nat \ {0}
      /\ 1 \in 0 .. DISPATCH_QUEUE_SIZE
      /\ 1 \in 1 .. DISPATCH_QUEUE_SIZE
  BY RunLoopAssumption DEF Place
<1>2. nextIndex = Nth(1)
  BY DEF nextIndex, Following, Nth
<1>3. queue[nextIndex].reserved <=> 1 <= n
  BY <1>1, <1>2 DEF Holds
<1>4. CASE n = 0
  BY <1>3, <1>4 DEF Length
<1>5. CASE n # 0
  <2>1. endIndex = IF finishedIndex + n < DISPATCH_QUEUE_SIZE THEN finishedIndex + n
                   ELSE finishedIndex + n - DISPATCH_QUEUE_SIZE
    BY PlaceAfter DEF Holds, Nth
  <2>2. nextIndex = IF finishedIndex + 1 < DISPATCH_QUEUE_SIZE THEN finishedIndex + 1
                    ELSE finishedIndex + 1 - DISPATCH_QUEUE_SIZE
    BY <1>1, <1>2, PlaceAfter DEF Nth
  <2>3. n - 1 \in 0 .. DISPATCH_QUEUE_SIZE - 1
    BY <1>1, <1>5
  <2>4. \/ endIndex + DISPATCH_QUEUE_SIZE - nextIndex = n - 1
        \/ endIndex + DISPATCH_QUEUE_SIZE - nextIndex = DISPATCH_QUEUE_SIZE + (n - 1)
    BY <1>1, <1>5, <2>1, <2>2
  <2>5. (endIndex + DISPATCH_QUEUE_SIZE - nextIndex) % DISPATCH_QUEUE_SIZE = n - 1
    BY <1>1, <2>3, <2>4
  <2> QED
    BY <1>1, <1>3, <1>5, <2>5 DEF Length
<1> QED
  BY <1>4, <1>5

-----------------------------------------------------------------------------

\* The box the ring stands for, when its first n places are reserved.
IsBox(n) ==
  /\ Box \in Seq(Entry)
  /\ Len(Box) = n
  /\ \A k \in 1 .. n : Box[k] = queue[Nth(k)].item

LEMMA BoxOfHolds ==
  TypeOK => \A n \in 0 .. DISPATCH_QUEUE_SIZE : Holds(n) => IsBox(n)
<1> SUFFICES ASSUME TypeOK, NEW n \in 0 .. DISPATCH_QUEUE_SIZE, Holds(n)
             PROVE  IsBox(n)
  OBVIOUS
<1>1. finishedIndex \in Place /\ queue \in [Place -> PlaceRecord]
  BY DEF TypeOK, PlaceRecord
<1>2. Length = n
  BY <1>1, LengthOfHolds
<1>3. \A k \in 1 .. n : k \in 0 .. DISPATCH_QUEUE_SIZE
  BY RunLoopAssumption
<1>4. \A k \in 1 .. n : queue[Nth(k)].item \in Entry
  BY <1>1, <1>3, NthType DEF PlaceRecord, Entry
<1>5. Box = [k \in 1 .. n |-> queue[Nth(k)].item]
  BY <1>2 DEF Box
<1>6. Box \in [1 .. n -> Entry]
  BY <1>4, <1>5
<1>7. n \in Nat
  BY RunLoopAssumption
<1>8. Box \in Seq(Entry) /\ Len(Box) = n
  BY <1>6, <1>7
<1> QED
  BY <1>5, <1>8 DEF IsBox

LEMMA BoxOfHoldsNext ==
  (TypeOK => \A n \in 0 .. DISPATCH_QUEUE_SIZE : Holds(n) => IsBox(n))'
  BY BoxOfHolds, PTL

\* The first item is opened while the library is between it and its data.
Opened == queue[nextIndex].handled
LEMMA OpenedIsData == SlotInv => Opened = (user = "data")
<1> SUFFICES ASSUME SlotInv PROVE Opened = (user = "data")
  OBVIOUS
<1>1. nextIndex \in Place /\ queue \in [Place -> PlaceRecord]
  BY FollowingType DEF SlotInv, TypeOK, nextIndex, PlaceRecord
<1>2. Opened \in BOOLEAN
  BY <1>1 DEF Opened, PlaceRecord
<1>3. Opened <=> user = "data"
  BY <1>1 DEF SlotInv, HalfReadIsNext, Opened
<1> QED
  BY <1>2, <1>3

LEMMA OpenedIsDataNext == (SlotInv => Opened = (user = "data"))'
  BY OpenedIsData, PTL

-----------------------------------------------------------------------------

\* Two sequences over the same set that agree are equal, one of them extended.
LEMMA AppendEqual ==
  ASSUME NEW S, NEW s \in Seq(S), NEW t \in Seq(S), NEW e \in S,
         Len(t) = Len(s) + 1,
         \A i \in 1 .. Len(s) : t[i] = s[i],
         t[Len(s) + 1] = e
  PROVE  t = Append(s, e)
<1> DEFINE a == Append(s, e)
<1>1. /\ a \in Seq(S) /\ Len(a) = Len(s) + 1
      /\ \A i \in 1 .. Len(s) : a[i] = s[i]
      /\ a[Len(s) + 1] = e
  BY AppendProperties
<1>2. Len(s) \in Nat
  BY LenProperties
<1> HIDE DEF a
<1>3. \A i \in 1 .. Len(t) : t[i] = a[i]
  BY <1>1, <1>2
<1>4. t = a
  BY <1>1, <1>3, SeqEqual
<1> QED
  BY <1>4 DEF a

\* Reserving the place after endIndex, and perhaps filling it, appends to the
\* box.
LEMMA AppendStep ==
  ASSUME SlotInv, SlotInv', ReservedIsContiguous, NEW m \in Entry, NEW k,
         k = Following(endIndex), IsFree(k),
         endIndex' = k, finishedIndex' = finishedIndex,
         queue'[k].reserved, queue'[k].item = m,
         \A j \in Place \ {k} : queue'[j] = queue[j]
  PROVE  /\ ReservedIsContiguous'
         /\ Len(Box) < DISPATCH_QUEUE_SIZE
         /\ Box' = Append(Box, m)
<1>1. PICK n \in 0 .. DISPATCH_QUEUE_SIZE : Holds(n)
  BY DEF ReservedIsContiguous
<1>2. /\ finishedIndex \in Place
      /\ DISPATCH_QUEUE_SIZE \in Nat \ {0}
      /\ 1 \in 1 .. DISPATCH_QUEUE_SIZE
      /\ TypeOK /\ TypeOK'
  <2>1. DISPATCH_QUEUE_SIZE \in Nat \ {0} /\ 1 \in 1 .. DISPATCH_QUEUE_SIZE
    BY RunLoopAssumption
  <2>2. TypeOK /\ TypeOK'
    BY DEF SlotInv
  <2> QED
    BY <2>1, <2>2 DEF TypeOK
<1>3. n # DISPATCH_QUEUE_SIZE
  <2> SUFFICES ASSUME n = DISPATCH_QUEUE_SIZE PROVE FALSE
    OBVIOUS
  <2>1. k = Nth(1)
    BY <1>1, <1>2, FollowingNth DEF Holds
  <2>2. queue[Nth(1)].reserved
    BY <1>1, <1>2 DEF Holds
  <2> QED
    BY <2>1, <2>2 DEF IsFree
<1>4. /\ n \in 0 .. DISPATCH_QUEUE_SIZE - 1
      /\ n + 1 \in 0 .. DISPATCH_QUEUE_SIZE
      /\ n + 1 \in 1 .. DISPATCH_QUEUE_SIZE
  BY <1>1, <1>2, <1>3
<1>5. k = Nth(n + 1)
  BY <1>1, <1>2, <1>3, FollowingNth DEF Holds
<1>6. \A j \in 1 .. DISPATCH_QUEUE_SIZE :
        /\ Nth(j)' = Nth(j)
        /\ Nth(j) \in Place
        /\ j # n + 1 => Nth(j) # k
  <2> TAKE j \in 1 .. DISPATCH_QUEUE_SIZE
  <2>1. Nth(j)' = Nth(j)
    BY DEF Nth
  <2>2. j \in 0 .. DISPATCH_QUEUE_SIZE
    BY <1>2
  <2>3. Nth(j) \in Place
    BY <1>2, <2>2, NthType
  <2>4. j # n + 1 => Nth(j) # k
    BY <1>2, <1>4, <1>5, NthInjective
  <2> QED
    BY <2>1, <2>3, <2>4
<1>7. Holds(n + 1)'
  <2>1. endIndex' = Nth(n + 1)'
    BY <1>4, <1>5, <1>6
  <2>2. ASSUME NEW j \in 1 .. DISPATCH_QUEUE_SIZE
        PROVE  queue'[Nth(j)'].reserved <=> j <= n + 1
    <3>1. CASE j = n + 1
      BY <1>5, <1>6, <3>1
    <3>2. CASE j # n + 1
      <4>1. queue'[Nth(j)'] = queue[Nth(j)]
        BY <1>6, <3>2
      <4>2. queue[Nth(j)].reserved <=> j <= n
        BY <1>1 DEF Holds
      <4>3. j <= n <=> j <= n + 1
        BY <1>1, <1>2, <3>2
      <4> QED
        BY <4>1, <4>2, <4>3
    <3> QED
      BY <3>1, <3>2
  <2> QED
    BY <2>1, <2>2 DEF Holds
<1>8. IsBox(n)
  BY <1>1, <1>2, BoxOfHolds
<1>9. IsBox(n + 1)'
  BY <1>2, <1>4, <1>7, BoxOfHoldsNext
<1>10. \A j \in 1 .. n : j \in 1 .. DISPATCH_QUEUE_SIZE /\ j \in 1 .. n + 1 /\ j # n + 1
  BY <1>2
<1>11. \A j \in 1 .. n : Box'[j] = Box[j]
  <2> TAKE j \in 1 .. n
  <2>1. Box'[j] = queue'[Nth(j)].item
    BY <1>6, <1>9, <1>10 DEF IsBox
  <2>2. Box[j] = queue[Nth(j)].item
    BY <1>8 DEF IsBox
  <2>3. queue'[Nth(j)] = queue[Nth(j)]
    BY <1>6, <1>10
  <2> QED
    BY <2>1, <2>2, <2>3
<1>12. Box'[n + 1] = m
  <2>1. n + 1 \in 1 .. n + 1
    BY <1>4
  <2>2. Box'[n + 1] = queue'[Nth(n + 1)].item
    BY <1>4, <1>6, <1>9, <2>1 DEF IsBox
  <2> QED
    BY <1>5, <2>2
<1>13. Box' = Append(Box, m)
  BY <1>8, <1>9, <1>11, <1>12, AppendEqual DEF IsBox
<1>14. Len(Box) < DISPATCH_QUEUE_SIZE
  BY <1>2, <1>4, <1>8 DEF IsBox
<1>15. ReservedIsContiguous'
  BY <1>4, <1>7 DEF ReservedIsContiguous
<1> QED
  BY <1>13, <1>14, <1>15

\* A step that neither reserves nor gives back leaves the places of the box.
LEMMA SamePlacesStep ==
  ASSUME SlotInv, SlotInv', ReservedIsContiguous,
         endIndex' = endIndex, finishedIndex' = finishedIndex,
         \A j \in Place : queue'[j].reserved = queue[j].reserved
  PROVE  /\ ReservedIsContiguous'
         /\ \E n \in 0 .. DISPATCH_QUEUE_SIZE :
              /\ Holds(n) /\ IsBox(n) /\ IsBox(n)'
              /\ \A j \in 1 .. n : /\ Nth(j) \in Place
                                   /\ Box'[j] = queue'[Nth(j)].item
                                   /\ Box[j] = queue[Nth(j)].item
<1>1. PICK n \in 0 .. DISPATCH_QUEUE_SIZE : Holds(n)
  BY DEF ReservedIsContiguous
<1>2. /\ finishedIndex \in Place
      /\ TypeOK /\ TypeOK'
  <2>1. TypeOK /\ TypeOK'
    BY DEF SlotInv
  <2> QED
    BY <2>1 DEF TypeOK
<1>3. \A j \in 0 .. DISPATCH_QUEUE_SIZE : Nth(j) \in Place /\ Nth(j)' = Nth(j)
  BY <1>2, NthType DEF Nth
<1>4. \A j \in 1 .. DISPATCH_QUEUE_SIZE : j \in 0 .. DISPATCH_QUEUE_SIZE
  BY RunLoopAssumption
<1>5. Holds(n)'
  <2>1. endIndex' = Nth(n)'
    BY <1>1, <1>3 DEF Holds
  <2>2. ASSUME NEW j \in 1 .. DISPATCH_QUEUE_SIZE
        PROVE  queue'[Nth(j)'].reserved <=> j <= n
    <3>1. queue'[Nth(j)'].reserved = queue[Nth(j)].reserved
      BY <1>3, <1>4
    <3> QED
      BY <1>1, <3>1 DEF Holds
  <2> QED
    BY <2>1, <2>2 DEF Holds
<1>6. IsBox(n) /\ IsBox(n)'
  BY <1>1, <1>2, <1>5, BoxOfHolds, BoxOfHoldsNext
<1>7. \A j \in 1 .. n : j \in 0 .. DISPATCH_QUEUE_SIZE
  BY RunLoopAssumption
<1>8. \A j \in 1 .. n : /\ Nth(j) \in Place
                        /\ Box'[j] = queue'[Nth(j)].item
                        /\ Box[j] = queue[Nth(j)].item
  BY <1>3, <1>6, <1>7 DEF IsBox
<1>9. ReservedIsContiguous'
  BY <1>5 DEF ReservedIsContiguous
<1> QED
  BY <1>1, <1>6, <1>8, <1>9

\* If it leaves the items too, it leaves the box.
LEMMA SameBoxStep ==
  ASSUME SlotInv, SlotInv', ReservedIsContiguous,
         endIndex' = endIndex, finishedIndex' = finishedIndex,
         \A j \in Place : /\ queue'[j].reserved = queue[j].reserved
                          /\ queue'[j].item = queue[j].item
  PROVE  ReservedIsContiguous' /\ Box' = Box
<1>1. PICK n \in 0 .. DISPATCH_QUEUE_SIZE :
        /\ Holds(n) /\ IsBox(n) /\ IsBox(n)'
        /\ \A j \in 1 .. n : /\ Nth(j) \in Place
                             /\ Box'[j] = queue'[Nth(j)].item
                             /\ Box[j] = queue[Nth(j)].item
  BY SamePlacesStep
<1>2. \A j \in 1 .. n : Box'[j] = Box[j]
  BY <1>1
<1>3. Box' = Box
  BY <1>1, <1>2, SeqEqual DEF IsBox
<1> QED
  BY <1>3, SamePlacesStep

\* Filling the kernel's place fills the hole in the box.
LEMMA FillStep ==
  ASSUME SlotInv, SlotInv', ReservedIsContiguous, NEW m \in Item,
         token # NULL,
         endIndex' = endIndex, finishedIndex' = finishedIndex,
         queue' = [queue EXCEPT ![token].item = m]
  PROVE  /\ ReservedIsContiguous'
         /\ \E k \in 1 .. Len(Box) :
              Box[k] = GEF_NONE /\ Box' = [Box EXCEPT ![k] = m]
<1>1. /\ token \in Place
      /\ queue[token].reserved /\ queue[token].item = GEF_NONE
  BY DEF SlotInv, TypeOK, TokenIsEmpty
<1>2. finishedIndex \in Place /\ queue \in [Place -> PlaceRecord]
  BY DEF SlotInv, TypeOK, PlaceRecord
<1>3. \A j \in Place :
        /\ queue'[j].reserved = queue[j].reserved
        /\ queue'[j].item = IF j = token THEN m ELSE queue[j].item
  BY <1>1, <1>2 DEF PlaceRecord
<1>4. PICK n \in 0 .. DISPATCH_QUEUE_SIZE :
        /\ Holds(n) /\ IsBox(n) /\ IsBox(n)'
        /\ \A j \in 1 .. n : /\ Nth(j) \in Place
                             /\ Box'[j] = queue'[Nth(j)].item
                             /\ Box[j] = queue[Nth(j)].item
  BY <1>3, SamePlacesStep
<1>5. PICK k \in 1 .. DISPATCH_QUEUE_SIZE : Nth(k) = token
  BY <1>1, <1>2, NthOnto
<1>6. k \in 1 .. n
  <2>1. k <= n
    BY <1>1, <1>4, <1>5 DEF Holds
  <2> QED
    BY <2>1, RunLoopAssumption
<1>7. Box[k] = GEF_NONE
  BY <1>1, <1>4, <1>5, <1>6
<1>8. \A j \in 1 .. n : j # k => Nth(j) # token
  <2> TAKE j \in 1 .. n
  <2>1. j \in 1 .. DISPATCH_QUEUE_SIZE
    BY RunLoopAssumption
  <2> QED
    BY <1>2, <1>5, <2>1, NthInjective
<1>9. \A j \in 1 .. n : Box'[j] = IF j = k THEN m ELSE Box[j]
  BY <1>3, <1>4, <1>5, <1>8
<1>10. m \in Entry
  BY DEF Entry
<1> DEFINE b == [Box EXCEPT ![k] = m]
<1>11. /\ b \in Seq(Entry) /\ Len(b) = Len(Box)
       /\ \A j \in 1 .. Len(Box) : b[j] = IF j = k THEN m ELSE Box[j]
  BY <1>4, <1>6, <1>10, ExceptSeq DEF IsBox
<1> HIDE DEF b
<1>12. Box' = b
  BY <1>4, <1>9, <1>11, SeqEqual DEF IsBox
<1>13. ReservedIsContiguous'
  BY <1>3, SamePlacesStep
<1> QED
  BY <1>4, <1>6, <1>7, <1>12, <1>13 DEF b, IsBox

\* Once finishedIndex has moved on, every place is one nearer.
LEMMA NthShift ==
  ASSUME finishedIndex \in Place, finishedIndex' = nextIndex,
         NEW j \in 0 .. DISPATCH_QUEUE_SIZE
  PROVE  Nth(j)' = IF j = DISPATCH_QUEUE_SIZE THEN nextIndex ELSE Nth(j + 1)
<1>1. /\ finishedIndex \in 0 .. DISPATCH_QUEUE_SIZE - 1
      /\ DISPATCH_QUEUE_SIZE \in Nat \ {0}
      /\ 1 \in 0 .. DISPATCH_QUEUE_SIZE
  BY RunLoopAssumption DEF Place
<1>2. /\ nextIndex \in Place
      /\ nextIndex = IF finishedIndex + 1 < DISPATCH_QUEUE_SIZE THEN finishedIndex + 1
                     ELSE finishedIndex + 1 - DISPATCH_QUEUE_SIZE
  BY <1>1, PlaceAfter DEF nextIndex, Following
<1>3. Nth(j)' = IF nextIndex + j < DISPATCH_QUEUE_SIZE THEN nextIndex + j
                ELSE nextIndex + j - DISPATCH_QUEUE_SIZE
  BY <1>2, PlaceAfter DEF Nth
<1>4. CASE j = DISPATCH_QUEUE_SIZE
  BY <1>1, <1>2, <1>3, <1>4 DEF Place
<1>5. CASE j # DISPATCH_QUEUE_SIZE
  <2> DEFINE i == j + 1
  <2>1. i \in 0 .. DISPATCH_QUEUE_SIZE
    BY <1>1, <1>5
  <2>2. Nth(i) = IF finishedIndex + i < DISPATCH_QUEUE_SIZE THEN finishedIndex + i
                 ELSE finishedIndex + i - DISPATCH_QUEUE_SIZE
    <3> HIDE DEF i
    <3> QED
      BY <2>1, PlaceAfter DEF Nth
  <2>3. CASE finishedIndex + 1 < DISPATCH_QUEUE_SIZE
    BY <1>1, <1>2, <1>3, <1>5, <2>2, <2>3
  <2>4. CASE ~(finishedIndex + 1 < DISPATCH_QUEUE_SIZE)
    BY <1>1, <1>2, <1>3, <1>5, <2>2, <2>4
  <2> QED
    BY <2>3, <2>4
<1> QED
  BY <1>4, <1>5

\* Wiping the next place takes the first item out of the box.
LEMMA TakeStep ==
  ASSUME SlotInv, SlotInv', ReservedIsContiguous,
         queue[nextIndex].reserved,
         queue' = [queue EXCEPT ![nextIndex] = Zero],
         finishedIndex' = nextIndex, endIndex' = endIndex
  PROVE  ReservedIsContiguous' /\ Box' = Tail(Box)
<1>1. PICK n \in 0 .. DISPATCH_QUEUE_SIZE : Holds(n)
  BY DEF ReservedIsContiguous
<1>2. /\ finishedIndex \in Place
      /\ queue \in [Place -> PlaceRecord]
      /\ TypeOK /\ TypeOK'
  <2>1. TypeOK /\ TypeOK'
    BY DEF SlotInv
  <2> QED
    BY <2>1 DEF TypeOK, PlaceRecord
<1>3. DISPATCH_QUEUE_SIZE \in Nat \ {0} /\ 1 \in 1 .. DISPATCH_QUEUE_SIZE
  BY RunLoopAssumption
<1>4. nextIndex = Nth(1) /\ nextIndex \in Place
  BY <1>2, FollowingType DEF nextIndex, Following, Nth
<1>5. 1 <= n /\ n - 1 \in 0 .. DISPATCH_QUEUE_SIZE /\ n - 1 # DISPATCH_QUEUE_SIZE
  <2>1. 1 <= n
    BY <1>1, <1>3, <1>4 DEF Holds
  <2> QED
    BY <1>3, <2>1
<1>6. ASSUME NEW j \in 1 .. DISPATCH_QUEUE_SIZE, j # DISPATCH_QUEUE_SIZE
      PROVE  /\ Nth(j)' = Nth(j + 1)
             /\ j + 1 \in 1 .. DISPATCH_QUEUE_SIZE
             /\ queue'[Nth(j)'] = queue[Nth(j + 1)]
  <2>1. /\ j + 1 \in 1 .. DISPATCH_QUEUE_SIZE
        /\ j + 1 \in 0 .. DISPATCH_QUEUE_SIZE
        /\ j \in 0 .. DISPATCH_QUEUE_SIZE
        /\ j + 1 # 1
    BY <1>3, <1>6
  <2>2. Nth(j)' = Nth(j + 1)
    BY <1>2, <1>6, <2>1, NthShift
  <2>3. Nth(j + 1) # nextIndex
    BY <1>2, <1>3, <1>4, <2>1, NthInjective
  <2>4. Nth(j + 1) \in Place
    BY <1>2, <2>1, NthType
  <2> QED
    BY <1>2, <2>1, <2>2, <2>3, <2>4
<1>7. Holds(n - 1)'
  <2>1. endIndex' = Nth(n - 1)'
    <3>1. Nth(n - 1)' = Nth((n - 1) + 1)
      BY <1>2, <1>5, NthShift
    <3>2. (n - 1) + 1 = n
      BY <1>3
    <3> QED
      BY <1>1, <3>1, <3>2 DEF Holds
  <2>2. ASSUME NEW j \in 1 .. DISPATCH_QUEUE_SIZE
        PROVE  queue'[Nth(j)'].reserved <=> j <= n - 1
    <3>1. CASE j = DISPATCH_QUEUE_SIZE
      <4>1. Nth(j)' = nextIndex
        BY <1>2, <1>3, <3>1, NthShift
      <4>2. ~queue'[nextIndex].reserved
        BY <1>2, <1>4 DEF Zero
      <4>3. ~(j <= n - 1)
        BY <1>3, <3>1
      <4> QED
        BY <4>1, <4>2, <4>3
    <3>2. CASE j # DISPATCH_QUEUE_SIZE
      <4>1. /\ queue'[Nth(j)'] = queue[Nth(j + 1)]
            /\ j + 1 \in 1 .. DISPATCH_QUEUE_SIZE
        BY <1>6, <3>2
      <4>2. queue[Nth(j + 1)].reserved <=> j + 1 <= n
        BY <1>1, <4>1 DEF Holds
      <4>3. j + 1 <= n <=> j <= n - 1
        BY <1>3
      <4> QED
        BY <4>1, <4>2, <4>3
    <3> QED
      BY <3>1, <3>2
  <2> QED
    BY <2>1, <2>2 DEF Holds
<1>8. IsBox(n)
  BY <1>1, <1>2, BoxOfHolds
<1>9. IsBox(n - 1)'
  BY <1>2, <1>5, <1>7, BoxOfHoldsNext
<1>10. Box # <<>>
  BY <1>5, <1>8, EmptySeq DEF IsBox
<1> DEFINE t == Tail(Box)
<1>11. /\ t \in Seq(Entry) /\ Len(t) = n - 1
       /\ \A i \in 1 .. n - 1 : t[i] = Box[i + 1]
  BY <1>8, <1>10, HeadTailProperties DEF IsBox
<1>12. \A i \in 1 .. n - 1 : Box'[i] = t[i]
  <2> TAKE i \in 1 .. n - 1
  <2>1. i \in 1 .. DISPATCH_QUEUE_SIZE /\ i # DISPATCH_QUEUE_SIZE /\ i + 1 \in 1 .. n
    BY <1>3
  <2>2. Box'[i] = queue'[Nth(i)'].item
    BY <1>9 DEF IsBox
  <2>3. Box[i + 1] = queue[Nth(i + 1)].item
    BY <1>8, <2>1 DEF IsBox
  <2> QED
    BY <1>6, <1>11, <2>1, <2>2, <2>3
<1> HIDE DEF t
<1>13. Box' = t
  BY <1>9, <1>11, <1>12, SeqEqual DEF IsBox
<1>14. ReservedIsContiguous'
  BY <1>5, <1>7 DEF ReservedIsContiguous
<1> QED
  BY <1>13, <1>14 DEF t

\* The wiped ring is an empty box.
LEMMA EmptyBox ==
  ASSUME TypeOK, \A k \in Place : queue[k] = Zero, endIndex = finishedIndex
  PROVE  ReservedIsContiguous /\ Box = <<>>
<1>1. finishedIndex \in Place /\ DISPATCH_QUEUE_SIZE \in Nat
  BY RunLoopAssumption DEF TypeOK
<1>2. Nth(0) = finishedIndex
  <2>1. 0 \in 0 .. DISPATCH_QUEUE_SIZE
    BY <1>1
  <2>2. (finishedIndex + 0) % DISPATCH_QUEUE_SIZE =
          IF finishedIndex + 0 < DISPATCH_QUEUE_SIZE THEN finishedIndex + 0
          ELSE finishedIndex + 0 - DISPATCH_QUEUE_SIZE
    BY <1>1, <2>1, PlaceAfter
  <2>3. finishedIndex \in 0 .. DISPATCH_QUEUE_SIZE - 1
    BY <1>1 DEF Place
  <2>4. (finishedIndex + 0) % DISPATCH_QUEUE_SIZE = finishedIndex
    BY <1>1, <2>2, <2>3
  <2> QED
    BY <2>4 DEF Nth
<1>3. \A k \in 1 .. DISPATCH_QUEUE_SIZE : Nth(k) \in Place /\ ~(k <= 0)
  BY <1>1, NthType
<1>4. Holds(0)
  BY <1>2, <1>3 DEF Holds, Zero
<1>5. 0 \in 0 .. DISPATCH_QUEUE_SIZE
  BY <1>1
<1>6. IsBox(0)
  BY <1>4, <1>5, BoxOfHolds
<1>7. Box = <<>>
  BY <1>6, EmptySeq DEF IsBox
<1> QED
  BY <1>4, <1>5, <1>7 DEF ReservedIsContiguous

LEMMA EmptyBoxNext ==
  (/\ TypeOK
   /\ \A k \in Place : queue[k] = Zero
   /\ endIndex = finishedIndex
   => ReservedIsContiguous /\ Box = <<>>)'
<1>1. /\ TypeOK
      /\ \A k \in Place : queue[k] = Zero
      /\ endIndex = finishedIndex
      => ReservedIsContiguous /\ Box = <<>>
  BY EmptyBox
<1> QED
  BY <1>1, PTL

-----------------------------------------------------------------------------
(* The steps of RunLoop as steps of Mailbox.                               *)

MailStep == [Mail!Next]_<<Box, Opened>>

\* A step that leaves the box, and the library where it is in it.
LEMMA StutterStep ==
  ASSUME SlotInv, SlotInv', ReservedIsContiguous,
         UNCHANGED <<queue, finishedIndex, endIndex>>,
         user' = "data" <=> user = "data"
  PROVE  ReservedIsContiguous' /\ MailStep
<1>1. ReservedIsContiguous' /\ Box' = Box
  BY SameBoxStep
<1>2. Opened' = Opened
  BY OpenedIsData, OpenedIsDataNext
<1> QED
  BY <1>1, <1>2 DEF MailStep

LEMMA MailboxInit == Init => ReservedIsContiguous /\ Mail!Init
<1> SUFFICES ASSUME Init PROVE ReservedIsContiguous /\ Mail!Init
  OBVIOUS
<1>1. SlotInv
  BY InitSlotInv
<1>2. ReservedIsContiguous /\ Box = <<>>
  BY <1>1, EmptyBox DEF SlotInv, Init
<1>3. Opened = FALSE
  BY <1>1, OpenedIsData DEF Init
<1> QED
  BY <1>2, <1>3 DEF Mail!Init, Opened

LEMMA MailboxDeliver ==
  ASSUME SlotInv, SlotInv', ReservedIsContiguous, NEW m \in Item, Deliver(m)
  PROVE  ReservedIsContiguous' /\ MailStep
<1> DEFINE k == Following(endIndex)
<1>1. /\ k \in Place /\ queue \in [Place -> PlaceRecord] /\ user \in Users
  BY FollowingType DEF SlotInv, TypeOK, PlaceRecord
<1>2. /\ IsFree(k)
      /\ endIndex' = k /\ finishedIndex' = finishedIndex
      /\ queue' = [queue EXCEPT ![k].reserved = TRUE, ![k].item = m]
      /\ user' = Unlocked
  BY DEF Deliver
<1>3. /\ queue'[k].reserved /\ queue'[k].item = m
      /\ \A j \in Place \ {k} : queue'[j] = queue[j]
  BY <1>1, <1>2 DEF PlaceRecord
<1>4. m \in Entry
  BY DEF Entry
<1> HIDE DEF k
<1>5. /\ ReservedIsContiguous'
      /\ Len(Box) < DISPATCH_QUEUE_SIZE
      /\ Box' = Append(Box, m)
  BY <1>2, <1>3, <1>4, AppendStep DEF k
<1>6. user' = "data" <=> user = "data"
  BY <1>2 DEF Unlocked
<1>7. Opened' = Opened
  BY <1>6, OpenedIsData, OpenedIsDataNext
<1>8. Mail!Put(m)
  BY <1>5, <1>7 DEF Mail!Put, Opened
<1> QED
  BY <1>5, <1>8 DEF MailStep, Mail!Next

LEMMA MailboxReserve ==
  ASSUME SlotInv, SlotInv', ReservedIsContiguous, Reserve
  PROVE  ReservedIsContiguous' /\ MailStep
<1> DEFINE k == Following(endIndex)
<1>1. /\ k \in Place /\ queue \in [Place -> PlaceRecord]
  BY FollowingType DEF SlotInv, TypeOK, PlaceRecord
<1>2. /\ IsFree(k)
      /\ endIndex' = k /\ finishedIndex' = finishedIndex
      /\ queue' = [queue EXCEPT ![k].reserved = TRUE]
      /\ user' = user
  BY DEF Reserve, library
<1>3. queue[k] = Zero
  BY <1>1, <1>2 DEF SlotInv, FreePlaceIsZero, IsFree
<1>4. /\ queue'[k].reserved /\ queue'[k].item = GEF_NONE
      /\ \A j \in Place \ {k} : queue'[j] = queue[j]
  BY <1>1, <1>2, <1>3 DEF Zero
<1>5. GEF_NONE \in Entry
  BY DEF Entry
<1> HIDE DEF k
<1>6. /\ ReservedIsContiguous'
      /\ Len(Box) < DISPATCH_QUEUE_SIZE
      /\ Box' = Append(Box, GEF_NONE)
  BY <1>2, <1>4, <1>5, AppendStep DEF k
<1>7. Opened' = Opened
  BY <1>2, OpenedIsData, OpenedIsDataNext
<1>8. Mail!Reserve
  BY <1>6, <1>7 DEF Mail!Reserve, Opened
<1> QED
  BY <1>6, <1>8 DEF MailStep, Mail!Next

LEMMA MailboxDispatch ==
  ASSUME SlotInv, SlotInv', ReservedIsContiguous, NEW m \in Item, Dispatch(m)
  PROVE  ReservedIsContiguous' /\ MailStep
<1>1. /\ token # NULL
      /\ endIndex' = endIndex /\ finishedIndex' = finishedIndex
      /\ queue' = [queue EXCEPT ![token].item = m]
      /\ user' = Unlocked
  BY DEF Dispatch
<1>2. PICK k \in 1 .. Len(Box) : Box[k] = GEF_NONE /\ Box' = [Box EXCEPT ![k] = m]
  BY <1>1, FillStep
<1>3. user' = "data" <=> user = "data"
  BY <1>1 DEF Unlocked
<1>4. Opened' = Opened
  BY <1>3, OpenedIsData, OpenedIsDataNext
<1>5. Mail!Fill(k, m)
  BY <1>2, <1>4 DEF Mail!Fill, Opened
<1>6. ReservedIsContiguous'
  BY <1>1, FillStep
<1> QED
  BY <1>2, <1>5, <1>6 DEF MailStep, Mail!Next

LEMMA MailboxGetItem ==
  ASSUME SlotInv, SlotInv', ReservedIsContiguous, GetItem
  PROVE  ReservedIsContiguous' /\ MailStep
<1>1. user = "get"
  BY DEF GetItem, At
<1>2. CASE isEmpty
  BY <1>1, <1>2, StutterStep DEF GetItem, loop
<1>3. CASE ~isEmpty
  <2>1. /\ queue \in [Place -> PlaceRecord]
        /\ nextIndex \in Place
        /\ finishedIndex \in Place
    BY FollowingType DEF SlotInv, TypeOK, PlaceRecord, nextIndex
  <2>2. /\ queue[nextIndex].item # GEF_NONE
        /\ queue[nextIndex].reserved
        /\ ~queue[nextIndex].handled /\ ~queue[nextIndex].dataHandled
    BY <1>1, <1>3, <2>1
    DEF SlotInv, isEmpty, FreePlaceIsZero, HalfReadIsNext, Zero
  <2> DEFINE q == [queue EXCEPT ![nextIndex].handled = TRUE]
  <2>3. q[nextIndex].handled /\ ~q[nextIndex].dataHandled
    BY <2>1, <2>2 DEF PlaceRecord
  <2>4. /\ queue' = q
        /\ finishedIndex' = finishedIndex
        /\ endIndex' = endIndex
        /\ user' = "data"
    BY <1>3, <2>2, <2>3 DEF GetItem, finishIfNeeded, Finish
  <2>5. \A j \in Place : /\ queue'[j].reserved = queue[j].reserved
                         /\ queue'[j].item = queue[j].item
    BY <2>1, <2>4 DEF PlaceRecord
  <2> HIDE DEF q
  <2>6. ReservedIsContiguous' /\ Box' = Box
    BY <2>4, <2>5, SameBoxStep
  <2>7. Box # <<>> /\ Head(Box) = queue[nextIndex].item
    <3>1. PICK n \in 0 .. DISPATCH_QUEUE_SIZE : Holds(n)
      BY DEF ReservedIsContiguous
    <3>2. nextIndex = Nth(1)
      BY DEF nextIndex, Following, Nth
    <3>3. DISPATCH_QUEUE_SIZE \in Nat \ {0}
      BY RunLoopAssumption
    <3>4. 1 <= n
      <4>1. 1 \in 1 .. DISPATCH_QUEUE_SIZE
        BY <3>3
      <4> QED
        BY <2>2, <3>1, <3>2, <4>1 DEF Holds
    <3>5. TypeOK
      BY DEF SlotInv
    <3>6. IsBox(n)
      BY <3>1, <3>5, BoxOfHolds
    <3>7. Box \in Seq(Entry) /\ Len(Box) = n /\ Box[1] = queue[nextIndex].item
      <4>1. 1 \in 1 .. n
        BY <3>3, <3>4
      <4> QED
        BY <3>2, <3>6, <4>1 DEF IsBox
    <3>8. Box # <<>>
      BY <3>4, <3>7, EmptySeq
    <3> QED
      BY <3>7, <3>8
  <2>8. Opened = FALSE /\ Opened' = TRUE
    BY <1>1, <2>4, OpenedIsData, OpenedIsDataNext
  <2>9. Mail!Open
    BY <2>2, <2>6, <2>7, <2>8 DEF Mail!Open, Opened
  <2> QED
    BY <2>6, <2>9 DEF MailStep, Mail!Next
<1> QED
  BY <1>2, <1>3

LEMMA MailboxGetData ==
  ASSUME SlotInv, SlotInv', ReservedIsContiguous, GetData
  PROVE  ReservedIsContiguous' /\ MailStep
<1>1. token = NULL /\ user = "data" /\ endIndex' = endIndex
  BY DEF GetData, At
<1>2. /\ queue \in [Place -> PlaceRecord]
      /\ nextIndex \in Place
  BY FollowingType DEF SlotInv, TypeOK, PlaceRecord, nextIndex
<1>3. queue[nextIndex].handled /\ ~queue[nextIndex].dataHandled
  BY <1>1, <1>2 DEF SlotInv, HalfReadIsNext
<1>4. queue[nextIndex].reserved
  BY <1>2, <1>3 DEF SlotInv, FreePlaceIsZero, Zero
<1>5. queue[nextIndex].item # GEF_NONE
  BY <1>1, <1>2, <1>4, NullType DEF SlotInv, EmptyPlaceIsToken
<1> DEFINE q == [queue EXCEPT ![nextIndex].dataHandled = TRUE]
<1>6. q[nextIndex].handled /\ q[nextIndex].dataHandled
  BY <1>2, <1>3 DEF PlaceRecord
<1>7. /\ queue' = [q EXCEPT ![nextIndex] = Zero]
      /\ finishedIndex' = nextIndex
      /\ user' = "execute"
  BY <1>3, <1>5, <1>6 DEF GetData, Pending, isEmpty, finishIfNeeded, Finish
<1>8. queue' = [queue EXCEPT ![nextIndex] = Zero]
  BY <1>2, <1>7
<1> HIDE DEF q
<1>9. ReservedIsContiguous' /\ Box' = Tail(Box)
  BY <1>1, <1>4, <1>7, <1>8, TakeStep
<1>10. Opened = TRUE /\ Opened' = FALSE
  BY <1>1, <1>7, OpenedIsData, OpenedIsDataNext
<1>11. Mail!Take
  BY <1>9, <1>10 DEF Mail!Take, Opened
<1> QED
  BY <1>9, <1>11 DEF MailStep, Mail!Next

LEMMA MailboxCleanup ==
  ASSUME SlotInv, SlotInv', ReservedIsContiguous, Cleanup
  PROVE  ReservedIsContiguous' /\ MailStep
<1>1. /\ queue' = [k \in Place |-> Zero]
      /\ finishedIndex' = 0 /\ endIndex' = 0
      /\ user' = "none"
  BY DEF Cleanup, ZeroesIndices
<1>2. TypeOK' /\ \A k \in Place : queue'[k] = Zero
  BY <1>1 DEF SlotInv
<1>3. ReservedIsContiguous' /\ Box' = <<>>
  BY <1>1, <1>2, EmptyBoxNext
<1>4. Opened' = FALSE
  BY <1>1, OpenedIsDataNext
<1>5. Mail!Clear
  BY <1>3, <1>4 DEF Mail!Clear, Opened
<1> QED
  BY <1>3, <1>5 DEF MailStep, Mail!Next

\* Every step keeps the reserved places together and is a step of Mailbox.
LEMMA MailboxStep ==
  SlotInv /\ SlotInv' /\ ReservedIsContiguous /\ [Next]_vars
  => ReservedIsContiguous' /\ MailStep
<1> SUFFICES ASSUME SlotInv, SlotInv', ReservedIsContiguous, [Next]_vars
             PROVE  ReservedIsContiguous' /\ MailStep
  OBVIOUS
<1>1. ASSUME NEW m \in Item, Deliver(m)
      PROVE  ReservedIsContiguous' /\ MailStep
  BY <1>1, MailboxDeliver
<1>2. CASE Reserve
  BY <1>2, MailboxReserve
<1>3. ASSUME NEW m \in Item, Dispatch(m)
      PROVE  ReservedIsContiguous' /\ MailStep
  BY <1>3, MailboxDispatch
<1>4. CASE GetItem
  BY <1>4, MailboxGetItem
<1>5. CASE GetData
  BY <1>5, MailboxGetData
<1>6. CASE Execute
  BY <1>6, StutterStep DEF Execute, At, loop
<1>7. CASE WaitForEvent
  BY <1>7, StutterStep DEF WaitForEvent, At, loop
<1>8. CASE Bye
  BY <1>8, StutterStep DEF Bye, At, loop
<1>9. CASE Cleanup
  BY <1>9, MailboxCleanup
<1>10. CASE Hatch
  BY <1>10, StutterStep DEF Hatch, At, loop
<1>11. CASE UNCHANGED vars
  BY <1>11, StutterStep DEF vars, loop, library
<1> QED
  BY <1>1, <1>2, <1>3, <1>4, <1>5, <1>6, <1>7, <1>8, <1>9, <1>10, <1>11
  DEF Next, Kernel, Library

\* The ring's whole invariant: its places, and that those that are reserved lie
\* between the two indices.
THEOREM RingInvariant == Spec => []IInv
<1>1. Init => ReservedIsContiguous
  BY MailboxInit
<1>2. IInv <=> SlotInv /\ ReservedIsContiguous
  BY DEF IInv
<1> QED
  BY RingSafe, <1>1, <1>2, MailboxStep, PTL DEF Spec

\* The ring is a mailbox: no item is lost, repeated or overtaken, whatever
\* interrupts and the kernel dispatch between the library's calls.
THEOREM RingIsMailbox == Spec => ImplementsMailbox
<1>1. Init => ReservedIsContiguous /\ Mail!Init
  BY MailboxInit
<1>2. MailStep => [Mail!Next]_<<Box, queue[nextIndex].handled>>
  BY DEF MailStep, Opened
<1> QED
  BY RingSafe, <1>1, <1>2, MailboxStep, PTL
  DEF Spec, ImplementsMailbox, Mail!Spec

=============================================================================
