----------------------------- MODULE PagesProofs -----------------------------
(***************************************************************************)
(* Proofs about Pages, for any number of loops, items and page limit.      *)
(***************************************************************************)
EXTENDS Pages, TLAPS, SequenceTheorems, FiniteSetTheorems

(* The items a sequence has, bounded by the position m, and those of S it  *)
(* must have.                                                              *)
Upto(s, m) == \A j \in 1..Len(s) : s[j] <= m

Has(s, item) == \E j \in 1..Len(s) : s[j] = item

Below(s, p) == \A j \in 1..Len(s) : \A k \in 1..Len(p) : s[j] < p[k]

TypeInv ==
  /\ stored \in SUBSET Items
  /\ newest \in 0..MaxItem
  /\ options \in 0..MaxItem
  /\ steady \in [Loop -> SUBSET Items]
  /\ pc \in [Loop -> {"idle", "fetch", "yield"} \cup Ended]
  /\ cursor \in [Loop -> 0..MaxItem]
  /\ page \in [Loop -> Seq(Items)]
  /\ next \in [Loop -> 1..End]
  /\ yielded \in [Loop -> Seq(Items)]

(* What was yielded is in order, and the page goes on where it ends.       *)
OrderInv(l) ==
  /\ Ascending(yielded[l])
  /\ Ascending(page[l])
  /\ Below(yielded[l], page[l])

(* Between pages everything yielded lies before the cursor; while a page   *)
(* is yielded, it and what came before lie before the next cursor, if that *)
(* has moved.                                                              *)
CursorInv(l) ==
  /\ pc[l] = "idle" => yielded[l] = <<>>
  /\ pc[l] \in {"idle", "fetch"} => page[l] = <<>>
  /\ pc[l] = "fetch" => Upto(yielded[l], cursor[l])
  /\ pc[l] = "yield" /\ next[l] # cursor[l] =>
       /\ cursor[l] < next[l]
       /\ Upto(yielded[l], next[l])
       /\ Upto(page[l], next[l])

(* What was there all the time is still there, and what of it lies before  *)
(* the cursor has been yielded, or is on the page.                         *)
SteadyInv(l) ==
  /\ steady[l] \subseteq stored
  /\ pc[l] = "fetch" =>
       \A item \in steady[l] :
         Start < item /\ item <= cursor[l] => Has(yielded[l], item)
  /\ pc[l] = "yield" /\ next[l] # cursor[l] =>
       \A item \in steady[l] :
         Start < item /\ item <= next[l] =>
           Has(yielded[l], item) \/ Has(page[l], item)
  /\ pc[l] = "complete" =>
       \A item \in steady[l] : Start < item => Has(yielded[l], item)

LoopInv(l) == OrderInv(l) /\ CursorInv(l) /\ SteadyInv(l)

Inv == TypeInv /\ \A l \in Loop : LoopInv(l)

-----------------------------------------------------------------------------
(* Sequences of items.                                                     *)

(* What an item moved from the head of p to the end of s leaves as it was. *)
LEMMA MoveHead ==
  ASSUME NEW s \in Seq(Items), NEW p \in Seq(Items), p # <<>>,
         Ascending(s), Ascending(p),
         Below(s, p), NEW t, t = Append(s, Head(p)), NEW q, q = Tail(p)
  PROVE  /\ t \in Seq(Items) /\ q \in Seq(Items)
         /\ Ascending(t)
         /\ Ascending(q)
         /\ Below(t, q)
         /\ \A m : Upto(s, m) /\ Upto(p, m) => Upto(t, m) /\ Upto(q, m)
         /\ \A item : Has(s, item) => Has(t, item)
         /\ \A item : Has(p, item) => Has(t, item) \/ Has(q, item)
<1>1. /\ Head(p) = p[1] /\ Head(p) \in Items
      /\ Len(p) \in Nat /\ Len(p) >= 1
      /\ q \in Seq(Items) /\ Len(q) = Len(p) - 1
      /\ \A k \in 1..Len(q) : q[k] = p[k + 1]
  BY HeadTailProperties, EmptySeq, LenProperties
<1>2. /\ t \in Seq(Items) /\ Len(t) = Len(s) + 1 /\ Len(s) \in Nat
      /\ \A j \in 1..Len(s) : t[j] = s[j]
      /\ t[Len(t)] = p[1]
  BY <1>1, AppendProperties, LenProperties
<1>3. \A j \in 1..Len(s) : s[j] \in Items
  BY ElementOfSeq
<1>4. \A k \in 1..Len(p) : p[k] \in Items
  BY ElementOfSeq
<1>5. Ascending(t)
  <2> SUFFICES ASSUME NEW j \in 1..Len(t), NEW k \in 1..Len(t), j < k
               PROVE  t[j] < t[k]
    BY DEF Ascending
  <2>1. CASE k = Len(t)
    <3>1. j \in 1..Len(s) /\ 1 \in 1..Len(p)
      BY <1>1, <1>2, <2>1
    <3> QED
      BY <1>2, <2>1, <3>1 DEF Below
  <2>2. CASE k # Len(t)
    <3>1. j \in 1..Len(s) /\ k \in 1..Len(s)
      BY <1>2, <2>2
    <3> QED
      BY <1>2, <3>1 DEF Ascending
  <2> QED
    BY <2>1, <2>2
<1>6. Ascending(q)
  BY <1>1 DEF Ascending
<1>7. Below(t, q)
  <2> SUFFICES ASSUME NEW j \in 1..Len(t), NEW k \in 1..Len(q)
               PROVE  t[j] < q[k]
    BY DEF Below
  <2>1. CASE j = Len(t)
    BY <1>1, <1>2, <2>1 DEF Ascending
  <2>2. CASE j # Len(t)
    BY <1>1, <1>2, <2>2 DEF Below
  <2> QED
    BY <2>1, <2>2
<1>8. \A m : Upto(s, m) /\ Upto(p, m) => Upto(t, m) /\ Upto(q, m)
  <2> SUFFICES ASSUME NEW m, Upto(s, m), Upto(p, m)
               PROVE  Upto(t, m) /\ Upto(q, m)
    OBVIOUS
  <2>1. Upto(t, m)
    BY <1>1, <1>2 DEF Upto
  <2>2. Upto(q, m)
    BY <1>1 DEF Upto
  <2> QED
    BY <2>1, <2>2
<1>9. \A item : Has(s, item) => Has(t, item)
  BY <1>2 DEF Has
<1>10. \A item : Has(p, item) => Has(t, item) \/ Has(q, item)
  <2> SUFFICES ASSUME NEW item, NEW k \in 1..Len(p), p[k] = item
               PROVE  Has(t, item) \/ Has(q, item)
    BY DEF Has
  <2>1. CASE k = 1
    BY <1>2, <2>1 DEF Has
  <2>2. CASE k # 1
    <3>1. k - 1 \in 1..Len(q) /\ q[k - 1] = p[k]
      BY <1>1, <2>2
    <3> QED
      BY <3>1 DEF Has
  <2> QED
    BY <2>1, <2>2
<1> QED
  BY <1>1, <1>2, <1>5, <1>6, <1>7, <1>8, <1>9, <1>10

(* A page holds exactly the items it lists, in order.                      *)
LEMMA PageLists ==
  ASSUME NEW S \in SUBSET Items, NEW p \in PagesOf(S)
  PROVE  /\ p \in Seq(Items)
         /\ Ascending(p)
         /\ \A j \in 1..Len(p) : p[j] \in S
         /\ \A item \in S : Has(p, item)
<1>1. Cardinality(S) \in Nat
  <2>1. IsFiniteSet(Items)
    BY BoundsAssumption, FS_Interval DEF Items
  <2> QED
    BY <2>1, FS_Subset, FS_CardinalityType
<1>2. p \in [1..Cardinality(S) -> S]
  BY DEF PagesOf
<1>3. p \in Seq(S) /\ Len(p) = Cardinality(S)
  BY <1>1, <1>2, SeqDef, LenProperties
<1>4. p \in Seq(Items)
  BY <1>3, SeqMonotonic
<1> QED
  BY <1>2, <1>3, <1>4 DEF PagesOf, Has

-----------------------------------------------------------------------------
(* The invariant.                                                          *)

(* Nothing has been listed before the loops begin.                         *)
LEMMA InitInv == Init => Inv
<1> SUFFICES ASSUME Init
             PROVE  Inv
  OBVIOUS
<1>1. TypeInv
  BY BoundsAssumption, StartAssumption, EmptySeq
  DEF Init, TypeInv, Items, End
<1>2. ASSUME NEW l \in Loop
      PROVE  LoopInv(l)
  BY LenProperties, EmptySeq DEF Init, LoopInv, OrderInv, CursorInv, SteadyInv,
     Ascending, Below
<1> QED
  BY <1>1, <1>2 DEF Inv

(* A loop no step of which is taken, while the listing loses no item that  *)
(* is steady for it.                                                       *)
Same(l) ==
  /\ pc'[l] = pc[l] /\ cursor'[l] = cursor[l] /\ page'[l] = page[l]
  /\ next'[l] = next[l] /\ yielded'[l] = yielded[l]

(* A loop a step leaves as it is stays right when no steady item is lost.  *)
LEMMA SameKept ==
  ASSUME NEW l \in Loop, LoopInv(l), Same(l), steady'[l] \subseteq steady[l],
         steady'[l] \subseteq stored'
  PROVE  LoopInv(l)'
<1>1. OrderInv(l)'
  BY DEF LoopInv, OrderInv, Same
<1>2. CursorInv(l)'
  BY DEF LoopInv, CursorInv, Same
<1>3. SteadyInv(l)'
  BY DEF LoopInv, SteadyInv, Same
<1> QED
  BY <1>1, <1>2, <1>3 DEF LoopInv

(* A page goes on behind what was yielded, and misses nothing.             *)
LEMMA FetchKeeps ==
  ASSUME Inv, NEW l \in Loop, NEW u \in 0..MaxItem, Fetch(l, u)
  PROVE  TypeInv' /\ LoopInv(l)'
<1> USE DEF Inv
<1> DEFINE c == cursor[l]
           S == Listed(c, u)
<1>1. /\ pc[l] = "fetch" /\ c \in 0..MaxItem /\ c <= u
      /\ options' = c
      /\ UNCHANGED <<stored, newest, steady, cursor, yielded>>
      /\ pc' = [pc EXCEPT ![l] = "yield"]
  BY DEF Fetch, SetOptions, server, TypeInv
<1>2. PICK p \in PagesOf(S) : page' = [page EXCEPT ![l] = p]
  BY <1>1 DEF Fetch
<1>3. PICK n \in NextCursor(c, u) : next' = [next EXCEPT ![l] = n]
  BY <1>1 DEF Fetch
<1>4. S \in SUBSET Items /\ \A item \in S : c < item /\ item <= u
  BY DEF Listed, TypeInv
<1>5. /\ p \in Seq(Items)
      /\ Ascending(p)
      /\ \A j \in 1..Len(p) : p[j] \in S
      /\ \A item \in S : Has(p, item)
  BY <1>4, PageLists
<1>6. n \in 1..End /\ (n = End \/ n = c \/ (n = u /\ c < u))
  BY <1>1, <1>3, BoundsAssumption DEF NextCursor, End
<1>7. n = End => \A item \in stored : item <= u
  <2>1. u # End /\ c # End /\ \A item \in stored : item \in Int
    BY <1>1, BoundsAssumption DEF TypeInv, Items, End
  <2> QED
    BY <1>1, <1>3, <2>1 DEF NextCursor
<1> HIDE DEF c, S
<1>8. TypeInv'
  BY <1>1, <1>2, <1>3, <1>5, <1>6 DEF TypeInv, c, S
<1>9. /\ pc'[l] = "yield" /\ page'[l] = p /\ next'[l] = n
      /\ cursor'[l] = c /\ yielded'[l] = yielded[l] /\ steady'[l] = steady[l]
      /\ stored' = stored
  BY <1>1, <1>2, <1>3 DEF TypeInv, c
<1>10. /\ Ascending(yielded[l]) /\ Upto(yielded[l], c)
       /\ yielded[l] \in Seq(Items) /\ steady[l] \subseteq stored
       /\ stored \subseteq Items
       /\ \A item \in steady[l] :
            Start < item /\ item <= c => Has(yielded[l], item)
  BY <1>1 DEF LoopInv, OrderInv, CursorInv, SteadyInv, TypeInv, c
<1>11. /\ \A item \in Items : item \in Nat /\ item < End
       /\ \A j \in 1..Len(yielded[l]) : yielded[l][j] \in Items
       /\ \A j \in 1..Len(p) : p[j] \in Items
  BY <1>5, <1>10, ElementOfSeq, BoundsAssumption DEF Items, End
<1>12. OrderInv(l)'
  <2>1. ASSUME NEW j \in 1..Len(yielded[l]), NEW k \in 1..Len(p)
        PROVE  yielded[l][j] < p[k]
    <3>1. yielded[l][j] <= c /\ c < p[k]
      BY <1>4, <1>5, <1>10 DEF Upto
    <3>2. yielded[l][j] \in Nat /\ p[k] \in Nat /\ c \in Nat
      BY <1>1, <1>11
    <3> QED
      BY <3>1, <3>2
  <2>2. Below(yielded[l], p)
    BY <2>1 DEF Below
  <2> QED
    BY <2>2, <1>5, <1>9, <1>10 DEF OrderInv
<1>13. CursorInv(l)'
  <2>1. ASSUME n # c
        PROVE  c < n /\ Upto(yielded[l], n) /\ Upto(p, n)
    <3>1. c < n
      BY <1>1, <1>6, <2>1, BoundsAssumption DEF End
    <3>2. Upto(yielded[l], n)
      BY <1>1, <1>6, <1>10, <1>11, <3>1, BoundsAssumption DEF Upto, End
    <3>3. Upto(p, n)
      BY <1>4, <1>5, <1>6, <1>11, <2>1, BoundsAssumption DEF Upto, End
    <3> QED
      BY <3>1, <3>2, <3>3
  <2> QED
    BY <2>1, <1>9 DEF CursorInv
<1>14. SteadyInv(l)'
  <2>1. ASSUME n # c, NEW item \in steady[l], Start < item, item <= n
        PROVE  Has(yielded[l], item) \/ Has(p, item)
    <3>1. item \in stored /\ item \in Int
      BY <1>10, <1>11
    <3>2. CASE item <= c
      BY <1>10, <2>1, <3>2
    <3>3. CASE c < item
      <4>1. item <= u
        BY <1>6, <1>7, <2>1, <3>1
      <4>2. item \in S
        BY <3>1, <3>3, <4>1 DEF Listed, S
      <4> QED
        BY <1>5, <4>2
    <3> QED
      BY <1>1, <3>1, <3>2, <3>3
  <2> QED
    BY <2>1, <1>9, <1>10 DEF SteadyInv
<1> QED
  BY <1>8, <1>12, <1>13, <1>14 DEF LoopInv

(* An item goes from the page to the loop's body.                          *)
LEMMA YieldKeeps ==
  ASSUME Inv, NEW l \in Loop, Yield(l)
  PROVE  TypeInv' /\ LoopInv(l)'
<1> DEFINE s == yielded[l]
           p == page[l]
           t == Append(s, Head(p))
           q == Tail(p)
<1>1. /\ s \in Seq(Items) /\ p \in Seq(Items) /\ p # <<>>
      /\ Ascending(s) /\ Ascending(p)
      /\ Below(s, p)
  BY DEF Inv, TypeInv, LoopInv, OrderInv, Yield
<1> HIDE DEF s, p
<1>2. /\ t \in Seq(Items) /\ q \in Seq(Items)
      /\ Ascending(t) /\ Ascending(q)
      /\ Below(t, q)
      /\ \A m : Upto(s, m) /\ Upto(p, m) => Upto(t, m) /\ Upto(q, m)
      /\ \A item : Has(s, item) => Has(t, item)
      /\ \A item : Has(p, item) => Has(t, item) \/ Has(q, item)
  BY <1>1, MoveHead
<1> USE DEF s, p
<1>3. /\ yielded' = [yielded EXCEPT ![l] = t] /\ page' = [page EXCEPT ![l] = q]
      /\ UNCHANGED <<stored, newest, options, steady, cursor, next>>
      /\ pc[l] = "yield"
  BY DEF Yield, server
<1>4. PICK then \in {"yield", "stopped"} : pc' = [pc EXCEPT ![l] = then]
  BY DEF Yield
<1> HIDE DEF t, q
<1>5. TypeInv'
  BY <1>2, <1>3, <1>4 DEF Inv, TypeInv, Ended
<1>6. yielded'[l] = t /\ page'[l] = q /\ pc'[l] = then
  BY <1>3, <1>4 DEF Inv, TypeInv
<1>7. OrderInv(l)'
  BY <1>2, <1>6 DEF OrderInv
<1>8. CursorInv(l)'
  BY <1>2, <1>3, <1>6 DEF Inv, LoopInv, CursorInv
<1>9. SteadyInv(l)'
  BY <1>2, <1>3, <1>6 DEF Inv, LoopInv, SteadyInv
<1> QED
  BY <1>5, <1>7, <1>8, <1>9 DEF LoopInv

(* The page is done: the loop ends, or goes on at the next cursor.         *)
LEMMA AdvanceKeeps ==
  ASSUME Inv, NEW l \in Loop, Advance(l)
  PROVE  TypeInv' /\ LoopInv(l)'
<1>1. /\ pc[l] = "yield" /\ page[l] = <<>>
      /\ UNCHANGED <<stored, newest, options, steady, page, next, yielded>>
  BY DEF Advance, server
<1>2. \A item : ~Has(page[l], item)
  BY <1>1, LenProperties, EmptySeq DEF Has
<1>3. CASE next[l] = cursor[l] /\ next[l] # End
  <2>1. pc' = [pc EXCEPT ![l] = "stuck"] /\ UNCHANGED cursor
    BY <1>3 DEF Advance
  <2> QED
    BY <1>1, <2>1 DEF Inv, TypeInv, LoopInv, OrderInv, CursorInv, SteadyInv,
       Ended
<1>4. CASE next[l] = End
  <2>1. pc' = [pc EXCEPT ![l] = "complete"] /\ UNCHANGED cursor
    BY <1>4 DEF Advance
  <2>2. \A item \in steady[l] : Start < item => Has(yielded[l], item)
    <3>1. cursor[l] \in 0..MaxItem /\ steady[l] \subseteq Items
      BY DEF Inv, TypeInv
    <3>2. \A item \in steady[l] : item <= next[l] /\ next[l] # cursor[l]
      BY <1>4, <3>1, BoundsAssumption DEF End, Items
    <3> QED
      BY <1>1, <1>2, <3>2 DEF Inv, LoopInv, SteadyInv
  <2> QED
    BY <1>1, <2>1, <2>2 DEF Inv, TypeInv, LoopInv, OrderInv, CursorInv,
       SteadyInv, Ended
<1>5. CASE next[l] # cursor[l] /\ next[l] # End
  <2>1. /\ pc' = [pc EXCEPT ![l] = "fetch"]
        /\ cursor' = [cursor EXCEPT ![l] = next[l]]
    BY <1>5 DEF Advance
  <2>2. next[l] \in 0..MaxItem
    BY <1>5, BoundsAssumption DEF Inv, TypeInv, End
  <2> QED
    BY <1>1, <1>2, <1>5, <2>1, <2>2 DEF Inv, TypeInv, LoopInv, OrderInv,
       CursorInv, SteadyInv
<1> QED
  BY <1>3, <1>4, <1>5

(* Every step of the server and of the loops keeps the invariant.          *)
LEMMA InvStep == Inv /\ [Next]_vars => Inv'
<1> SUFFICES ASSUME Inv, [Next]_vars
             PROVE  Inv'
  OBVIOUS
<1>1. CASE UNCHANGED vars
  BY <1>1 DEF vars, server, loops, Inv, TypeInv, LoopInv, OrderInv, CursorInv,
     SteadyInv
<1>2. CASE Store
  <2>1. TypeInv'
    BY <1>2, BoundsAssumption DEF Store, Inv, TypeInv, loops, Items
  <2>2. \A l \in Loop : LoopInv(l)'
    BY <1>2, SameKept DEF Store, Inv, loops, Same, LoopInv, SteadyInv
  <2> QED
    BY <2>1, <2>2 DEF Inv
<1>3. ASSUME NEW item \in Items, Delete(item)
      PROVE  Inv'
  <2>1. TypeInv'
    BY <1>3 DEF Delete, Inv, TypeInv, loops
  <2>2. ASSUME NEW l \in Loop
        PROVE  LoopInv(l)'
    <3>1. steady'[l] = steady[l] \ {item} /\ steady[l] \subseteq stored
      BY <1>3 DEF Delete, Inv, LoopInv, SteadyInv
    <3> QED
      BY <1>3, <3>1, SameKept DEF Delete, Inv, loops, Same
  <2> QED
    BY <2>1, <2>2 DEF Inv
<1>4. ASSUME NEW l \in Loop, Begin(l) \/ Step(l)
      PROVE  Inv'
  <2>1. ASSUME NEW m \in Loop, m # l
        PROVE  LoopInv(m)'
    <3>1. Same(m) /\ steady'[m] = steady[m] /\ stored' = stored
      BY <1>4, <2>1 DEF Begin, Step, Fetch, FetchFails, Yield, Advance, Same,
         Inv, TypeInv, server
    <3> QED
      BY <3>1, SameKept DEF Inv, LoopInv, SteadyInv
  <2>2. CASE Begin(l)
    <3>1. TypeInv'
      BY <2>2, StartAssumption DEF Begin, Inv, TypeInv, server
    <3>2. /\ pc'[l] = "fetch" /\ cursor'[l] = Start /\ steady'[l] = stored
          /\ yielded' = yielded /\ page' = page /\ stored' = stored
          /\ yielded[l] = <<>> /\ page[l] = <<>>
      BY <2>2 DEF Begin, Inv, TypeInv, LoopInv, CursorInv, server
    <3>3. OrderInv(l)'
      BY <3>2 DEF Inv, LoopInv, OrderInv
    <3>4. CursorInv(l)'
      BY <3>2, LenProperties, EmptySeq DEF CursorInv, Upto
    <3>5. SteadyInv(l)'
      <4>1. \A item \in stored : ~(Start < item /\ item <= Start)
        BY StartAssumption, BoundsAssumption DEF Inv, TypeInv, Items
      <4> QED
        BY <3>2, <4>1 DEF SteadyInv
    <3> QED
      BY <2>1, <3>1, <3>3, <3>4, <3>5 DEF Inv, LoopInv
  <2>3. ASSUME NEW u \in 0..MaxItem, Fetch(l, u)
        PROVE  Inv'
    BY <2>1, <2>3, FetchKeeps DEF Inv
  <2>4. CASE FetchFails(l)
    BY <2>1, <2>4 DEF FetchFails, SetOptions, Inv, TypeInv, LoopInv, OrderInv,
       CursorInv, SteadyInv, server, Ended
  <2>5. CASE Yield(l)
    BY <2>1, <2>5, YieldKeeps DEF Inv
  <2>6. CASE Advance(l)
    BY <2>1, <2>6, AdvanceKeeps DEF Inv
  <2> QED
    BY <1>4, <2>2, <2>3, <2>4, <2>5, <2>6 DEF Step
<1> QED
  BY <1>1, <1>2, <1>3, <1>4 DEF Next

-----------------------------------------------------------------------------
(* Whatever is stored and deleted meanwhile, wherever the server ends its  *)
(* pages and whichever loops share the options, no loop over a value of    *)
(* All sees an item twice or out of order.                                 *)
THEOREM LoopsInOrder == Spec => []InOrder
<1>1. Inv => InOrder
  BY DEF Inv, LoopInv, OrderInv, InOrder
<1> QED
  BY <1>1, InitInv, InvStep, PTL DEF Spec

(* And one that ends without an error has missed nothing that was there    *)
(* from its beginning to its end.                                          *)
THEOREM LoopsComplete == Spec => []Complete
<1>1. Inv => Complete
  BY DEF Inv, LoopInv, SteadyInv, Complete, Has
<1> QED
  BY <1>1, InitInv, InvStep, PTL DEF Spec

-----------------------------------------------------------------------------
(* The safety half of Terminates: a running loop goes through a finite     *)
(* number of steps.                                                        *)

Running(l) == pc[l] \in {"fetch", "yield"}

LeftAlone(l) ==
  pc'[l] = pc[l] /\ cursor'[l] = cursor[l] /\ page'[l] = page[l]

(* A step further: the end, the next page, the answer to the request, or   *)
(* one item less on the page.                                              *)
Further(l) ==
  \/ pc'[l] \in Ended
  \/ pc'[l] = "fetch" /\ cursor'[l] > cursor[l]
  \/ pc[l] = "fetch" /\ pc'[l] = "yield" /\ cursor'[l] = cursor[l]
  \/ /\ pc[l] = "yield" /\ pc'[l] = "yield" /\ cursor'[l] = cursor[l]
     /\ Len(page'[l]) < Len(page[l])

(* Every step leaves a running loop alone or takes it further.             *)
LEMMA StepMovesOn ==
  ASSUME Inv, [Next]_vars, NEW l \in Loop, Running(l)
  PROVE  LeftAlone(l) \/ Further(l)
<1> USE DEF Running, LeftAlone, Further, Ended
<1>1. /\ pc \in [Loop -> {"idle", "fetch", "yield"} \cup Ended]
      /\ cursor \in [Loop -> 0..MaxItem] /\ page \in [Loop -> Seq(Items)]
      /\ next \in [Loop -> 1..End]
  BY DEF Inv, TypeInv
<1>2. CASE UNCHANGED vars \/ Store \/ \E item \in Items : Delete(item)
  BY <1>2 DEF vars, loops, Store, Delete
<1>3. ASSUME NEW k \in Loop, Begin(k)
      PROVE  LeftAlone(l)
  BY <1>1, <1>3 DEF Begin
<1>4. ASSUME NEW k \in Loop, NEW u \in 0..MaxItem, Fetch(k, u)
      PROVE  LeftAlone(l) \/ Further(l)
  <2>1. PICK p : page' = [page EXCEPT ![k] = p]
    BY <1>4 DEF Fetch
  <2> QED
    BY <1>1, <1>4, <2>1 DEF Fetch
<1>5. ASSUME NEW k \in Loop, FetchFails(k)
      PROVE  LeftAlone(l) \/ Further(l)
  BY <1>1, <1>5 DEF FetchFails
<1>6. ASSUME NEW k \in Loop, Yield(k)
      PROVE  LeftAlone(l) \/ Further(l)
  <2>1. page[k] \in Seq(Items) /\ page[k] # <<>>
    BY <1>1, <1>6 DEF Yield
  <2>2. Len(page[k]) \in Nat /\ Len(Tail(page[k])) = Len(page[k]) - 1
    BY <2>1, LenProperties, HeadTailProperties
  <2>3. /\ page' = [page EXCEPT ![k] = Tail(page[k])] /\ pc[k] = "yield"
        /\ UNCHANGED cursor
        /\ \E then \in {"yield", "stopped"} : pc' = [pc EXCEPT ![k] = then]
    BY <1>6 DEF Yield
  <2>4. Len(Tail(page[k])) < Len(page[k])
    BY <2>2
  <2> QED
    BY <1>1, <2>3, <2>4
<1>7. ASSUME NEW k \in Loop, Advance(k)
      PROVE  LeftAlone(l) \/ Further(l)
  <2>1. pc[k] = "yield" /\ next[k] # cursor[k] => cursor[k] < next[k]
    BY DEF Inv, LoopInv, CursorInv
  <2> QED
    BY <1>1, <1>7, <2>1 DEF Advance
<1> QED
  BY <1>2, <1>3, <1>4, <1>5, <1>6, <1>7 DEF Next, Step

(* Whatever else is going on, each step either leaves a running loop alone *)
(* or takes it further: through its page, or to a page that lies beyond    *)
(* the one before, and no loop goes back.                                  *)
THEOREM LoopsMoveOn ==
  Spec => [][\A l \in Loop : Running(l) => LeftAlone(l) \/ Further(l)]_vars
<1>1. Inv /\ [Next]_vars =>
        [\A l \in Loop : Running(l) => LeftAlone(l) \/ Further(l)]_vars
  BY StepMovesOn
<1> QED
  BY <1>1, InitInv, InvStep, PTL DEF Spec
=============================================================================
