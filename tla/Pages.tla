-------------------------------- MODULE Pages --------------------------------
(***************************************************************************)
(* The iterators behind every All method.  All captures its options; each  *)
(* range loop over its value runs cursorSequence anew: it fetches a page,  *)
(* yields its items one by one and follows the page's cursor.  Loops may   *)
(* nest, so that their steps interleave, and they share the captured       *)
(* options.  The listing changes on the server between pages and while     *)
(* items are yielded.  The server lists oldest first and a cursor is the   *)
(* last position it has looked at: a page may hold fewer items than asked  *)
(* for, or none at all, and still have a cursor (a prefix filters, say).   *)
(***************************************************************************)
EXTENDS Naturals, Sequences, FiniteSets

CONSTANTS
  Loop,       \* range loops over one value of All
  MaxItem,    \* bound on the items ever stored, numbered by age from 1
  Limit,      \* items the server puts on a page at most
  Start       \* the initial cursor: 0 is "", the beginning of the list

ASSUME BoundsAssumption == MaxItem \in Nat \ {0} /\ Limit \in Nat \ {0}
ASSUME StartAssumption == Start \in 0..MaxItem

VARIABLES
  stored,    \* server: the items it holds
  newest,    \* server: the latest item stored
  options,   \* opts.Cursor, captured by All and written by each fetch
  steady,    \* per loop: the items stored since it began
  pc,        \* "idle", "fetch", "yield", or how the loop ended
  cursor,
  page,      \* items of the page not yet yielded
  next,      \* the cursor that came with the page, End when it is ""
  yielded    \* what the loop's body has seen

server == <<stored, newest>>
loops  == <<pc, cursor, page, next, yielded>>
vars   == <<server, options, steady, loops>>

Items == 1..MaxItem

End == MaxItem + 1

Ended == {"complete", "stuck", "failed", "stopped"}

Init ==
  /\ stored \in SUBSET Items
  /\ newest = MaxItem - 1
  /\ \A item \in stored : item <= newest
  /\ options = Start
  /\ steady = [l \in Loop |-> {}]
  /\ pc = [l \in Loop |-> "idle"]
  /\ cursor = [l \in Loop |-> Start]
  /\ page = [l \in Loop |-> <<>>]
  /\ next = [l \in Loop |-> End]
  /\ yielded = [l \in Loop |-> <<>>]

-----------------------------------------------------------------------------
(* The server. *)

Store ==
  /\ newest < MaxItem
  /\ newest' = newest + 1
  /\ stored' = stored \cup {newest + 1}
  /\ UNCHANGED <<options, steady, loops>>

Delete(item) ==
  /\ item \in stored
  /\ stored' = stored \ {item}
  /\ steady' = [l \in Loop |-> steady[l] \ {item}]
  /\ UNCHANGED <<newest, options, loops>>

(* A page of what lies after the cursor c, up to and with position u. *)
Listed(c, u) == {item \in stored : c < item /\ item <= u}

Ascending(s) == \A j, k \in 1..Len(s) : j < k => s[j] < s[k]

(* The items of S as the server lists them: each once, oldest first.       *)
PagesOf(S) ==
  {p \in [1..Cardinality(S) -> S] :
     Ascending(p) /\ \A item \in S : \E j \in 1..Len(p) : p[j] = item}

(* Its cursor: "" when nothing is left, else the position, or, from a      *)
(* server at fault, the cursor of the request again.                       *)
NextCursor(c, u) ==
  IF \E item \in stored : item > u THEN {u, c} \ {0} ELSE {End}

-----------------------------------------------------------------------------
(* The iterator. *)

(* A range loop starts, from the cursor All was called with. *)
Begin_Resumes(l) ==
  /\ pc[l] = "idle"
  /\ pc' = [pc EXCEPT ![l] = "fetch"]
  /\ cursor' = [cursor EXCEPT ![l] = options]
  /\ steady' = [steady EXCEPT ![l] = stored]
  /\ UNCHANGED <<server, options, page, next, yielded>>

Begin(l) ==
  /\ pc[l] = "idle"
  /\ pc' = [pc EXCEPT ![l] = "fetch"]
  /\ cursor' = [cursor EXCEPT ![l] = Start]
  /\ steady' = [steady EXCEPT ![l] = stored]
  /\ UNCHANGED <<server, options, page, next, yielded>>

(* The method's closure: it sets the cursor of the captured options and    *)
(* lists with them.                                                        *)
SetOptions_Kept(c) == options' = IF options = Start THEN c ELSE options

SetOptions(c) == options' = c

Fetch(l, u) ==
  /\ pc[l] = "fetch"
  /\ SetOptions(cursor[l])
  /\ u >= options'
  /\ Cardinality(Listed(options', u)) <= Limit
  /\ \E p \in PagesOf(Listed(options', u)) : page' = [page EXCEPT ![l] = p]
  /\ \E n \in NextCursor(options', u) : next' = [next EXCEPT ![l] = n]
  /\ pc' = [pc EXCEPT ![l] = "yield"]
  /\ UNCHANGED <<server, steady, cursor, yielded>>

FetchFails(l) ==
  /\ pc[l] = "fetch"
  /\ SetOptions(cursor[l])
  /\ pc' = [pc EXCEPT ![l] = "failed"]
  /\ UNCHANGED <<server, steady, cursor, page, next, yielded>>

(* The caller may leave its range loop at each item. *)
Yield(l) ==
  /\ pc[l] = "yield"
  /\ page[l] # <<>>
  /\ yielded' = [yielded EXCEPT ![l] = Append(@, Head(page[l]))]
  /\ page' = [page EXCEPT ![l] = Tail(@)]
  /\ \E then \in {"yield", "stopped"} : pc' = [pc EXCEPT ![l] = then]
  /\ UNCHANGED <<server, options, steady, cursor, next>>

Advance_Unchecked(l) ==
  /\ pc[l] = "yield"
  /\ page[l] = <<>>
  /\ IF next[l] = End
       THEN pc' = [pc EXCEPT ![l] = "complete"] /\ UNCHANGED cursor
       ELSE /\ pc' = [pc EXCEPT ![l] = "fetch"]
            /\ cursor' = [cursor EXCEPT ![l] = next[l]]
  /\ UNCHANGED <<server, options, steady, page, next, yielded>>

(* The page is yielded: an empty cursor ends the iteration, one that has   *)
(* not moved is an error, any other leads to the next page.                *)
Advance(l) ==
  /\ pc[l] = "yield"
  /\ page[l] = <<>>
  /\ IF next[l] = End
       THEN pc' = [pc EXCEPT ![l] = "complete"] /\ UNCHANGED cursor
     ELSE IF next[l] = cursor[l]
       THEN pc' = [pc EXCEPT ![l] = "stuck"] /\ UNCHANGED cursor
     ELSE /\ pc' = [pc EXCEPT ![l] = "fetch"]
          /\ cursor' = [cursor EXCEPT ![l] = next[l]]
  /\ UNCHANGED <<server, options, steady, page, next, yielded>>

Step(l) ==
  \/ \E u \in 0..MaxItem : Fetch(l, u)
  \/ FetchFails(l) \/ Yield(l) \/ Advance(l)

Next ==
  \/ Store \/ (\E item \in Items : Delete(item))
  \/ \E l \in Loop : Begin(l) \/ Step(l)

Spec == Init /\ [][Next]_vars

(* Every request returns, and a loop that has begun runs on. *)
FairSpec == Spec /\ \A l \in Loop : WF_vars(Step(l))

-----------------------------------------------------------------------------
(* Properties.                                                             *)

(* A loop sees items in order and none twice, though the listing changes   *)
(* between its pages and another loop uses the same options.               *)
InOrder == \A l \in Loop : Ascending(yielded[l])

(* A loop that ends without an error has yielded every item that was there *)
(* all the time it ran, whatever loops over the same value came before it. *)
Complete ==
  \A l \in Loop : pc[l] = "complete" =>
    \A item \in steady[l] :
      item > Start => \E j \in 1..Len(yielded[l]) : yielded[l][j] = item

(* A server whose cursor does not move cannot keep a loop running. *)
Terminates == \A l \in Loop : pc[l] = "fetch" ~> pc[l] \in Ended
=============================================================================
