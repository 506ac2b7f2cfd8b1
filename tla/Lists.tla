------------------------------- MODULE Lists -------------------------------
(***************************************************************************)
(* Doubly linked lists, include/common/list.h.  Packets, connections,      *)
(* timers, routes, ips and servers are in such lists; the other modules    *)
(* have them as sequences and sets.  A list is a ring of nodes with its    *)
(* head; a node that is in no list may have pointers to anything.          *)
(*                                                                         *)
(* The functions know nothing of the list that a node is in.  `owner' is   *)
(* what their callers take it to be, the head of the list or None, and the *)
(* guards are what the callers must keep to.                               *)
(***************************************************************************)
CONSTANTS Node, Heads, None

VARIABLES next, prev, owner
lists == <<next, prev, owner>>

Free(n) == owner[n] = None
Listed(n) == owner[n] # None /\ n \notin Heads

\* Pointers as the functions leave them, one assignment after the other
Pointers == [next |-> next, prev |-> prev]
InitHead(p, n) == [next |-> [p.next EXCEPT ![n] = n], prev |-> [p.prev EXCEPT ![n] = n]]

\* __list_add
Insert(p, new, before, after) ==
  [next |-> [p.next EXCEPT ![new] = after, ![before] = new],
   prev |-> [p.prev EXCEPT ![after] = new, ![new] = before]]
AddHead(p, new, head) == Insert(p, new, head, p.next[head])
AddTail(p, new, head) == Insert(p, new, p.prev[head], head)

\* __list_del
Join(p, before, after) ==
  [next |-> [p.next EXCEPT ![before] = after], prev |-> [p.prev EXCEPT ![after] = before]]
Unlink(p, entry) == Join(p, p.prev[entry], p.next[entry])

\* __list_splice
Splice(p, list, before, after) ==
  [next |-> [p.next EXCEPT ![before] = p.next[list], ![p.prev[list]] = after],
   prev |-> [p.prev EXCEPT ![p.next[list]] = before, ![after] = p.prev[list]]]

Become(p) == next' = p.next /\ prev' = p.prev

-----------------------------------------------------------------------------
ListAdd(new, head) ==
  /\ Free(new) /\ head \in Heads
  /\ Become(AddHead(Pointers, new, head))
  /\ owner' = [owner EXCEPT ![new] = head]

ListAddTail(new, head) ==
  /\ Free(new) /\ head \in Heads
  /\ Become(AddTail(Pointers, new, head))
  /\ owner' = [owner EXCEPT ![new] = head]

ListDel(entry) ==
  /\ Listed(entry)
  /\ Become(Unlink(Pointers, entry))
  /\ owner' = [owner EXCEPT ![entry] = None]

ListDelInit(entry) ==
  /\ Listed(entry)
  /\ Become(InitHead(Unlink(Pointers, entry), entry))
  /\ owner' = [owner EXCEPT ![entry] = None]

ListMove(entry, head) ==
  /\ Listed(entry) /\ head \in Heads
  /\ Become(AddHead(Unlink(Pointers, entry), entry, head))
  /\ owner' = [owner EXCEPT ![entry] = head]

ListMoveTail(entry, head) ==
  /\ Listed(entry) /\ head \in Heads
  /\ Become(AddTail(Unlink(Pointers, entry), entry, head))
  /\ owner' = [owner EXCEPT ![entry] = head]

\* list_empty, list_rotate_left
ListEmpty(head) == next[head] = head
ListRotateLeft(head) ==
  /\ head \in Heads /\ ~ListEmpty(head)
  /\ ListMoveTail(next[head], head)

ListReplace(old, new) ==
  /\ Listed(old) /\ Free(new)
  /\ Become(Insert(Pointers, new, prev[old], next[old]))
  /\ owner' = [owner EXCEPT ![old] = None, ![new] = owner[old]]

ListSpliceTailInit(list, head) ==
  /\ list \in Heads /\ head \in Heads /\ list # head
  /\ IF ListEmpty(list) THEN UNCHANGED <<next, prev>>
     ELSE Become(InitHead(Splice(Pointers, list, prev[head], head), list))
  /\ owner' = [n \in Node |-> IF n \notin Heads /\ owner[n] = list THEN head ELSE owner[n]]

ListSpliceInit(list, head) ==
  /\ list \in Heads /\ head \in Heads /\ list # head
  /\ IF ListEmpty(list) THEN UNCHANGED <<next, prev>>
     ELSE Become(InitHead(Splice(Pointers, list, head, next[head]), list))
  /\ owner' = [n \in Node |-> IF n \notin Heads /\ owner[n] = list THEN head ELSE owner[n]]

\* Every head has been initialised
ListInit ==
  /\ next \in [Node -> Node] /\ prev \in [Node -> Node]
  /\ \A h \in Heads : next[h] = h /\ prev[h] = h
  /\ owner = [n \in Node |-> IF n \in Heads THEN n ELSE None]

ListNext ==
  \/ \E n \in Node, h \in Heads :
       ListAdd(n, h) \/ ListAddTail(n, h) \/ ListMove(n, h) \/ ListMoveTail(n, h)
  \/ \E n \in Node : ListDel(n) \/ ListDelInit(n)
  \/ \E old, new \in Node : ListReplace(old, new)
  \/ \E h \in Heads : ListRotateLeft(h)
  \/ \E l, h \in Heads : ListSpliceTailInit(l, h) \/ ListSpliceInit(l, h)

ListSpec == ListInit /\ [][ListNext]_lists

-----------------------------------------------------------------------------
\* Both pointers of a node that is in a list lead to nodes of the same list, which point
\* back: whatever way a list is walked, forward or backward, no node of another list is met,
\* nor one that has been deleted, and the walk comes back to where it began.
Linked ==
  \A n \in Node : owner[n] # None =>
    /\ owner[next[n]] = owner[n] /\ owner[prev[n]] = owner[n]
    /\ prev[next[n]] = n /\ next[prev[n]] = n

\* The nodes of a list are one ring: nodes that only lead to one another, all of one list,
\* have its head among them.  A walk from the head meets every node of the list.
OneRing ==
  \A h \in Heads : \A S \in SUBSET Node :
    (S # {} /\ \A n \in S : owner[n] = h /\ next[n] \in S) => h \in S
=============================================================================
