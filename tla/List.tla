-------------------------------- MODULE List --------------------------------
(***************************************************************************)
(* utils/list.c: the intrusive doubly linked list.  A list is a pair of    *)
(* pointers [first, last]; the links live inside the items, so that they   *)
(* do not belong to any particular list.  nn_list_erase is given a list    *)
(* AND an item and does not check that one belongs to the other: which     *)
(* head is updated depends on the list argument alone.  The model keeps    *)
(* that, because sock.c erases an item through a list that does not hold   *)
(* it.                                                                     *)
(*                                                                         *)
(* Items are positive integers; NULL and NN_LIST_NOTINLIST are the two     *)
(* values of a link that are no item.                                      *)
(***************************************************************************)
EXTENDS Integers

NULL      == 0
NOTINLIST == -1

Links(Item)    == [prev : Item \cup {NULL, NOTINLIST}, next : Item \cup {NULL, NOTINLIST}]
ListHead(Item) == [first : Item \cup {NULL, NOTINLIST}, last : Item \cup {NULL, NOTINLIST}]

EmptyList == [first |-> NULL, last |-> NULL]
Unlinked  == [prev |-> NOTINLIST, next |-> NOTINLIST]

ListEmpty(l) == l.first = NULL

IsInList(link, i) == link[i].prev # NOTINLIST

(* nn_list_term's two assertions. *)
ListTermOK(l) == l.first = NULL /\ l.last = NULL

(* Redirect one link of an item that may be NULL (the code's `if (item->prev)'). *)
SetNext(link, i, v) ==
    IF i \in DOMAIN link THEN [link EXCEPT ![i] = [@ EXCEPT !.next = v]] ELSE link
SetPrev(link, i, v) ==
    IF i \in DOMAIN link THEN [link EXCEPT ![i] = [@ EXCEPT !.prev = v]] ELSE link

(* nn_list_insert(l, i, nn_list_end(l)): the head and the links afterwards. *)
AppendHead(l, i) ==
    [first |-> IF l.first = NULL THEN i ELSE l.first, last |-> i]
AppendLinks(l, link, i) ==
    SetNext([link EXCEPT ![i] = [prev |-> l.last, next |-> NULL]], l.last, i)

(* nn_list_erase(l, i): the head of the list that was passed, and the links. *)
EraseHead(l, link, i) ==
    [first |-> IF link[i].prev = NULL THEN link[i].next ELSE l.first,
     last  |-> IF link[i].next = NULL THEN link[i].prev ELSE l.last]
EraseLinks(link, i) ==
    [SetPrev(SetNext(link, link[i].prev, link[i].next), link[i].next, link[i].prev)
        EXCEPT ![i] = Unlinked]

(* The items a traversal from nn_list_begin by nn_list_next comes across.   *)
Reachable(l, link) ==
    {i \in DOMAIN link :
        \A S \in SUBSET DOMAIN link :
            (/\ l.first \in DOMAIN link => l.first \in S
             /\ \A j \in S : link[j].next \in DOMAIN link => link[j].next \in S)
            => i \in S}
=============================================================================
