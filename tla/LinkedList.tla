----------------------------- MODULE LinkedList -----------------------------
(***************************************************************************)
(* The doubly linked list of list.c, as the file system uses it for       *)
(* fs_diskUsage: newList, inserirOrdenado, listRemoveFst and listSize.     *)
(*                                                                         *)
(* A list is a record [nodes, size]: nodes is the sequence of nodes       *)
(* reached from list->first by next pointers, each [ordem, inf]; size is  *)
(* the counter list->size, which the code keeps by hand.  The prev        *)
(* pointers mirror next in every path the code takes, and are left out.   *)
(***************************************************************************)
EXTENDS Integers, Sequences

\* newList: no nodes, size 0.
NewList == [nodes |-> <<>>, size |-> 0]

\* listSize.
ListSize(l) == l.size

\* The node inserirOrdenado creates.
Node(inf, ordem) == [ordem |-> ordem, inf |-> inf]

\* The index of the first node whose ordem is not below ordem (the
\* `while (ptr != NULL && ptr->ordem < ordem)` scan), Len + 1 for NULL.
ScanTo(l, ordem) ==
    LET stop == {i \in 1..Len(l.nodes) : l.nodes[i].ordem >= ordem}
    IN IF stop = {} THEN Len(l.nodes) + 1
       ELSE CHOOSE i \in stop : \A j \in stop : i <= j

\* inserirOrdenado(list, inf, ordem).  An empty list gets the node alone.
\* Otherwise size is incremented first; the node goes to the head when
\* the first ordem is greater, to the tail when the last is smaller, and
\* else before the first node whose ordem is not smaller.  When that node
\* is the first (its ordem equal to the new one) its prev is NULL and the
\* function returns -1 without linking the node: size stays incremented.
InserirOrdenado(l, inf, ordem) ==
    LET n == Node(inf, ordem)
        k == ScanTo(l, ordem)
    IN IF l.size = 0 THEN [nodes |-> <<n>>, size |-> 1]
       ELSE IF l.nodes[1].ordem > ordem
         THEN [nodes |-> <<n>> \o l.nodes, size |-> l.size + 1]
       ELSE IF l.nodes[Len(l.nodes)].ordem < ordem
         THEN [nodes |-> Append(l.nodes, n), size |-> l.size + 1]
       ELSE IF k > Len(l.nodes) \/ k = 1 THEN [l EXCEPT !.size = @ + 1]
       ELSE [nodes |-> SubSeq(l.nodes, 1, k - 1) \o <<n>> \o SubSeq(l.nodes, k, Len(l.nodes)),
             size |-> l.size + 1]

\* listRemoveFst on a list of size >= 1: the first node's inf, and the
\* list without it.  The code reads list->first->inf when size is 1 and
\* list->first->next->prev when it is more, so it dereferences NULL (ok
\* FALSE) when there is no first node, or no second one for size > 1.
ListRemoveFst(l) ==
    IF l.nodes = <<>> \/ (l.size > 1 /\ Len(l.nodes) = 1)
      THEN [ok |-> FALSE, inf |-> "NULL", rest |-> l]
      ELSE [ok |-> TRUE, inf |-> l.nodes[1].inf,
            rest |-> [nodes |-> Tail(l.nodes), size |-> l.size - 1]]

=============================================================================
