---------------------------- MODULE OrderedQueue ----------------------------
(* What the red-black tree of redblack.h promises the scheduler: a queue  *)
(* of elements ordered by key, where an element joins behind every       *)
(* element whose key is not greater than its own (so equal keys leave in *)
(* the order they came), RBExtraiMininimo takes the first one and         *)
(* RBRemoverNo takes out any one.  Keys are compared with comparar, the   *)
(* tree's own comparison.                                                 *)
EXTENDS Integers, Sequences, SequencesExt

CONSTANTS Elems, Keys

VARIABLE q

\* comparar(A, B) of redblack.c: 1 when A is greater, or A is the -1 of
\* the sentinels; 0 when equal; -1 otherwise.
comparar(A, B) == IF A > B \/ A = -1 THEN 1 ELSE IF A = B THEN 0 ELSE -1

QTypeOK == q \in Seq([id : Elems, key : Keys])

Init == q = <<>>

\* RBInserirNo(arvore, k, tid, e): e goes before the first element whose
\* key is greater than k.
Insert(e, k) ==
    /\ e \notin {x.id : x \in ToSet(q)}
    /\ LET i == SelectInSeq(q, LAMBDA x : comparar(x.key, k) = 1)
           r == [id |-> e, key |-> k]
       IN q' = IF i = 0 THEN Append(q, r) ELSE InsertAt(q, i, r)

\* RBExtraiMininimo: the first element leaves.
ExtractMin == q # <<>> /\ q' = Tail(q)

\* RBRemoverNo(arvore, z): the element of node z leaves.
Delete(e) == \E x \in ToSet(q) : x.id = e /\ q' = Remove(q, x)

Next == \/ \E e \in Elems, k \in Keys : Insert(e, k)
        \/ ExtractMin
        \/ \E e \in Elems : Delete(e)

Spec == Init /\ [][Next]_q
=============================================================================
