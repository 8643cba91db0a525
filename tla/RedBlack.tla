------------------------------ MODULE RedBlack ------------------------------
(* The red-black tree of redblack.c that holds the scheduler's runnable    *)
(* and sleeping threads (sthread_user.c), as the pointer structure it is:  *)
(* node is the heap of NoRB records, with the two sentinels nil and raiz   *)
(* (whose left child is the real root) and the cached minimo pointer.      *)
(* Every statement of the insertion, the rotations, the removal and its    *)
(* repair (RepararEliminado) is a step of an operator on the heap, in the  *)
(* code's order, so a pointer or colour written early and read later is   *)
(* read as the code reads it.  A node stands for the thread it holds: the  *)
(* tree never moves an element between nodes (RBRemoverNo splices the     *)
(* successor node itself into the removed node's place).                   *)
EXTENDS Integers, FiniteSets, Sequences

CONSTANTS NodeIds,   \* the nodes malloc can hand out
          Keys,      \* the keys (vruntime or wake_time) threads are put in with
          NIL, RAIZ, \* the sentinels arvore->nil and arvore->raiz
          NULL       \* arvore->minimo before the first insertion

VARIABLES node, minimo, used

rbvars == <<node, minimo, used>>

black == 0
red == 1

Ptr == NodeIds \cup {NIL, RAIZ}

\* comparar(A, B): 1 when A is greater or is -1, the sentinels' key.
comparar(A, B) == IF A > B \/ A = -1 THEN 1 ELSE IF A = B THEN 0 ELSE -1

\* A sentinel or a freed node, as CriarNo(-1, NULL, -1, black, ...) leaves it.
Blank == [chave |-> -1, cor |-> black, pai |-> NIL, esq |-> NIL, dir |-> NIL]

\* RBNovaArvore: nil and raiz point at nil, no minimum yet.
RBNovaArvore ==
    /\ node = [p \in Ptr |-> Blank]
    /\ minimo = NULL
    /\ used = {}

\* Each operation below is one C function.  Its statements are written as
\* one sequential EXCEPT (later updates see earlier ones), with every read
\* taken from the tree as it stands when the code reads it; the tree after
\* a call is handed on to the next step as a parameter.

\* Mutant: RodarEsquerda without `if (y->esq != nil) y->esq->pai = x`.
RodarEsquerdaSemPai(n, x) ==
    LET y == n[x].dir
        p == n[x].pai
    IN [n EXCEPT ![x].dir = n[y].esq,
                 ![y].pai = p,
                 ![p].esq = IF x = n[p].esq THEN y ELSE @,
                 ![p].dir = IF x = n[p].esq THEN @ ELSE y,
                 ![y].esq = x,
                 ![x].pai = y]

\* RodarEsquerda(arvore, x), statement by statement: y = x->dir;
\* x->dir = y->esq; y->esq->pai = x unless it is nil; y->pai = x->pai; y
\* replaces x under x's parent; y->esq = x; x->pai = y.
RodarEsquerda(n, x) ==
    LET y == n[x].dir
        p == n[x].pai
    IN [n EXCEPT ![x].dir = n[y].esq,
                 ![n[y].esq].pai = IF n[y].esq # NIL THEN x ELSE @,
                 ![y].pai = p,
                 ![p].esq = IF x = n[p].esq THEN y ELSE @,
                 ![p].dir = IF x = n[p].esq THEN @ ELSE y,
                 ![y].esq = x,
                 ![x].pai = y]

\* RodarDireita(arvore, y): the mirror image.
RodarDireita(n, y) ==
    LET x == n[y].esq
        p == n[y].pai
    IN [n EXCEPT ![y].esq = n[x].dir,
                 ![n[x].dir].pai = IF n[x].dir # NIL THEN y ELSE @,
                 ![x].pai = p,
                 ![p].esq = IF y = n[p].esq THEN x ELSE @,
                 ![p].dir = IF y = n[p].esq THEN @ ELSE x,
                 ![x].dir = y,
                 ![y].pai = x]

\* The descent of InserirNoAux: greater keys to the left, the rest right;
\* the result is the node z hangs from.
RECURSIVE Descida(_, _, _, _)
Descida(n, x, y, k) ==
    IF x = NIL THEN y
    ELSE Descida(n, IF comparar(n[x].chave, k) = 1 THEN n[x].esq ELSE n[x].dir, x, k)

\* InserirNoAux(arvore, z), z already holding its key.
InserirNoAux(n, z) ==
    LET y == Descida(n, n[RAIZ].esq, RAIZ, n[z].chave)
    IN [n EXCEPT ![z].esq = NIL, ![z].dir = NIL, ![z].pai = y,
                 ![y].esq = IF y = RAIZ \/ comparar(n[y].chave, n[z].chave) = 1
                              THEN z ELSE @,
                 ![y].dir = IF y = RAIZ \/ comparar(n[y].chave, n[z].chave) = 1
                              THEN @ ELSE z]

\* The recolouring loop of RBInserirNo, while x's parent is red.
RECURSIVE ArranjoInsercao(_, _)

\* The end of a turn of that loop when the uncle is black, on the tree
\* after the first rotation (if any): x->pai turns black, x->pai->pai red,
\* and the grandparent is rotated right (ParaDireita) or left.
ArranjoRodar(n, x, ParaDireita) ==
    LET g == n[n[x].pai].pai
        n1 == [n EXCEPT ![n[x].pai].cor = black, ![g].cor = red]
    IN ArranjoInsercao(IF ParaDireita THEN RodarDireita(n1, g)
                                      ELSE RodarEsquerda(n1, g), x)

ArranjoInsercao(n, x) ==
    IF n[n[x].pai].cor # red THEN n
    ELSE LET p == n[x].pai
             g == n[p].pai
             esq == p = n[g].esq
             y == IF esq THEN n[g].dir ELSE n[g].esq
         IN IF n[y].cor = red
            THEN ArranjoInsercao([n EXCEPT ![p].cor = black, ![y].cor = black,
                                           ![g].cor = red], g)
            ELSE IF esq
            THEN IF x = n[p].dir THEN ArranjoRodar(RodarEsquerda(n, p), p, TRUE)
                                 ELSE ArranjoRodar(n, x, TRUE)
            ELSE IF x = n[p].esq THEN ArranjoRodar(RodarDireita(n, p), p, FALSE)
                                 ELSE ArranjoRodar(n, x, FALSE)

\* Mutant: minimo moves to the new node on an equal key as well.
InserirFimMinimoIgual(n, m, z, k) ==
    [n |-> [n EXCEPT ![n[RAIZ].esq].cor = black],
     m |-> IF m = NULL \/ comparar(n[m].chave, k) # -1 THEN z ELSE m]

\* The end of RBInserirNo: the root made black, and minimo moved to the
\* new node z when there is none or the old minimum is greater.
InserirFim(n, m, z, k) ==
    [n |-> [n EXCEPT ![n[RAIZ].esq].cor = black],
     m |-> IF m = NULL \/ comparar(n[m].chave, k) = 1 THEN z ELSE m]

\* RBInserirNo(arvore, k, tid, e) into the fresh node z: CriarNo, the
\* descent, the recolouring loop and the end; returns [n, m].
RBInserirNo(n, m, z, k) ==
    InserirFim(ArranjoInsercao(InserirNoAux([n EXCEPT ![z] = [Blank EXCEPT
                                   !.chave = k, !.cor = red]], z), z), m, z, k)

\* Sucessor(arvore, x): the leftmost node right of x, or the first
\* ancestor x lies left of (nil past the last).
RECURSIVE MaisEsquerda(_, _)
MaisEsquerda(n, y) == IF n[y].esq = NIL THEN y ELSE MaisEsquerda(n, n[y].esq)
RECURSIVE Subida(_, _, _)
Subida(n, x, y) == IF x = n[y].dir THEN Subida(n, y, n[y].pai) ELSE y
Sucessor(n, x) ==
    IF n[x].dir # NIL THEN MaisEsquerda(n, n[x].dir)
    ELSE LET y == Subida(n, x, n[x].pai) IN IF y = RAIZ THEN NIL ELSE y

\* RepararEliminado(arvore, x): r is the root read on entry.
RECURSIVE Reparar(_, _, _)

\* The last case of a turn of RepararEliminado, on the tree after the
\* sibling's own rotation (if any): w->cor = x->pai->cor; x->pai->cor =
\* black; the far nephew black; x->pai rotated towards x; x = raiz.
RepararRodar(n, x, r, Esq) ==
    LET p == n[x].pai
        w == IF Esq THEN n[p].dir ELSE n[p].esq
        far == IF Esq THEN n[w].dir ELSE n[w].esq
        n1 == [n EXCEPT ![w].cor = n[p].cor, ![p].cor = black, ![far].cor = black]
    IN Reparar(IF Esq THEN RodarEsquerda(n1, p) ELSE RodarDireita(n1, p), r, r)

\* A turn of RepararEliminado after the red-sibling case (if any) has run:
\* both nephews black moves x up; otherwise the near nephew is turned
\* black and rotated up when the far one is black, then RepararRodar.
RepararIrmao(n, x, r, Esq) ==
    LET w == IF Esq THEN n[n[x].pai].dir ELSE n[n[x].pai].esq
        near == IF Esq THEN n[w].esq ELSE n[w].dir
        far == IF Esq THEN n[w].dir ELSE n[w].esq
    IN IF n[far].cor = black /\ n[near].cor = black
       THEN Reparar([n EXCEPT ![w].cor = red], n[x].pai, r)
       ELSE IF n[far].cor = black
       THEN RepararRodar(IF Esq
                           THEN RodarDireita([n EXCEPT ![near].cor = black,
                                                       ![w].cor = red], w)
                           ELSE RodarEsquerda([n EXCEPT ![near].cor = black,
                                                        ![w].cor = red], w),
                         x, r, Esq)
       ELSE RepararRodar(n, x, r, Esq)

Reparar(n, x, r) ==
    IF n[x].cor # black \/ x = r THEN [n EXCEPT ![x].cor = black]
    ELSE LET p == n[x].pai
             Esq == x = n[p].esq
             w == IF Esq THEN n[p].dir ELSE n[p].esq
         IN IF n[w].cor = red
            THEN RepararIrmao(IF Esq
                                THEN RodarEsquerda([n EXCEPT ![w].cor = black,
                                                             ![p].cor = red], p)
                                ELSE RodarDireita([n EXCEPT ![w].cor = black,
                                                            ![p].cor = red], p),
                              x, r, Esq)
            ELSE RepararIrmao(n, x, r, Esq)

\* The end of RBRemoverNo: when y # z, y takes z's place (its children,
\* parent and colour, and z's neighbours point at y); minimo moves to z's
\* right child, or else its parent, when it was z; z is freed.
RemoverFim(n, m, z, y) ==
    LET t == IF y = z THEN n
             ELSE [n EXCEPT ![y].esq = n[z].esq, ![y].dir = n[z].dir,
                            ![y].pai = n[z].pai, ![y].cor = n[z].cor,
                            ![n[z].dir].pai = y, ![n[z].esq].pai = y,
                            ![n[z].pai].esq = IF z = n[n[z].pai].esq THEN y ELSE @,
                            ![n[z].pai].dir = IF z = n[n[z].pai].esq THEN @ ELSE y]
        m1 == IF m # z THEN m ELSE IF n[z].dir # NIL THEN n[z].dir ELSE n[z].pai
    IN [n |-> [t EXCEPT ![z] = Blank], m |-> m1]

\* RBRemoverNo after the choice of y (the node spliced out) and x (its
\* child): x->pai = y->pai and x replaces y under that parent (raiz->esq
\* when it is raiz); RepararEliminado from x, with the root of that moment,
\* when y was black; then RemoverFim.
RemoverSplice(n, m, z, y, x) ==
    LET p == n[y].pai
        n1 == [n EXCEPT ![x].pai = p,
                        ![p].esq = IF p = RAIZ \/ y = n[p].esq THEN x ELSE @,
                        ![p].dir = IF p = RAIZ \/ y = n[p].esq THEN @ ELSE x]
    IN RemoverFim(IF n1[y].cor = black THEN Reparar(n1, x, n1[RAIZ].esq) ELSE n1,
                  m, z, y)

\* RBRemoverNo(arvore, z): y is z, or z's successor when z has two
\* children, and x is y's only (or nil) child.  Returns [n, m].
RBRemoverNoDe(n, m, z, y) ==
    RemoverSplice(n, m, z, y, IF n[y].esq = NIL THEN n[y].dir ELSE n[y].esq)

RBRemoverNo(n, m, z) ==
    RBRemoverNoDe(n, m, z, IF n[z].esq = NIL \/ n[z].dir = NIL THEN z ELSE Sucessor(n, z))

\* RBArvoreVazia on the tree n.
RBArvoreVazia(n) == n[RAIZ].esq = NIL

\* RBMenorChave on the tree n with minimo m: the key m points at, 0
\* before the first insertion.  Once the last node has gone, minimo is
\* raiz and the key is raiz's -1.
RBMenorChave(n, m) == IF m = NULL THEN 0 ELSE n[m].chave

-----------------------------------------------------------------------------
(* The operations the scheduler performs on a tree.                        *)

\* RBInserirNo with a node malloc hands out.
Inserir(k) ==
    \E z \in NodeIds \ used :
        LET r == RBInserirNo(node, minimo, z, k)
        IN /\ node' = r.n
           /\ minimo' = r.m
           /\ used' = used \cup {z}

\* RBExtraiMininimo on a tree that is not empty (every caller in
\* sthread_user.c that can find the tree empty tests RBArvoreVazia first,
\* or fails before: see the hazards).
ExtraiMinimo ==
    /\ ~RBArvoreVazia(node)
    /\ minimo # NULL
    /\ LET r == RBRemoverNo(node, minimo, minimo)
       IN /\ node' = r.n
          /\ minimo' = r.m
          /\ used' = used \ {minimo}

\* RBRemoverNo of any node, as acordarProcessos takes a woken thread out
\* of the sleep tree.
Remover(z) ==
    /\ z \in used
    /\ LET r == RBRemoverNo(node, minimo, z)
       IN /\ node' = r.n
          /\ minimo' = r.m
          /\ used' = used \ {z}

RBNext == \/ \E k \in Keys : Inserir(k)
          \/ ExtraiMinimo
          \/ \E z \in NodeIds : Remover(z)

RBSpec == RBNovaArvore /\ [][RBNext]_rbvars

-----------------------------------------------------------------------------
(* Properties.                                                             *)

RBTypeOK ==
    /\ node \in [Ptr -> [chave : Keys \cup {-1}, cor : {black, red},
                         pai : Ptr, esq : Ptr, dir : Ptr]]
    /\ minimo \in Ptr \cup {NULL}
    /\ used \subseteq NodeIds

\* The in-order walk from the real root, cut off after as many steps as
\* there are nodes so that a cycle cannot make it diverge.
RECURSIVE EmOrdem(_, _, _)
EmOrdem(n, x, d) ==
    IF x = NIL \/ d = 0 THEN <<>>
    ELSE EmOrdem(n, n[x].esq, d - 1) \o <<[id |-> x, key |-> n[x].chave]>>
         \o EmOrdem(n, n[x].dir, d - 1)

Fila == EmOrdem(node, node[RAIZ].esq, Cardinality(NodeIds) + 1)

\* The black nodes from x down to nil on every path, or -1 when paths differ.
JuntaAltura(l, r, c) == IF l = -1 \/ l # r THEN -1 ELSE l + c
RECURSIVE AlturaNegra(_, _, _)
AlturaNegra(n, x, d) ==
    IF x = NIL THEN 0
    ELSE IF d = 0 THEN -1
    ELSE JuntaAltura(AlturaNegra(n, n[x].esq, d - 1), AlturaNegra(n, n[x].dir, d - 1),
                     IF n[x].cor = black THEN 1 ELSE 0)

\* The tree the insertions and removals leave is a red-black tree over
\* exactly the nodes in use: parent and child pointers agree, the root is
\* black, no red node has a red child and every path has as many black
\* nodes (RodarEsquerda/RodarDireita, ArranjoInsercao and
\* RepararEliminado together keep this through any sequence of calls).
IsRedBlackTree ==
    LET root == node[RAIZ].esq
        nodes == {e.id : e \in {Fila[i] : i \in DOMAIN Fila}}
    IN /\ Len(Fila) = Cardinality(used)
       /\ nodes = used
       /\ root # NIL => node[root].pai = RAIZ /\ node[root].cor = black
       /\ \A x \in used :
            /\ node[x].esq # NIL => node[node[x].esq].pai = x
            /\ node[x].dir # NIL => node[node[x].dir].pai = x
            /\ node[x].cor = red => node[node[x].esq].cor = black
                                   /\ node[node[x].dir].cor = black
       /\ AlturaNegra(node, root, Cardinality(NodeIds) + 1) # -1

\* The tree implements OrderedQueue with its in-order sequence as the
\* queue, step by step: RBInserirNo of a fresh node z with key k is
\* Insert(z, k), behind the equal keys; RBExtraiMininimo takes the node
\* the cached minimo names and that node is the first of the queue (so
\* RBInserirNo's one comparison and RBRemoverNo's updates keep minimo
\* right); RBRemoverNo(z) is Delete(z).
Abstract == INSTANCE OrderedQueue WITH Elems <- NodeIds, q <- Fila

OrderedStep ==
    /\ ExtraiMinimo => /\ Fila # <<>> /\ minimo = Fila[1].id
                       /\ Abstract!ExtractMin
    /\ \A z \in NodeIds : Remover(z) => Abstract!Delete(z)
    /\ \A z \in used' \ used : Abstract!Insert(z, node'[z].chave)

OrderedQueueRefinement == Abstract!Init /\ [][OrderedStep]_rbvars
=============================================================================
