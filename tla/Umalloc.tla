------------------------------ MODULE Umalloc ------------------------------
(***************************************************************************)
(* The heap of a user program (umalloc.c): a circular list of free blocks  *)
(* from which malloc takes the first that fits.  Addresses count headers;  *)
(* the list starts with the static header `base' below the heap.           *)
(***************************************************************************)
EXTENDS Integers, Sequences, FiniteSets

CONSTANTS NALLOC,      \* headers that morecore asks for at least
          HEAPEND,     \* where sbrk fails
          HeaderSize   \* bytes of a header

ASSUME UmallocAssumption == {NALLOC, HEAPEND, HeaderSize} \subseteq Nat \ {0}

base == 1
HeapStart == 3

(* size and ptr of the headers that are in the list; freep; the break; and *)
(* the headers that sbrk gave to morecore.                                 *)
FirstHeap == [size |-> [a \in {base} |-> 0], ptr |-> [a \in {base} |-> base], freep |-> base,
              brk |-> HeapStart, mine |-> {}]
Headers(h) == DOMAIN h.size
With(f, a, x) == [b \in DOMAIN f \cup {a} |-> IF b = a THEN x ELSE f[b]]
Without(f, a) == [b \in DOMAIN f \ {a} |-> f[b]]

RECURSIVE Place(_, _, _)
(* The loop of free: the header after which bp belongs.                    *)
Place(h, bp, p) ==
    IF \/ bp > p /\ bp < h.ptr[p]
       \/ p >= h.ptr[p] /\ (bp > p \/ bp < h.ptr[p])
    THEN p ELSE Place(h, bp, h.ptr[p])

(* Joins the block of header bp with the next one in the list if they      *)
(* touch.                                                                  *)
Joined_never(h, bp) == h
Joined(h, bp) ==
    LET q == h.ptr[bp]
    IN IF bp + h.size[bp] # q THEN h
       ELSE [h EXCEPT !.size = With(Without(@, q), bp, h.size[bp] + h.size[q]),
                      !.ptr = With(Without(@, q), bp, h.ptr[q])]

free(h, bp, n) ==
    LET p == Place(h, bp, h.freep)
        linked == [h EXCEPT !.size = With(@, bp, n), !.ptr = With(With(@, bp, h.ptr[p]), p, bp)]
    IN [Joined(Joined(linked, bp), p) EXCEPT !.freep = p]

Ask(n) == IF n < NALLOC THEN NALLOC ELSE n
SbrkFails(h, n) == h.brk + Ask(n) > HEAPEND
morecore(h, n) ==
    free([h EXCEPT !.brk = @ + Ask(n), !.mine = @ \cup h.brk..(h.brk + Ask(n) - 1)], h.brk, Ask(n))

nunits(nbytes) == (nbytes + HeaderSize - 1) \div HeaderSize + 1

(* The block is cut from the end of a larger one.                          *)
Fit(h, prevp, p, n) ==
    IF h.size[p] = n
    THEN [at |-> p, heap |-> [h EXCEPT !.size = Without(@, p), !.ptr = Without(With(@, prevp, h.ptr[p]), p),
                                       !.freep = prevp]]
    ELSE [at |-> p + h.size[p] - n, heap |-> [h EXCEPT !.size[p] = @ - n, !.freep = prevp]]

RECURSIVE Search(_, _, _, _)
Search(h, prevp, p, n) ==
    IF h.size[p] >= n THEN Fit(h, prevp, p, n)
    ELSE IF p # h.freep THEN Search(h, p, h.ptr[p], n)
    ELSE IF SbrkFails(h, n) THEN [at |-> 0, heap |-> h]
    ELSE LET m == morecore(h, n) IN Search(m, m.freep, m.ptr[m.freep], n)
malloc(h, nbytes) == Search(h, h.freep, h.ptr[h.freep], nunits(nbytes))
=============================================================================
