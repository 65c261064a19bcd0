-------------------------------- MODULE Lists --------------------------------
(***************************************************************************)
(* The linked lists of miau, pointer by pointer: list.c, whose first node  *)
(* knows the last one (quicklog, wildcard rules), and llist.c, with a      *)
(* record of head and tail (everything else).  malloc() gives any node     *)
(* that is free, and in it Junk that nobody may read.                      *)
(*                                                                         *)
(* list_insert_at() and list_move_first_to() are used by the unit tests    *)
(* only; what is compiled with USE_MOVE_TO is left out.                    *)
(***************************************************************************)
EXTENDS Naturals, FiniteSets, Sequences

CONSTANTS
    Node,    \* the memory of a node
    NULL,
    Junk     \* what memory holds that was freed, or not written yet

ASSUME ListsAssumption ==
    IsFiniteSet(Node) /\ NULL \notin Node /\ Junk \notin Node \cup {NULL}

VARIABLES
    alloc,        \* nodes that are not free
    next, prev,   \* links of the nodes, list_type and llist_node alike
    last,         \* the field last of list_type
    list,         \* the first node of a list of list.c
    head, tail    \* the record of a list of llist.c

listsVars == <<alloc, next, prev, last, list, head, tail>>

(* The nodes on the way from a first one along links, as list_find() goes; *)
(* one more than there are is enough to see a circle.                      *)
Chain(first, links) ==
    LET N == Cardinality(Node) + 1
        at[k \in 1 .. N] == IF k = 1 THEN first
                            ELSE IF at[k - 1] \in Node THEN links[at[k - 1]] ELSE NULL
        n == Cardinality({k \in 1 .. N : at[k] # NULL})
    IN [k \in 1 .. n |-> at[k]]

On(first) == {Chain(first, next)[k] : k \in DOMAIN Chain(first, next)}

(* An assignment through a pointer, left out where the code tests for NULL.*)
Set(f, n, v) == IF n = NULL THEN f ELSE [f EXCEPT ![n] = v]
------------------------------------------------------------------------------
ListsInit ==
    /\ alloc = {}
    /\ next = [n \in Node |-> Junk]
    /\ prev = [n \in Node |-> Junk]
    /\ last = [n \in Node |-> Junk]
    /\ list = NULL /\ head = NULL /\ tail = NULL

Malloc(n) == n \notin alloc /\ alloc' = alloc \cup {n}
Free(n) == alloc' = alloc \ {n}
Freed(f, n) == [f EXCEPT ![n] = Junk]

(* list_add_head().                                                        *)
ListAddHead(n) ==
    /\ Malloc(n)
    /\ next' = [next EXCEPT ![n] = list]
    /\ prev' = Set([prev EXCEPT ![n] = NULL], list, n)
    /\ last' = [last EXCEPT ![n] = IF list = NULL THEN n ELSE last[list]]
    /\ list' = n
    /\ UNCHANGED <<head, tail>>

(* list_add_tail().                                                        *)
ListAddTail(n) ==
    /\ Malloc(n)
    /\ IF list = NULL
       THEN /\ next' = [next EXCEPT ![n] = NULL]
            /\ prev' = [prev EXCEPT ![n] = NULL]
            /\ last' = [last EXCEPT ![n] = n]
            /\ list' = n
       ELSE /\ next' = [next EXCEPT ![n] = NULL, ![last[list]] = n]
            /\ prev' = [prev EXCEPT ![n] = last[list]]
            /\ last' = [last EXCEPT ![list] = n]
            /\ UNCHANGED list
    /\ UNCHANGED <<head, tail>>

(* list_insert_at() before a node that is not the first one; otherwise it  *)
(* is one of the two above.                                                *)
ListInsertAt(dest, n) ==
    /\ dest # list
    /\ Malloc(n)
    /\ next' = [next EXCEPT ![n] = dest, ![prev[dest]] = n]
    /\ prev' = [prev EXCEPT ![n] = prev[dest], ![dest] = n]
    /\ UNCHANGED <<last, list, head, tail>>

\* Fault: the first node goes on to take the last one for the last.
ListDeleteKeepsLast(n) ==
    /\ Free(n)
    /\ next' = Freed(Set(next, prev[n], next[n]), n)
    /\ prev' = Freed(Set(prev, next[n], prev[n]), n)
    /\ last' = Freed(IF n = list THEN Set(last, next[n], last[n]) ELSE last, n)
    /\ list' = IF n = list THEN next[n] ELSE list
    /\ UNCHANGED <<head, tail>>

(* list_delete().                                                          *)
ListDelete(n) ==
    /\ Free(n)
    /\ next' = Freed(Set(next, prev[n], next[n]), n)
    /\ prev' = Freed(Set(prev, next[n], prev[n]), n)
    /\ LET handed == IF n = list THEN Set(last, next[n], last[n]) ELSE last IN
       last' = Freed(IF n = last[list] THEN [handed EXCEPT ![list] = prev[n]] ELSE handed, n)
    /\ list' = IF n = list THEN next[n] ELSE list
    /\ UNCHANGED <<head, tail>>

(* list_move_first_to(): to before dest, or to the end if dest is NULL.    *)
ListMoveFirstTo(dest) ==
    LET second == next[list] IN
    /\ list # NULL
    /\ dest # list /\ dest # second
    /\ IF dest # NULL
       THEN /\ next' = [next EXCEPT ![list] = dest, ![prev[dest]] = list]
            /\ prev' = [prev EXCEPT ![second] = NULL, ![list] = prev[dest], ![dest] = list]
            /\ last' = [last EXCEPT ![second] = last[list]]
       ELSE /\ next' = [next EXCEPT ![last[list]] = list, ![list] = NULL]
            /\ prev' = [prev EXCEPT ![second] = NULL, ![list] = last[list]]
            /\ last' = [last EXCEPT ![second] = list]
    /\ list' = second
    /\ UNCHANGED <<alloc, head, tail>>

(* llist_add() of a node of llist_create().                                *)
LlistAdd(n) ==
    /\ Malloc(n)
    /\ next' = [next EXCEPT ![n] = head]
    /\ prev' = Set([prev EXCEPT ![n] = NULL], head, n)
    /\ tail' = IF head = NULL /\ tail = NULL THEN n ELSE tail
    /\ head' = n
    /\ UNCHANGED <<last, list>>

(* llist_add_tail().                                                       *)
LlistAddTail(n) ==
    /\ Malloc(n)
    /\ next' = IF head = NULL THEN [next EXCEPT ![n] = NULL]
               ELSE Set([next EXCEPT ![n] = NULL], tail, n)
    /\ prev' = [prev EXCEPT ![n] = tail]
    /\ head' = IF head = NULL THEN n ELSE head
    /\ tail' = n
    /\ UNCHANGED <<last, list>>

(* llist_delete().                                                         *)
LlistDelete(n) ==
    /\ Free(n)
    /\ head' = IF prev[n] = NULL THEN next[n] ELSE head
    /\ next' = Freed(Set(next, prev[n], next[n]), n)
    /\ tail' = IF next[n] = NULL THEN prev[n] ELSE tail
    /\ prev' = Freed(Set(prev, next[n], prev[n]), n)
    /\ UNCHANGED <<last, list>>

ListsNext ==
    \/ \E n \in Node : ListAddHead(n) \/ ListAddTail(n)
    \/ \E n \in Node, dest \in On(list) : ListInsertAt(dest, n)
    \/ \E n \in On(list) : ListDelete(n)
    \/ \E dest \in On(list) \cup {NULL} : ListMoveFirstTo(dest)
    \/ \E n \in Node : LlistAdd(n) \/ LlistAddTail(n)
    \/ \E n \in On(head) : LlistDelete(n)

ListsSpec == ListsInit /\ [][ListsNext]_listsVars
------------------------------------------------------------------------------
List == INSTANCE NodeList WITH seq <- Chain(list, next)
Llist == INSTANCE NodeList WITH seq <- Chain(head, next)

(* Whatever is done to a list in which order, following next from its      *)
(* first node gives a sequence, and a call puts one node into it, takes    *)
(* one out or moves its first: no node is lost, none is met twice or after *)
(* it was freed, and nothing that is done to one list shows in the other.  *)
(* Which call puts a node where is left to the definitions.                *)
ImplementsSequences == List!Spec /\ Llist!Spec
==============================================================================
