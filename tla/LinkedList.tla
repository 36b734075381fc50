----------------------------- MODULE LinkedList ------------------------------
(* The singly linked list of module2 ex06: a caller's head pointer and nodes *)
(* on the heap. The walks are one node per step; malloc may fail.            *)
EXTENDS Naturals, Sequences, FiniteSets

CONSTANTS
    ListNode,   \* the addresses malloc may return
    ListData,   \* what a uint8_t node holds
    NULL

ASSUME LinkedListAssumption == IsFiniteSet(ListNode) /\ NULL \notin ListNode

VARIABLES list_heap,    \* the nodes not freed: address -> [data, next]
          list_head,    \* main's head
          list_call,    \* the call that runs, or "none"
          curr,         \* its cursor
          fresh,        \* the node of list_push_back
          walked,       \* the bytes list_print has shown and list_length counted
          wanted        \* history: the bytes whose push got a node

listVars == <<list_heap, list_head, list_call, curr, fresh, walked, wanted>>

Live == DOMAIN list_heap
\* Mutant: next is left as malloc found it.
FieldsUnset(d, p) == [data |-> d, next |-> IF p = NULL THEN "indeterminate" ELSE p]
ListFields(d, p) == [data |-> d, next |-> p]
\* The heap with node p holding r, or without it.
With(h, p, r)    == [q \in DOMAIN h \cup {p} |-> IF q = p THEN r ELSE h[q]]
Without(h, p)    == [q \in DOMAIN h \ {p} |-> h[q]]

ListInit == /\ list_heap = <<>> /\ list_head = NULL
            /\ list_call = "none" /\ curr = NULL /\ fresh = NULL
            /\ walked = <<>> /\ wanted = <<>>

ListIdle == list_call = "none"

\* node_create: any free address.
node_create(p, d, next) == /\ p \in ListNode \ Live
                           /\ list_heap' = With(list_heap, p, ListFields(d, next))

list_push_front(d) == /\ ListIdle
                      /\ \E p \in ListNode : node_create(p, d, list_head) /\ list_head' = p
                      /\ wanted' = <<d>> \o wanted
                      /\ UNCHANGED <<list_call, curr, fresh, walked>>

list_push_back(d) == /\ ListIdle
                     /\ \E p \in ListNode :
                          /\ node_create(p, d, NULL)
                          /\ IF list_head = NULL
                             THEN list_head' = p /\ UNCHANGED <<list_call, curr, fresh>>
                             ELSE /\ list_call' = "push_back"
                                  /\ curr' = list_head /\ fresh' = p
                                  /\ UNCHANGED list_head
                     /\ wanted' = Append(wanted, d)
                     /\ UNCHANGED walked

\* malloc returned NULL: both pushes return without a word to the caller.
PushFails == ListIdle /\ UNCHANGED listVars

\* Mutant: the node is linked behind the first one, not the last.
PushBackLinksFirst ==
    /\ list_call = "push_back"
    /\ list_heap' = With(list_heap, curr, ListFields(list_heap[curr].data, fresh))
    /\ list_call' = "none" /\ curr' = NULL /\ fresh' = NULL
    /\ UNCHANGED <<list_head, walked, wanted>>

PushBackWalk ==
    /\ list_call = "push_back"
    /\ IF list_heap[curr].next # NULL
       THEN curr' = list_heap[curr].next /\ UNCHANGED <<list_heap, list_call, fresh>>
       ELSE /\ list_heap' = With(list_heap, curr, ListFields(list_heap[curr].data, fresh))
            /\ list_call' = "none" /\ curr' = NULL /\ fresh' = NULL
    /\ UNCHANGED <<list_head, walked, wanted>>

\* list_print and list_length walk alike, each to its own end.
ListWalkStart == /\ ListIdle
                 /\ list_call' = "walk" /\ curr' = list_head /\ walked' = <<>>
                 /\ UNCHANGED <<list_heap, list_head, fresh, wanted>>

\* Mutant: the walk stops at the last node instead of behind it.
WalkShort == /\ list_call = "walk"
             /\ IF curr # NULL /\ list_heap[curr].next # NULL
                THEN /\ walked' = Append(walked, list_heap[curr].data)
                     /\ curr' = list_heap[curr].next
                     /\ UNCHANGED list_call
                ELSE list_call' = "walked" /\ UNCHANGED <<walked, curr>>
             /\ UNCHANGED <<list_heap, list_head, fresh, wanted>>
\* Mutant: curr is not moved.
WalkStuck == list_call = "walk" /\ curr = NULL /\ list_call' = "walked"
             /\ UNCHANGED <<list_heap, list_head, fresh, wanted, walked, curr>>
ListWalk == /\ list_call = "walk"
            /\ IF curr # NULL
               THEN /\ walked' = Append(walked, list_heap[curr].data)
                    /\ curr' = list_heap[curr].next
                    /\ UNCHANGED list_call
               ELSE list_call' = "walked" /\ UNCHANGED <<walked, curr>>
            /\ UNCHANGED <<list_heap, list_head, fresh, wanted>>
ListWalkReturn == /\ list_call = "walked"
                  /\ list_call' = "none" /\ walked' = <<>> /\ curr' = NULL
                  /\ UNCHANGED <<list_heap, list_head, fresh, wanted>>

list_free == /\ ListIdle
             /\ list_call' = "free" /\ curr' = list_head
             /\ UNCHANGED <<list_heap, list_head, fresh, walked, wanted>>

\* Mutant: curr is freed before its next is saved, and stays where it was.
FreeUnsaved == /\ list_call = "free" /\ curr # NULL
               /\ list_heap' = Without(list_heap, curr)
               /\ UNCHANGED <<list_head, list_call, curr, fresh, walked, wanted>>
FreeNode == /\ list_call = "free" /\ curr # NULL
            /\ curr' = list_heap[curr].next
            /\ list_heap' = Without(list_heap, curr)
            /\ UNCHANGED <<list_head, list_call, fresh, walked, wanted>>

\* Mutant: *head is left as it was.
FreeKeepsHead == /\ list_call = "free" /\ curr = NULL
                 /\ list_call' = "none" /\ wanted' = <<>>
                 /\ UNCHANGED <<list_heap, list_head, curr, fresh, walked>>
FreeEnd == /\ list_call = "free" /\ curr = NULL
           /\ list_head' = NULL
           /\ list_call' = "none" /\ wanted' = <<>>
           /\ UNCHANGED <<list_heap, curr, fresh, walked>>

ListRun == PushBackWalk \/ ListWalk \/ ListWalkReturn \/ FreeNode \/ FreeEnd
ListNext == \/ \E d \in ListData : list_push_front(d) \/ list_push_back(d)
            \/ PushFails \/ ListWalkStart \/ list_free
            \/ ListRun

ListFairness == WF_listVars(ListRun)
ListSpec == ListInit /\ [][ListNext]_listVars /\ ListFairness

------------------------------------------------------------------------------
\* Type invariant.
ListTypeOK == /\ Live \subseteq ListNode
              /\ \A p \in Live : list_heap[p] \in [data : ListData, next : ListNode \cup {NULL}]
              /\ {list_head, curr, fresh} \subseteq ListNode \cup {NULL}

\* The nodes from head, as far as the heap goes; NULL from there on.
Chain[k \in 0 .. Cardinality(ListNode)] ==
    IF k = 0 THEN list_head
    ELSE IF Chain[k - 1] \in Live THEN list_heap[Chain[k - 1]].next ELSE NULL
ChainNodes == {Chain[k] : k \in DOMAIN Chain} \ {NULL}

\* Between calls the chain from head holds the pushed bytes in order and every
\* allocated node, each once: none is lost, none is linked twice, none is freed
\* and still linked, however pushes at both ends and frees follow each other.
ListHoldsPushed ==
    ListIdle => /\ ChainNodes = Live
                /\ Cardinality(Live) = Len(wanted)
                /\ \A k \in 1 .. Len(wanted) : list_heap[Chain[k - 1]].data = wanted[k]

\* No step reads or writes through a pointer to a freed node: the cursor of
\* every walk is NULL or a node not freed, also while list_free removes them.
ListUsesLive == {curr, fresh} \subseteq Live \cup {NULL}

\* list_print shows, and list_length counts, what was pushed.
WalkSeesPushed == list_call = "walked" => walked = wanted

\* The list is well typed, holds what was pushed, and shows it when walked.
ListIntact == ListTypeOK /\ ListHoldsPushed /\ WalkSeesPushed

\* Every call returns.
ListCallsReturn == []<>ListIdle
==============================================================================
