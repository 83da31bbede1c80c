-------------------------------- MODULE List --------------------------------
(***************************************************************************)
(* list.c: nodes with two links each, added at the tail, taken out         *)
(* anywhere, destroyed from both ends.                                     *)
(***************************************************************************)
EXTENDS Naturals, Sequences

CONSTANTS Nodes,
          NoNode     \* the null pointer

ASSUME ListAssumption == NoNode \notin Nodes

VARIABLES head, tail, count,   \* the list; count is its size
          next, prev,
          memory,      \* of each node: "new", "live" or "freed"
          destroy_cb,  \* somebody has set it: list_create does not
          walk,        \* list_destroy's head and tail, or <<>>
          list,        \* "live", "destroying", "freed" or "fault"
          order,       \* the nodes that were added and not deleted
          first        \* order when list_destroy was called

listVars == <<head, tail, count, next, prev, memory, destroy_cb, walk, list, order, first>>

Links == [Nodes -> Nodes \cup {NoNode}]

ListInit ==
    /\ head = NoNode /\ tail = NoNode /\ count = 0
    /\ next = [n \in Nodes |-> NoNode] /\ prev = [n \in Nodes |-> NoNode]
    /\ memory = [n \in Nodes |-> "new"]
    /\ destroy_cb \in BOOLEAN
    /\ walk = <<>>
    /\ list = "live"
    /\ order = <<>> /\ first = <<>>

Fault ==
    /\ list' = "fault"
    /\ UNCHANGED <<head, tail, count, next, prev, memory, destroy_cb, walk, order, first>>

\* list_node_create and list_add.
list_add ==
    /\ list = "live"
    /\ \E n \in Nodes :
          /\ memory[n] = "new"
          /\ memory' = [memory EXCEPT ![n] = "live"]
          /\ count = 0 \/ tail # NoNode
          /\ order' = Append(order, n)
          /\ tail' = n
          /\ IF count = 0
             THEN head' = n /\ UNCHANGED <<next, prev>>
             ELSE /\ next' = [next EXCEPT ![tail] = n]
                  /\ prev' = [prev EXCEPT ![n] = tail]
                  /\ UNCHANGED head
    /\ count' = count + 1
    /\ UNCHANGED <<destroy_cb, walk, list, first>>

\* list_node_create found no memory, and bucket_put adds the null it returned:
\* an empty list has a size and no node then.
AddNull ==
    /\ list = "live"
    /\ count = 0
    /\ head' = NoNode /\ tail' = NoNode
    /\ count' = 1
    /\ UNCHANGED <<next, prev, memory, destroy_cb, walk, list, order, first>>

\* Null is added to a list with nodes, or a node to a list that has only a size.
AddFaults ==
    /\ list = "live"
    /\ count > 0
    /\ Fault

\* A plausible bug: the node after the deleted one keeps its link back.
BackLinks_Kept(n) == prev

\* The links back once n is out.
BackLinks(n) ==
    IF next[n] # NoNode THEN [prev EXCEPT ![next[n]] = prev[n], ![n] = NoNode]
                      ELSE [prev EXCEPT ![n] = NoNode]

list_del ==
    /\ list = "live"
    /\ count > 0
    /\ \E i \in DOMAIN order :
          LET n == order[i]
          IN  /\ next' = IF prev[n] # NoNode
                         THEN [next EXCEPT ![prev[n]] = next[n], ![n] = NoNode]
                         ELSE [next EXCEPT ![n] = NoNode]
              /\ head' = IF prev[n] # NoNode THEN head ELSE next[n]
              /\ prev' = BackLinks(n)
              /\ tail' = IF next[n] # NoNode THEN tail ELSE prev[n]
              /\ memory' = [memory EXCEPT ![n] = "freed"]
              /\ order' = SubSeq(order, 1, i - 1) \o SubSeq(order, i + 1, Len(order))
    /\ count' = count - 1
    /\ UNCHANGED <<destroy_cb, walk, list, first>>

\* list_destroy of a list with a size; of an empty one it does nothing, and the
\* list stays.
Destroys ==
    /\ list = "live"
    /\ count > 0
    /\ count' = 0
    /\ walk' = <<head, tail>>
    /\ list' = IF head = NoNode THEN "freed" ELSE "destroying"
    /\ first' = order
    /\ UNCHANGED <<head, tail, next, prev, memory, destroy_cb, order>>

\* A plausible bug: the last node is taken by the loop too.
AtMeeting_Loops == FALSE

\* The two ends meet on a node.
AtMeeting == walk[1] = walk[2]

Dereferenceable(n) == n # NoNode /\ memory[n] = "live"

\* One turn of the loop: both ends are freed, and the walk goes on with what
\* they were linked to.
DestroysPair ==
    /\ list = "destroying"
    /\ ~AtMeeting
    /\ destroy_cb
    /\ Dereferenceable(walk[1]) /\ Dereferenceable(walk[2]) /\ walk[1] # walk[2]
    /\ walk' = <<next[walk[1]], prev[walk[2]]>>
    /\ memory' = [memory EXCEPT ![walk[1]] = "freed", ![walk[2]] = "freed"]
    /\ next' = [next EXCEPT ![walk[1]] = NoNode, ![walk[2]] = NoNode]
    /\ prev' = [prev EXCEPT ![walk[1]] = NoNode, ![walk[2]] = NoNode]
    /\ count' = count + 1
    /\ UNCHANGED <<head, tail, destroy_cb, list, order, first>>

\* A node that was freed, or nothing, is taken for a node, or the callback is
\* not there; or one node for two.
DestroyFaults ==
    /\ list = "destroying"
    /\ ~AtMeeting
    /\ \/ ~destroy_cb
       \/ ~Dereferenceable(walk[1]) \/ ~Dereferenceable(walk[2]) \/ walk[1] = walk[2]
    /\ Fault

\* The size was set to 0 and wraps with the first turn of the loop: without a
\* turn the one node stays.  (count is how far it has wrapped.)
DestroysMiddle ==
    /\ list = "destroying"
    /\ AtMeeting
    /\ memory' = IF count > 0 THEN [memory EXCEPT ![walk[1]] = "freed"] ELSE memory
    /\ list' = "freed"
    /\ UNCHANGED <<head, tail, count, next, prev, destroy_cb, walk, order, first>>

ListNext ==
    \/ list_add \/ AddNull \/ AddFaults \/ list_del
    \/ Destroys \/ DestroysPair \/ DestroyFaults \/ DestroysMiddle

ListSpec == ListInit /\ [][ListNext]_listVars

-----------------------------------------------------------------------------
(* Properties.                                                             *)

Linked(from, to, s, link) ==
    IF s = <<>> THEN from = NoNode
    ELSE /\ from = s[1] /\ to = s[Len(s)]
         /\ link[s[Len(s)]] = NoNode
         /\ \A i \in 1 .. Len(s) - 1 : link[s[i]] = s[i + 1]

Backwards(s) == [i \in DOMAIN s |-> s[Len(s) + 1 - i]]

\* Whatever was added and deleted, a walk over either kind of links meets the
\* nodes of the list, in their order, and no other node, and none that was
\* freed.
WalksAgree ==
    list = "live" =>
        /\ Linked(head, tail, order, next)
        /\ Linked(tail, head, Backwards(order), prev)
        /\ \A i \in DOMAIN order : memory[order[i]] = "live"

\* list_destroy frees each node of a list of 3, 5, ... nodes once and touches
\* none that it has freed; a single node it leaves; an even number of them, or
\* a list without the callback, is the only thing it cannot cope with.
DestroyNeedsAMiddle ==
    first # <<>> =>
        /\ list = "fault" => Len(first) % 2 = 0 \/ ~destroy_cb
        /\ list = "freed" =>
              /\ Len(first) % 2 = 1
              /\ \A i \in DOMAIN first :
                    memory[first[i]] = IF Len(first) = 1 THEN "live" ELSE "freed"
=============================================================================
