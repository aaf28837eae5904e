------------------------------ MODULE LruCache ------------------------------
(***************************************************************************)
(* What kernel/duck/kern/duck_cache.cpp promises: a map from digests to    *)
(* contents of limited capacity.  A digest that is not evicted keeps the   *)
(* content it was first stored with; room is made by evicting the least    *)
(* recently used contents one at a time, never more of them than needed;   *)
(* loading counts as a use, storing again does not.                        *)
(***************************************************************************)
EXTENDS Naturals, Sequences, FiniteSets, Functions

CONSTANTS Digests,      \* the keys
          Contents,     \* the contents that may be stored
          Lengths,      \* the lengths that may be asked for
          PagesFor(_),  \* the pages a content of a given length occupies
          Capacity,     \* the number of pages
          MaxObjects    \* the number of contents

VARIABLES content,  \* the function from the digests present to their contents
          older,    \* for each of them, the digests that were last used before it
          request,  \* the store in progress: << >> or <<digest, content>>
          result    \* what the last operation returned

vars == <<content, older, request, result>>

Present == DOMAIN content

\* The pages in use: the k-th one of a content is <<d, k>>.
Used == UNION {{d} \X (1..PagesFor(Len(content[d]))) : d \in Present}

Fits(c) == PagesFor(Len(c)) <= Capacity
Room(c) ==
    /\ Cardinality(Used) + PagesFor(Len(c)) <= Capacity
    /\ Cardinality(Present) < MaxObjects

\* d is used: all others were used before it, and it before none of them.
Touch(d) == [e \in Present |-> IF e = d THEN Present \ {d} ELSE older[e] \ {d}]

Init ==
    /\ content = [d \in {} |-> << >>]
    /\ older = [d \in {} |-> {}]
    /\ request = << >>
    /\ result = <<"none", << >>>>

Load(d, n) ==
    /\ request = << >>
    /\ IF d \in Present /\ Len(content[d]) = n
         THEN result' = <<"loaded", content[d]>> /\ older' = Touch(d)
         ELSE result' = <<"miss", << >>>> /\ UNCHANGED older
    /\ UNCHANGED <<content, request>>

Refuse(c) ==
    /\ request = << >>
    /\ ~ Fits(c)
    /\ result' = <<"refused", << >>>>
    /\ UNCHANGED <<content, older, request>>

AlreadyStored(d) ==
    /\ request = << >>
    /\ d \in Present
    /\ result' = <<"stored", << >>>>
    /\ UNCHANGED <<content, older, request>>

(* A store that finds no room becomes the request in progress ...            *)
Begin(d, c) ==
    /\ request = << >>
    /\ d \notin Present
    /\ Fits(c) /\ ~ Room(c)
    /\ request' = <<d, c>>
    /\ UNCHANGED <<content, older, result>>

(* ... evicts ...                                                            *)
Evict(d) ==
    /\ request # << >>
    /\ ~ Room(request[2])
    /\ d \in Present /\ older[d] = {}
    /\ content' = Restrict(content, Present \ {d})
    /\ older' = [e \in Present \ {d} |-> older[e] \ {d}]
    /\ UNCHANGED <<request, result>>

(* ... and is inserted as soon as there is room.                             *)
Insert(d, c) ==
    /\ request \in {<< >>, <<d, c>>}
    /\ d \notin Present
    /\ Room(c)
    /\ content' = [e \in Present \cup {d} |-> IF e = d THEN c ELSE content[e]]
    /\ older' = [e \in Present \cup {d} |-> IF e = d THEN Present ELSE older[e]]
    /\ request' = << >>
    /\ result' = <<"stored", << >>>>

Next ==
    \E d \in Digests :
        \/ \E n \in Lengths : Load(d, n)
        \/ AlreadyStored(d)
        \/ \E c \in Contents : Refuse(c) \/ Begin(d, c) \/ Insert(d, c)
        \/ Evict(d)

Spec == Init /\ [][Next]_vars
=============================================================================
