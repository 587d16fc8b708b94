------------------------------ MODULE JsonTree ------------------------------
(***************************************************************************)
(* The items of the JSON library (uct_json.c) and the pointers between     *)
(* them.  An item's children are linked by next and prev; the first one's  *)
(* prev is the last, so that an item is appended without a walk.  A root   *)
(* belongs to the user of the library, any other item to its parent.  The  *)
(* name of an item in an object is a constant or a string of its own.      *)
(*                                                                         *)
(* The functions are operators on the items, since they call one another.  *)
(* The user gives a root as the item to add, and never makes it a child of *)
(* itself or of one below it.                                              *)
(***************************************************************************)
EXTENDS Integers, Sequences, FiniteSets

LOCAL INSTANCE SequencesExt

CONSTANTS MaxItems,   \* bound: items allocated at a time
          MaxSize,    \* bound: items and names beyond which no call is made
          Names,      \* names of items in objects
          Lookups     \* names looked up

VARIABLES items,      \* items[i]: the item at address i; 0 is NULL
          roots,      \* items the user has
          strings     \* names allocated and not freed

treeVars == <<items, roots, strings>>

Items == 1 .. MaxItems
Size(t) == Cardinality({i \in Items : t[i].live}) + Cardinality({i \in Items : t[i].string # ""})
Free  == [live |-> FALSE, child |-> 0, next |-> 0, prev |-> 0, string |-> "", const |-> FALSE]
New   == [Free EXCEPT !.live = TRUE]

InitTree == items = [i \in Items |-> Free] /\ roots = {} /\ strings = 0

Vacant == {i \in Items : ~items[i].live}
FirstVacant(n) == SubSeq(SetToSortSeq(Vacant, LAMBDA i, j : i < j), 1, n)

RECURSIVE Follow(_, _), Close(_, _)

\* s and the items that follow its last.
Follow(t, s) ==
    IF Len(s) > MaxItems \/ t[Last(s)].next = 0 THEN s ELSE Follow(t, Append(s, t[Last(s)].next))

Kids(t, p) == IF t[p].child = 0 THEN <<>> ELSE Follow(t, <<t[p].child>>)

\* S and the items below and behind those in it.
Close(t, S) ==
    LET more == (S \cup {t[j].child : j \in S} \cup {t[j].next : j \in S}) \ {0}
    IN  IF more = S THEN S ELSE Close(t, more)

\* i, its siblings that follow, and all that is below these.
Reach(t, i) == Close(t, {i})

Own(t, S) == Cardinality({i \in S : t[i].string # "" /\ ~t[i].const})

\* cJSON_Delete
Delete(t, i) == LET gone == Reach(t, i) IN [j \in Items |-> IF j \in gone THEN Free ELSE t[j]]

-----------------------------------------------------------------------------
(* The functions on the links *)

\* get_array_item
GetArrayItem(t, p, which) == LET c == Kids(t, p) IN IF which < Len(c) THEN c[which + 1] ELSE 0

SameName(a, b, case_sensitive) == a = b \/ (~case_sensitive /\ {a, b} = {"a", "A"})

\* get_object_item: a search that minds case ends at a child without a name.
GetObjectItem(t, p, name, case_sensitive) ==
    LET c == Kids(t, p)
        k == SelectInSeq(c, LAMBDA i : \/ SameName(t[i].string, name, case_sensitive)
                                       \/ case_sensitive /\ t[i].string = "")
    IN  IF k = 0 \/ t[c[k]].string = "" THEN 0 ELSE c[k]

SuffixObject(t, prev, i) == [t EXCEPT ![prev].next = i, ![i].prev = prev]

AddItemToArray(t, p, i) ==
    LET head == t[p].child
    IN  CASE head = 0 -> [t EXCEPT ![p].child = i, ![i].prev = i, ![i].next = 0]
          [] head # 0 /\ t[head].prev = 0 -> t
          [] head # 0 /\ t[head].prev # 0 -> [SuffixObject(t, t[head].prev, i) EXCEPT ![head].prev = i]

\* Mutant of DetachItem: the first child does not learn of the new last one.
DetachItemTail(t, p, i) ==
    LET t1 == IF i # t[p].child THEN [t EXCEPT ![t[i].prev].next = t[i].next] ELSE [t EXCEPT ![p].child = t[i].next]
        t2 == IF t[i].next # 0 THEN [t1 EXCEPT ![t[i].next].prev = t[i].prev] ELSE t1
    IN  [t2 EXCEPT ![i].prev = 0, ![i].next = 0]

\* cJSON_DetachItemViaPointer
DetachItem(t, p, i) ==
    LET t1 == IF i # t[p].child THEN [t EXCEPT ![t[i].prev].next = t[i].next] ELSE t
        t2 == IF t1[i].next # 0 THEN [t1 EXCEPT ![t1[i].next].prev = t1[i].prev] ELSE t1
        t3 == CASE i = t2[p].child -> [t2 EXCEPT ![p].child = t2[i].next]
                [] i # t2[p].child /\ t2[i].next = 0 -> [t2 EXCEPT ![t2[p].child].prev = t2[i].prev]
                [] OTHER -> t2
    IN  [t3 EXCEPT ![i].prev = 0, ![i].next = 0]

\* cJSON_InsertItemInArray
InsertItem(t, p, which, i) ==
    LET after == GetArrayItem(t, p, which)
        t1 == [t EXCEPT ![i].next = after, ![i].prev = t[after].prev, ![after].prev = i]
    IN  IF after = 0 THEN AddItemToArray(t, p, i)
        ELSE IF after = t[p].child THEN [t1 EXCEPT ![p].child = i]
        ELSE [t1 EXCEPT ![t1[i].prev].next = i]

\* cJSON_ReplaceItemViaPointer, which deletes i, cut off from its siblings.
ReplaceItem(t, p, i, r) ==
    LET t1 == [t EXCEPT ![r].next = t[i].next, ![r].prev = t[i].prev]
        t2 == IF t1[r].next # 0 THEN [t1 EXCEPT ![t1[r].next].prev = r] ELSE t1
        t3 == IF t2[p].child = i
              THEN [(IF t2[i].prev = i THEN [t2 EXCEPT ![r].prev = r] ELSE t2) EXCEPT ![p].child = r]
              ELSE LET t4 == IF t2[r].prev # 0 THEN [t2 EXCEPT ![t2[r].prev].next = r] ELSE t2
                   IN  IF t4[r].next = 0 THEN [t4 EXCEPT ![t4[p].child].prev = r] ELSE t4
    IN  Delete([t3 EXCEPT ![i].next = 0, ![i].prev = 0], i)

\* The array at a of the items cs, as cJSON_CreateIntArray links them.
ArrayOf(t, a, cs) ==
    [j \in Items |->
        IF j = a THEN [New EXCEPT !.child = IF cs = <<>> THEN 0 ELSE cs[1]]
        ELSE LET k == SelectInSeq(cs, LAMBDA c : c = j)
             IN  IF k = 0 THEN t[j]
                 ELSE [New EXCEPT !.next = IF k < Len(cs) THEN cs[k + 1] ELSE 0,
                                  !.prev = IF k > 1 THEN cs[k - 1] ELSE Last(cs)]]

-----------------------------------------------------------------------------
(* The calls *)

\* The items after a call, and what that means for the names.
Become(t, added) ==
    /\ items' = t
    /\ strings' = strings + added - (Own(items, Items) - Own(items, {i \in Items : t[i].live}))

\* cJSON_CreateNull and the others; one that fails changes nothing.
Create ==
    /\ Vacant # {}
    /\ LET i == FirstVacant(1)[1] IN items' = [items EXCEPT ![i] = New] /\ roots' = roots \cup {i}
    /\ UNCHANGED strings

\* cJSON_CreateIntArray and the others: count children, or, when one cannot be
\* created, the array is deleted with those it has.
CreateArray(count) ==
    /\ Cardinality(Vacant) > count
    /\ \E n \in 0 .. count :
         LET new == FirstVacant(n + 1)
             t == ArrayOf(items, new[1], Tail(new))
         IN  IF n = count THEN Become(t, 0) /\ roots' = roots \cup {new[1]}
             ELSE Become(Delete(t, new[1]), 0) /\ UNCHANGED roots

\* cJSON_AddItemToArray
AddToArray(p, i) ==
    /\ Become(AddItemToArray(items, p, i), 0)
    /\ roots' = roots \ {i}

\* The new name of i; the old one is freed if it was its own.
Rename(t, i, name, const) == [t EXCEPT ![i].string = name, ![i].const = const]

Fewer(i) == IF items[i].string # "" /\ ~items[i].const THEN -1 ELSE 0

\* cJSON_AddItemToObject and, with a constant name, cJSON_AddItemToObjectCS;
\* when the name cannot be copied nothing happens.
AddToObject(p, i, name, const) ==
    /\ items' = AddItemToArray(Rename(items, i, name, const), p, i)
    /\ strings' = strings + Fewer(i) + (IF const THEN 0 ELSE 1)
    /\ roots' = roots \ {i}

\* cJSON_AddNullToObject and the others: an item that is not added is deleted.
AddNewToObject(p, name) ==
    /\ Vacant # {}
    /\ LET i == FirstVacant(1)[1]
           t == [items EXCEPT ![i] = New]
       IN  \/ Become(AddItemToArray(Rename(t, i, name, FALSE), p, i), 1)
           \/ Become(Delete(t, i), 0)
    /\ UNCHANGED roots

\* cJSON_DetachItemFromArray, cJSON_DetachItemFromObject and the deletions.
DetachOrDelete(p, i) ==
    /\ i # 0
    /\ LET t == DetachItem(items, p, i)
       IN  \/ Become(t, 0) /\ roots' = roots \cup {i}
           \/ Become(Delete(t, i), 0) /\ UNCHANGED roots

Insert(p, which, i) ==
    /\ Become(InsertItem(items, p, which, i), 0)
    /\ roots' = roots \ {i}

\* cJSON_ReplaceItemInArray
Replace(p, i, r) ==
    /\ i # 0
    /\ Become(ReplaceItem(items, p, i, r), 0)
    /\ roots' = roots \ {r}

\* replace_item_in_object: the replacement is renamed first, whether there is
\* an item to replace or not, and to NULL if the name cannot be copied.
ReplaceInObject(p, name, r, case_sensitive) ==
    /\ \E copy \in {name, ""} :
         LET i == GetObjectItem(items, p, name, case_sensitive)
             t == Rename(items, r, copy, FALSE)
         IN  /\ items' = IF i = 0 THEN t ELSE ReplaceItem(t, p, i, r)
             /\ strings' = strings + Fewer(r) + (IF copy = "" THEN 0 ELSE 1)
                             - (IF i = 0 THEN 0 ELSE Own(items, Reach([items EXCEPT ![i].next = 0], i)))
             /\ roots' = IF i = 0 THEN roots ELSE roots \ {r}

DeleteRoot(i) ==
    /\ Become(Delete(items, i), 0)
    /\ roots' = roots \ {i}

\* cJSON_Duplicate: item after item, each linked to the one before it and the
\* first to the last; a copy that fails half-way is deleted.
Duplicate(i, recurse) ==
    LET below == Reach([items EXCEPT ![i].next = 0], i)
        S == IF recurse THEN below ELSE {i}
        order == SetToSortSeq(S, LAMBDA x, y : x < y)
        new == FirstVacant(Len(order))
        copy(x) == IF x \notin S THEN 0 ELSE new[SelectInSeq(order, LAMBDA y : y = x)]
        siblings(x) == IF x = i THEN <<x>> ELSE Kids(items, CHOOSE p \in S : x \in Range(Kids(items, p)))
        copied(x) ==
            LET c == siblings(x) k == SelectInSeq(c, LAMBDA y : y = x)
            IN  [items[x] EXCEPT !.child = copy(@),
                                 !.next = IF k < Len(c) THEN copy(c[k + 1]) ELSE 0,
                                 !.prev = IF x = i THEN 0 ELSE IF k > 1 THEN copy(c[k - 1]) ELSE copy(Last(c))]
    IN  /\ Cardinality(Vacant) >= Cardinality(S)
        /\ items' = [j \in Items |-> IF \E x \in S : copy(x) = j THEN copied(CHOOSE x \in S : copy(x) = j) ELSE items[j]]
        /\ strings' = strings + Own(items, S)
        /\ roots' = roots \cup {copy(i)}

TreeNext ==
    /\ Size(items) <= MaxSize
    /\ \/ Create \/ \E count \in 0 .. 2 : CreateArray(count)
       \/ \E i \in roots : DeleteRoot(i)
       \/ \E p \in Items \ Vacant :
            \/ \E recurse \in BOOLEAN : Duplicate(p, recurse)
            \/ \E name \in Names : AddNewToObject(p, name)
            \/ \E which \in 0 .. MaxItems - 2 : DetachOrDelete(p, GetArrayItem(items, p, which))
            \/ \E name \in Lookups, cs \in BOOLEAN : DetachOrDelete(p, GetObjectItem(items, p, name, cs))
            \/ \E i \in {i \in roots : p \notin Reach(items, i)} :
                 \/ AddToArray(p, i)
                 \/ \E name \in Names, const \in BOOLEAN : AddToObject(p, i, name, const)
                 \/ \E which \in 0 .. MaxItems - 2 : Insert(p, which, i) \/ Replace(p, GetArrayItem(items, p, which), i)
                 \/ \E name \in Names, cs \in BOOLEAN : ReplaceInObject(p, name, i, cs)

-----------------------------------------------------------------------------
(* Properties *)

\* After any sequence of calls, failing allocations included, the items form
\* trees: each is a root, which points at no sibling, or the child of one item,
\* once; prev undoes next and the first child's prev is the last; nothing points
\* at a deleted item; every item can be reached from a root, so that deleting
\* the roots frees all; and as many names are allocated as items hold.
TreeSound ==
    LET live == {i \in Items : items[i].live}
        kids == [p \in live |-> Kids(items, p)]
    IN  /\ roots \subseteq live
        /\ \A i \in roots : items[i].next = 0 /\ items[i].prev = 0
        /\ \A p \in live :
             LET c == kids[p]
             IN  /\ IsInjective(c) /\ Range(c) \subseteq live \ roots
                 /\ \A k \in DOMAIN c : items[c[k]].prev = IF k = 1 THEN Last(c) ELSE c[k - 1]
                 /\ \A q \in live \ {p} : Range(c) \cap Range(kids[q]) = {}
        /\ live = UNION {Reach(items, i) : i \in roots}
        /\ strings = Own(items, live)
=============================================================================
