------------------------------ MODULE MemoryMap ------------------------------
(***************************************************************************)
(* MemoryMap (src/brainfuck/memory_map.cpp): the memory of a state as a    *)
(* treap, a binary search tree over the non-zero cells that is also a heap *)
(* over their priorities.  Every member of Node is const, so a node is a   *)
(* value here, and that two snapshots share one is not visible; the        *)
(* identities that the code compares are taken between a tree and what was *)
(* made of it, where equal trees are the same tree.                        *)
(*                                                                         *)
(* snapshots holds the memories that some state still owns, each with the  *)
(* contents it stands for.  Heads are the other fields of a KState, which  *)
(* is the key that a search looks up in its hash table.                    *)
(***************************************************************************)
EXTENDS Integers, Bitwise, SequencesExt

CONSTANTS MaxValue,
          Priorities,    \* the values priority_of may have, on any set of cells
          EntryHashes,   \* the values entry_hash may have on those
          MaxAlive,      \* bound: cells and memories alive, together
          Heads,         \* the pc, pointer and input budget of the states
          Null           \* the empty tree, and std::nullopt

Values == 0..MaxValue

(* mix_hash is a bijection of the words, so priorities differ.  The hash   *)
(* of an entry may collide with any other.                                 *)
ASSUME MemoryMapAssumption ==
    /\ MaxValue \in Nat \ {0}
    /\ \A p \in Priorities :
           /\ DOMAIN p \subseteq Nat /\ Range(p) \subseteq Nat
           /\ IsInjective(p)
           /\ Cardinality(DOMAIN p) < MaxAlive
    /\ \A h \in EntryHashes : h \in [DOMAIN h -> [Values \ {0} -> Nat]]
    /\ Heads \subseteq [pc : Nat \ {0}, mem_ptr : Nat, remaining : Nat \cup {Null}]

VARIABLES snapshots, priority_of, entry_hash

vars == <<snapshots, priority_of, entry_hash>>

Cells == DOMAIN priority_of

-----------------------------------------------------------------------------
size_of(tree) == IF tree = Null THEN 0 ELSE tree.subtree_size

hash_of(tree) == IF tree = Null THEN 0 ELSE tree.subtree_hash

make_node(cell, value, left, right) ==
    [cell |-> cell, value |-> value, left |-> left, right |-> right,
     subtree_size |-> 1 + size_of(left) + size_of(right),
     subtree_hash |-> (hash_of(left) ^^ hash_of(right)) ^^ entry_hash[cell][value]]

RECURSIVE find(_, _)
find(tree, cell) ==
    IF tree = Null \/ tree.cell = cell THEN tree
    ELSE find(IF cell < tree.cell THEN tree.left ELSE tree.right, cell)

RECURSIVE split(_, _)
split(tree, cell) ==
    IF tree = Null THEN [left |-> Null, right |-> Null]
    ELSE IF tree.cell < cell
    THEN LET parts == split(tree.right, cell)
         IN  [left |-> make_node(tree.cell, tree.value, tree.left, parts.left),
              right |-> parts.right]
    ELSE LET parts == split(tree.left, cell)
         IN  [left |-> parts.left,
              right |-> make_node(tree.cell, tree.value, parts.right, tree.right)]

RECURSIVE merge(_, _)
(* Faulty variant: the priorities are not compared.                        *)
merge_left_first(left, right) ==
    IF left = Null THEN right
    ELSE IF right = Null THEN left
    ELSE make_node(left.cell, left.value, left.left, merge(left.right, right))

merge(left, right) ==
    IF left = Null THEN right
    ELSE IF right = Null THEN left
    ELSE IF priority_of[left.cell] > priority_of[right.cell]
    THEN make_node(left.cell, left.value, left.left, merge(left.right, right))
    ELSE make_node(right.cell, right.value, merge(left, right.left), right.right)

insert(tree, cell, value) ==
    LET parts == split(tree, cell)
    IN  merge(merge(parts.left, make_node(cell, value, Null, Null)), parts.right)

RECURSIVE replace(_, _, _)
replace(tree, cell, value) ==
    IF cell < tree.cell
    THEN make_node(tree.cell, tree.value, replace(tree.left, cell, value), tree.right)
    ELSE IF tree.cell < cell
    THEN make_node(tree.cell, tree.value, tree.left, replace(tree.right, cell, value))
    ELSE make_node(cell, value, tree.left, tree.right)

RECURSIVE erase(_, _)
erase(tree, cell) ==
    IF tree = Null THEN Null
    ELSE IF cell < tree.cell
    THEN LET left == erase(tree.left, cell)
         IN  IF left = tree.left THEN tree
             ELSE make_node(tree.cell, tree.value, left, tree.right)
    ELSE IF tree.cell < cell
    THEN LET right == erase(tree.right, cell)
         IN  IF right = tree.right THEN tree
             ELSE make_node(tree.cell, tree.value, tree.left, right)
    ELSE merge(tree.left, tree.right)

-----------------------------------------------------------------------------
get(root, cell) ==
    LET node == find(root, cell) IN IF node = Null THEN 0 ELSE node.value

set(root, cell, value) ==
    LET existing == find(root, cell)
    IN  IF value = 0 THEN erase(root, cell)
        ELSE IF existing = Null THEN insert(root, cell, value)
        ELSE IF existing.value = value THEN root
        ELSE replace(root, cell, value)

(* MemoryMap(values): the non-zero cells of a std::map, in its order.      *)
FromValues(values) ==
    FoldLeft(LAMBDA root, cell : insert(root, cell, values[cell]), Null,
             SetToSortSeq({c \in Cells : values[c] # 0}, <))

(* The in-order walk that compare() and to_std_map() do with a stack.      *)
RECURSIVE push_left(_, _)
push_left(tree, stack) ==
    IF tree = Null THEN stack ELSE push_left(tree.left, Append(stack, tree))

RECURSIVE Walk(_)
Walk(stack) ==
    IF stack = << >> THEN << >>
    ELSE LET node == Last(stack)
         IN  <<[cell |-> node.cell, value |-> node.value]>>
                \o Walk(push_left(node.right, Front(stack)))

to_std_map(root) == Walk(push_left(root, << >>))

Sign(x, y) == IF x < y THEN -1 ELSE 1

(* The first position at which the walks differ decides.                   *)
compare_entries(this, other) ==
    LET differ == {i \in DOMAIN this \cap DOMAIN other : this[i] # other[i]}
        first == CHOOSE i \in differ : \A j \in differ : i <= j
    IN  IF differ = {} THEN 0
        ELSE IF this[first].cell # other[first].cell
        THEN Sign(this[first].cell, other[first].cell)
        ELSE Sign(this[first].value, other[first].value)

(* Faulty variant: an equal hash is taken for equal contents.              *)
compare_hashes(this, other) ==
    IF size_of(this) # size_of(other) THEN Sign(size_of(this), size_of(other))
    ELSE IF hash_of(this) # hash_of(other) THEN Sign(hash_of(this), hash_of(other))
    ELSE 0

(* Whether two roots are one shared node is not part of a tree: the walk   *)
(* over equal ones ends with the 0 that the code returns for a shared one. *)
compare(this, other) ==
    IF size_of(this) # size_of(other) THEN Sign(size_of(this), size_of(other))
    ELSE IF hash_of(this) # hash_of(other) THEN Sign(hash_of(this), hash_of(other))
    ELSE compare_entries(to_std_map(this), to_std_map(other))

(* KState::compare(): the memories decide when everything else is equal.   *)
compare_states(this, other) ==
    IF this.pc # other.pc THEN Sign(this.pc, other.pc)
    ELSE IF this.mem_ptr # other.mem_ptr THEN Sign(this.mem_ptr, other.mem_ptr)
    ELSE IF this.remaining = other.remaining THEN compare(this.root, other.root)
    ELSE IF this.remaining = Null THEN -1
    ELSE IF other.remaining = Null THEN 1
    ELSE Sign(this.remaining, other.remaining)

-----------------------------------------------------------------------------
Init ==
    /\ priority_of \in Priorities
    /\ entry_hash \in {h \in EntryHashes : DOMAIN h = Cells}
    /\ \E values \in [Cells -> Values] :
           snapshots = {[root |-> FromValues(values), contents |-> values]}

(* A state writes a cell and keeps the new snapshot; other states keep     *)
(* theirs or release them.                                                 *)
Set(s, cell, value) ==
    /\ \E kept \in SUBSET snapshots :
           /\ Cardinality(Cells) + Cardinality(kept) < MaxAlive
           /\ snapshots' = kept \cup {[root |-> set(s.root, cell, value),
                                       contents |-> [s.contents EXCEPT ![cell] = value]]}
    /\ UNCHANGED <<priority_of, entry_hash>>

Next == \E s \in snapshots, cell \in Cells, value \in Values : Set(s, cell, value)

Spec == Init /\ [][Next]_vars

-----------------------------------------------------------------------------
(* The treap over a set of cells, from what a treap is: the cell of the    *)
(* highest priority on top, the smaller cells left of it, the larger ones  *)
(* right, and in each node the size and the hash of its own cells.         *)
RECURSIVE Treap(_, _)
Treap(cells, contents) ==
    IF cells = {} THEN Null
    ELSE LET top == CHOOSE c \in cells : \A d \in cells : priority_of[c] >= priority_of[d]
         IN  [cell |-> top, value |-> contents[top],
              left |-> Treap({c \in cells : c < top}, contents),
              right |-> Treap({c \in cells : c > top}, contents),
              subtree_size |-> Cardinality(cells),
              subtree_hash |-> MapThenFoldSet(LAMBDA x, y : x ^^ y, 0,
                                              LAMBDA c : entry_hash[c][contents[c]],
                                              LAMBDA C : CHOOSE c \in C : TRUE, cells)]

(* INVARIANT.  However a snapshot was built, it is the one treap of its    *)
(* contents, without zero cells and with the right cached size and hash in *)
(* every node, and reading its cells one by one or in a walk gives the     *)
(* contents: what the hash table of a search relies on to recognise a      *)
(* memory that it reached along another path.                              *)
Canonical ==
    \A s \in snapshots :
        LET cells == {c \in Cells : s.contents[c] # 0}
        IN  /\ s.root = Treap(cells, s.contents)
            /\ \A c \in Cells : get(s.root, c) = s.contents[c]
            /\ {<<e.cell, e.value>> : e \in Range(to_std_map(s.root))}
                 = {<<c, s.contents[c]>> : c \in cells}

(* INVARIANT.  compare() tells states apart by any field, and by memory     *)
(* contents whatever their entry hashes collide on, and it is a linear     *)
(* order: antisymmetric, and no two states have equally many below them.   *)
CompareOrders ==
    LET States == {[pc |-> h.pc, mem_ptr |-> h.mem_ptr, remaining |-> h.remaining,
                    root |-> s.root, contents |-> s.contents] :
                        h \in Heads, s \in snapshots}
        Below(k) == Cardinality({l \in States : compare_states(l, k) = -1})
    IN  /\ \A k, l \in States :
              /\ compare_states(k, l) = 0 <=> k = l
              /\ compare_states(l, k) = -compare_states(k, l)
        /\ Cardinality({Below(k) : k \in States}) = Cardinality(States)
=============================================================================
