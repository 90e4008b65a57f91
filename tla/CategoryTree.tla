------------------------------ MODULE CategoryTree -----------------------------
(***************************************************************************)
(* The tree of categories and the products in them (category.service.ts,   *)
(* and where product.service.ts gives a product its category).             *)
(*                                                                         *)
(* A category is known by its slug, which no other ever has again, not     *)
(* even once the category is deleted.  Administrators work at the same     *)
(* time; a handler checks what it reads and writes by id later.            *)
(***************************************************************************)
EXTENDS Integers, FiniteSets

CONSTANTS
    Category,
    Admin,      \* handlers that can be between two statements at once
    MaxDepth,   \* MAX_DEPTH of isDescendant
    NoParent

ASSUME CategoryAssumption == MaxDepth \in Nat \ {0} /\ NoParent \notin Category

VARIABLES
    \* the rows, their parents, those deleted, those that have products
    categories, parentId, deletedCategories, stocked,
    \* handlers between two statements
    task,
    \* history: handlers that another has written after they read; categories that
    \* such a handler wrote to
    overtaken, astray

treeVars == <<categories, parentId, deletedCategories, stocked>>
categoryVars == <<treeVars, task, overtaken, astray>>

NoTask == [pc |-> "idle"]
TaskState ==
    UNION {{NoTask},
           [pc : {"create", "move"}, category : Category, parent : Category \union {NoParent}],
           [pc : {"delete", "stock"}, category : Category]}

Live(c) == c \in categories \ deletedCategories
Children(c) == {d \in categories \ deletedCategories : parentId[d] = c}
Busy(r, pc) == task[r].pc = pc

CategoryInit ==
    /\ categories = {} /\ deletedCategories = {} /\ stocked = {}
    /\ parentId = [c \in Category |-> NoParent]
    /\ task = [r \in Admin |-> NoTask]
    /\ overtaken = {} /\ astray = {}

\* A handler has read what it needs...
Start(r, state) ==
    /\ task' = [task EXCEPT ![r] = state]
    /\ overtaken' = overtaken \ {r}
    /\ UNCHANGED <<treeVars, astray>>

\* ...writes to c and is done...
Finish(r, c) ==
    /\ task' = [task EXCEPT ![r] = NoTask]
    /\ overtaken' = {x \in Admin \ {r} : task[x] # NoTask}
    /\ astray' = IF r \in overtaken THEN astray \union ({c} \intersect Category) ELSE astray

\* ...or fails.
GiveUp(r) ==
    /\ task[r] # NoTask
    /\ task' = [task EXCEPT ![r] = NoTask]
    /\ overtaken' = overtaken \ {r}
    /\ UNCHANGED <<treeVars, astray>>

\* createCategory.  The unique index on slug refuses a second row.
CreateCategory(r, c, p) ==
    /\ task[r] = NoTask
    /\ c \notin categories
    /\ p = NoParent \/ Live(p)
    /\ Start(r, [pc |-> "create", category |-> c, parent |-> p])

InsertCategory(r) ==
    LET q == task[r] IN
    /\ Busy(r, "create")
    /\ q.category \notin categories
    /\ categories' = categories \union {q.category}
    /\ parentId' = [parentId EXCEPT ![q.category] = q.parent]
    /\ Finish(r, q.parent)
    /\ UNCHANGED <<deletedCategories, stocked>>

\* isDescendant walks up from the category that is to move.  It throws when it
\* meets one again or after MaxDepth of them, refuses the move when it comes upon
\* the new parent, and lets it go on when it gets to a root.  (Its queries are one
\* step here.)
Ancestor(c) ==
    LET up[n \in 0..MaxDepth] ==
            IF n = 0 THEN c
            ELSE IF up[n - 1] = NoParent THEN NoParent ELSE parentId[up[n - 1]]
    IN  up

IsDescendant(c, p) ==
    LET up == Ancestor(c) IN
    \A n \in 1..MaxDepth : up[n] = NoParent => \E m \in 1..n : up[m] = p

\* updateCategory with a parentId.
UpdateCategory(r, c, p) ==
    /\ task[r] = NoTask
    /\ Live(c) /\ p # c
    /\ p # NoParent => Live(p) /\ ~IsDescendant(c, p)
    /\ Start(r, [pc |-> "move", category |-> c, parent |-> p])

MoveCategory(r) ==
    LET q == task[r] IN
    /\ Busy(r, "move")
    /\ parentId' = [parentId EXCEPT ![q.category] = q.parent]
    /\ Finish(r, q.parent)
    /\ UNCHANGED <<categories, deletedCategories, stocked>>

\* deleteCategory.
FaultEmptied(c) == c \notin stocked
Emptied(c) == c \notin stocked /\ Children(c) = {}

DeleteCategory(r, c) ==
    /\ task[r] = NoTask
    /\ Live(c) /\ Emptied(c)
    /\ Start(r, [pc |-> "delete", category |-> c])

SoftDeleteCategory(r) ==
    LET c == task[r].category IN
    /\ Busy(r, "delete")
    /\ deletedCategories' = deletedCategories \union {c}
    /\ Finish(r, c)
    /\ UNCHANGED <<categories, parentId, stocked>>

\* createProduct and updateProduct look the category up before they use it.
ChooseCategory(r, c) ==
    /\ task[r] = NoTask
    /\ Live(c)
    /\ Start(r, [pc |-> "stock", category |-> c])

AddProduct(r) ==
    LET c == task[r].category IN
    /\ Busy(r, "stock")
    /\ stocked' = stocked \union {c}
    /\ Finish(r, c)
    /\ UNCHANGED <<categories, parentId, deletedCategories>>

\* The last product of a category is deleted or moved.
LastProductGoes(c) ==
    /\ stocked' = stocked \ {c}
    /\ UNCHANGED <<categories, parentId, deletedCategories, task, overtaken, astray>>

-----------------------------------------------------------------------------
CategoryHandler(r) ==
    \/ \E c \in Category :
           \/ \E p \in Category \union {NoParent} :
                  CreateCategory(r, c, p) \/ UpdateCategory(r, c, p)
           \/ DeleteCategory(r, c)
           \/ ChooseCategory(r, c)
    \/ InsertCategory(r) \/ MoveCategory(r)
    \/ SoftDeleteCategory(r) \/ AddProduct(r)
    \/ GiveUp(r)

CategoryNext ==
    \/ \E r \in Admin : CategoryHandler(r)
    \/ \E c \in stocked : LastProductGoes(c)

CategorySpec == CategoryInit /\ [][CategoryNext]_categoryVars

-----------------------------------------------------------------------------
CategoryTypeOK ==
    /\ categories \subseteq Category
    /\ deletedCategories \subseteq categories /\ stocked \subseteq categories
    /\ parentId \in [Category -> categories \union {NoParent}]
    /\ task \in [Admin -> TaskState]
    /\ overtaken \subseteq {r \in Admin : task[r] # NoTask} /\ astray \subseteq categories

\* A deleted category has neither products nor categories below it, unless one was
\* put there by a handler, or it was deleted by one, that another overtook.
DeletedCategoryIsEmpty ==
    \A c \in deletedCategories \ astray : c \notin stocked /\ Children(c) = {}

\* No category is its own ancestor: 'Cannot set a descendant category as parent'.
\* Every set of categories has one whose parent is not in the set.
TreeHasNoCycle ==
    \A S \in SUBSET categories : S # {} => \E c \in S : parentId[c] \notin S
=============================================================================
