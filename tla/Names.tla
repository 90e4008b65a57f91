--------------------------------- MODULE Names ---------------------------------
(***************************************************************************)
(* Names that only one row may have: phone numbers, e-mail addresses and   *)
(* user names of users, slugs of products, categories, conditions and      *)
(* sizes.  A handler looks for rows with the name, then writes; the unique *)
(* index of the database has the last word.  Rows are deleted softly, and  *)
(* the index counts deleted rows too.  A behaviour is about one table.     *)
(***************************************************************************)
EXTENDS Naturals

CONSTANTS
    Row,
    Base,           \* what names are asked for; slugs get a number behind it
    Writer,         \* handlers that can be under way at once
    NoName,         \* a row without the name
    Freed           \* the name a deleted user has: the old one, marked

ASSUME NamesAssumption ==
    /\ NoName # Freed
    /\ NoName \notin [base : Base, number : Nat] /\ Freed \notin [base : Base, number : Nat]

VARIABLES
    table,          \* the table this behaviour is about
    rowState,       \* which rows there are, and which are deleted
    nameOf,         \* each row's name
    naming,         \* where each handler stands
    lateNames       \* (history) users deleted while a handler was renaming them

nameVars == <<table, rowState, nameOf, naming, lateNames>>

Users == {"phone", "user name"}     \* e-mail addresses are like user names
Labels == {"condition", "size"}
Numbered == Labels \union {"product"}
Tables == Users \union Numbered \union {"category"}

Name == [base : Base, number : Nat]
Called(b) == [base |-> b, number |-> 0]

Resting == [at |-> "idle"]
NamingState ==
    {Resting}
    \union [at : {"checking", "code", "writing", "checking again"}, row : Row, name : Name,
            seen : SUBSET Row]
    \union [at : {"refused"}, by : {"race", "deleted row", "nobody"}]
    \union [at : {"deleting"}, row : Row]

NamesInit ==
    /\ table \in Tables
    /\ rowState = [x \in Row |-> "none"] /\ nameOf = [x \in Row |-> NoName]
    /\ naming = [r \in Writer |-> Resting] /\ lateNames = {}

Having(name) == {x \in Row : nameOf[x] = name}
WriterGoes(r, state) == naming' = [naming EXCEPT ![r] = state]
RowsStay == UNCHANGED <<table, rowState, nameOf, lateNames>>

-----------------------------------------------------------------------------
Naming(x) == {r \in Writer : naming[r].at \in {"checking", "code", "writing", "checking again"}
                             /\ naming[r].row = x}

Ask(r, x, b) ==
    /\ naming[r] = Resting
    /\ WriterGoes(r, [at |-> "checking", row |-> x, name |-> Called(b), seen |-> {}])
    /\ RowsStay

\* A handler that creates a row with the name, and one that gives it to a row it
\* has found not to be deleted.
Creates(r, x, b) == rowState[x] = "none" /\ Naming(x) = {} /\ Ask(r, x, b)
Renames(r, x, b) == rowState[x] = "live" /\ Ask(r, x, b)

CreateUser(r, x, b) == table \in Users /\ Creates(r, x, b)
UpdateProfile(r, x, b) == table = "user name" /\ Renames(r, x, b)
UpdateUserByAdmin(r, x, b) == table = "user name" /\ Renames(r, x, b)
VerifyPhoneChange(r, x, b) == table = "phone" /\ nameOf[x] # Called(b) /\ Renames(r, x, b)
CreateCondition(r, x, b) == table = "condition" /\ Creates(r, x, b)
UpdateCondition(r, x, b) == table = "condition" /\ Renames(r, x, b)
CreateSize(r, x, b) == table = "size" /\ Creates(r, x, b)
UpdateSize(r, x, b) == table = "size" /\ Renames(r, x, b)
TitleProduct(r, x, b) == table = "product" /\ Creates(r, x, b)
RetitleProduct(r, x, b) == table = "product" /\ Renames(r, x, b)
NameCategory(r, x, b) == table = "category" /\ Creates(r, x, b)
RenameCategory(r, x, b) == table = "category" /\ Renames(r, x, b)

AskForName(r, x, b) ==
    \/ CreateUser(r, x, b) \/ UpdateProfile(r, x, b) \/ UpdateUserByAdmin(r, x, b)
    \/ VerifyPhoneChange(r, x, b)
    \/ CreateCondition(r, x, b) \/ UpdateCondition(r, x, b)
    \/ CreateSize(r, x, b) \/ UpdateSize(r, x, b)
    \/ TitleProduct(r, x, b) \/ RetitleProduct(r, x, b)
    \/ NameCategory(r, x, b) \/ RenameCategory(r, x, b)

\* Which rows the check finds: findUnique does not ask whether they are deleted,
\* the check of conditions and sizes does.
Finds(name) == {x \in Having(name) : table \in Labels => rowState[x] = "live"}

\* What comes between the check and the write: the code that was sent to the new
\* phone number, and a second look before a condition or size is created.
AfterCheck(x) ==
    CASE table = "phone" /\ rowState[x] # "none" -> "code"
      [] table \in Labels /\ rowState[x] = "none" -> "checking again"
      [] OTHER -> "writing"

\* A row's own name is no obstacle.  Slugs that are taken get the next number,
\* other names are refused.
CheckName(r) ==
    LET q == naming[r]
        taken == Finds(q.name) \ {q.row} # {} IN
    /\ q.at = "checking"
    /\ WriterGoes(r, IF ~taken THEN [q EXCEPT !.at = AfterCheck(q.row), !.seen = Having(q.name)]
                     ELSE IF table \in Numbered THEN [q EXCEPT !.name.number = @ + 1]
                     ELSE Resting)
    /\ RowsStay

CheckAgain(r) ==
    LET q == naming[r] IN
    /\ q.at = "checking again"
    /\ WriterGoes(r, IF Finds(q.name) = {} THEN [q EXCEPT !.at = "writing"] ELSE Resting)
    /\ RowsStay

\* verifyOtp takes the code, or refuses it.
VerifyCode(r) ==
    /\ naming[r].at = "code"
    /\ \/ WriterGoes(r, [naming[r] EXCEPT !.at = "writing"])
       \/ WriterGoes(r, Resting)
    /\ RowsStay

\* The write, by id, which the index refuses when another row has the name.
WriteName(r) ==
    LET q == naming[r]
        others == Having(q.name) \ {q.row} IN
    /\ q.at = "writing"
    /\ IF others = {}
       THEN /\ rowState' = [rowState EXCEPT ![q.row] = IF @ = "none" THEN "live" ELSE @]
            /\ nameOf' = [nameOf EXCEPT ![q.row] = q.name]
            /\ WriterGoes(r, Resting)
       ELSE /\ WriterGoes(r, [at |-> "refused",
                              by |-> IF ~ (others \subseteq q.seen) THEN "race"
                                     ELSE IF \E x \in others : rowState[x] = "deleted"
                                     THEN "deleted row" ELSE "nobody"])
            /\ UNCHANGED <<rowState, nameOf>>
    /\ UNCHANGED <<table, lateNames>>

AnswerRefusal(r) ==
    /\ naming[r].at = "refused"
    /\ WriterGoes(r, Resting)
    /\ RowsStay

-----------------------------------------------------------------------------
\* deleteUser finds the user, then writes.
DeleteNamedUser(r, x) ==
    /\ table \in Users /\ naming[r] = Resting /\ rowState[x] = "live"
    /\ WriterGoes(r, [at |-> "deleting", row |-> x])
    /\ RowsStay

FaultFreedName(x) == nameOf[x]

\* softDelete gives up the names that must be unique.
FreedName(x) == IF nameOf[x] = NoName THEN NoName ELSE Freed

SoftDeleteUser(r) ==
    LET x == naming[r].row IN
    /\ naming[r].at = "deleting"
    /\ rowState' = [rowState EXCEPT ![x] = "deleted"]
    /\ nameOf' = [nameOf EXCEPT ![x] = FreedName(x)]
    /\ lateNames' = IF Naming(x) # {} THEN lateNames \union {x} ELSE lateNames
    /\ WriterGoes(r, Resting)
    /\ UNCHANGED table

\* The rows of the other tables keep the name.
SoftDeleteRow(x) ==
    /\ table \notin Users /\ rowState[x] = "live"
    /\ rowState' = [rowState EXCEPT ![x] = "deleted"]
    /\ UNCHANGED <<table, nameOf, naming, lateNames>>

NamesNext ==
    \/ \E r \in Writer :
           \/ \E x \in Row : DeleteNamedUser(r, x) \/ \E b \in Base : AskForName(r, x, b)
           \/ CheckName(r) \/ CheckAgain(r) \/ VerifyCode(r) \/ WriteName(r)
           \/ AnswerRefusal(r) \/ SoftDeleteUser(r)
    \/ \E x \in Row : SoftDeleteRow(x)

-----------------------------------------------------------------------------
NamesTypeOK ==
    /\ table \in Tables
    /\ rowState \in [Row -> {"none", "live", "deleted"}]
    /\ nameOf \in [Row -> Name \union {NoName, Freed}]
    /\ naming \in [Writer -> NamingState]
    /\ \A x \in Row : nameOf[x] # Freed => Having(nameOf[x]) = {x} \/ nameOf[x] = NoName
    /\ lateNames \subseteq Row

\* The database refuses a name that the handler had found to be free only when
\* another handler took it meanwhile, or when it belongs to a deleted condition
\* or size; and the names of deleted users can be had again, unless a handler
\* that had found the user alive writes one to the deleted row.
NamesComeFree ==
    /\ \A r \in Writer :
           naming[r].at = "refused" =>
               naming[r].by = "race" \/ (naming[r].by = "deleted row" /\ table \in Labels)
    /\ \A x \in Row : table \in Users /\ rowState[x] = "deleted" =>
           nameOf[x] \in {NoName, Freed} \/ x \in lateNames
=============================================================================
