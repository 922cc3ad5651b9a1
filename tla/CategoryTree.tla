---------------------------- MODULE CategoryTree ----------------------------
(***************************************************************************)
(* The categories on the server, and what admins do to them with a page    *)
(* that shows an older tree, or the part of it that a keyword leaves.  A   *)
(* category is moved under any parent that its form offers; the server     *)
(* checks little more than that the parent is there, and puts the category *)
(* there later.  A deletion looks for children and products first, and     *)
(* deletes later.  Nothing is locked in between.                           *)
(***************************************************************************)
EXTENDS Integers, FiniteSets

CONSTANTS None, Categories,
          MaxForms   \* bound: forms, and handlers at work, at a time

VARIABLES parent,     \* of a category: "none" before it has a row, "gone" after
          forms,      \* the forms in which a category is open
          puts,       \* creations and moves that were checked and not written
          deletions,  \* the categories that were found without children
          bent        \* history: one of the crossings that TreeIsWhole names

vars == <<parent, forms, puts, deletions, bent>>

Live == {k \in Categories : parent[k] \notin {"none", "gone"}}
\* S and all that hangs on it, however far down.
Below(par, S) == LET level[n \in 0..Cardinality(Categories)] ==
                         IF n = 0 THEN S ELSE level[n - 1] \cup {k \in DOMAIN par : par[k] \in level[n - 1]}
                 IN level[Cardinality(Categories)]
\* fillChildren: what does not hang on the top is not shown.
Tree(par) == [k \in Below(par, {"top"}) \ {"top"} |-> par[k]]
MayStart == Cardinality(forms) + Cardinality(puts) + Cardinality(deletions) < MaxForms

-----------------------------------------------------------------------------
(* The admins' forms.                                                      *)

\* filterCategoryTree: the rows that match the keyword, and all above them.
Kept(tree, matches) == {k \in DOMAIN tree : Below(tree, {k}) \cap matches # {}}
\* collectDescendantIds, in the tree that the row is shown in.
Blocked(tree, matches, k) == {k} \cup (Below(tree, {k}) \cap Kept(tree, matches))
\* The parents that are offered are all rows of the page.  under is history: what
\* hung below the category, None when the keyword hid some of it.
OpenForm(k) == /\ MayStart /\ UNCHANGED <<parent, puts, deletions, bent>>
               /\ LET tree == Tree(parent) IN
                  \E matches \in SUBSET DOMAIN tree :
                     /\ k \in Kept(tree, matches)
                     /\ forms' = forms \cup {[edit |-> k, rows |-> DOMAIN tree,
                                             blocked |-> Blocked(tree, matches, k),
                                             under |-> IF Below(tree, {k}) \subseteq Kept(tree, matches)
                                                       THEN Below(tree, {k}) ELSE None]}
Reload(f) == /\ f.rows # DOMAIN Tree(parent) /\ UNCHANGED <<parent, puts, deletions, bent>>
             /\ forms' = (forms \ {f}) \cup {[f EXCEPT !.rows = DOMAIN Tree(parent)]}
\* Mutant: only the category itself may not become its parent.
OtherOptions(f) == ({"top"} \cup f.rows) \ {f.edit}
ParentOptions(f) == ({"top"} \cup f.rows) \ f.blocked
\* Left, or saved: its answer closes it.
CloseForm(f) == forms' = forms \ {f} /\ UNCHANGED <<parent, puts, deletions, bent>>

-----------------------------------------------------------------------------
(* The server: a handler reads, and writes later or never.                 *)

Exists(p) == p = "top" \/ p \in Live
Put(k, p) == parent' = [parent EXCEPT ![k] = p]
Work(k, p, under) == puts' = puts \cup {[edit |-> k, to |-> p, under |-> under]}

\* Any page may ask for any parent; which category it makes is open until then.
CreateReads(p) == MayStart /\ Exists(p) /\ Work(None, p, {}) /\ UNCHANGED <<parent, forms, deletions, bent>>
Accepts(k, p) == k \in Live /\ p # k /\ Exists(p)
UpdateReads(f) == /\ MayStart /\ \E p \in ParentOptions(f) : Accepts(f.edit, p) /\ Work(f.edit, p, f.under)
                  /\ UNCHANGED <<parent, forms, deletions, bent>>
\* An equal one may still be at work: nothing keeps an admin from tapping twice.
Ends(w) == puts' \in {puts, puts \ {w}} /\ UNCHANGED <<forms, deletions>>
CreateWrites(w) == /\ w.edit = None /\ UNCHANGED bent /\ Ends(w)
                   /\ \E k \in Categories : parent[k] = "none" /\ Put(k, w.to)
\* Something hangs below the category that its form did not know of.
Outdated(w) == ~(w.under # None /\ Below(parent, {w.edit}) \subseteq w.under)
\* A category that is gone stays so.
UpdateWrites(w) == /\ w.edit \in Live /\ Put(w.edit, w.to) /\ Ends(w)
                   /\ bent' = (bent \/ Outdated(w))
GiveUp(w) == puts' = puts \ {w} /\ UNCHANGED <<parent, forms, deletions, bent>>

Childless(k) == ~\E d \in Categories : parent[d] = k
DeleteReads(k) == /\ MayStart /\ k \in Live /\ Childless(k)
                  /\ deletions' = deletions \cup {k} /\ UNCHANGED <<parent, forms, puts, bent>>
DeleteWrites(k) == /\ Put(k, "gone") /\ deletions' = deletions \ {k} /\ UNCHANGED <<forms, puts>>
                   /\ bent' = (bent \/ ~Childless(k) \/ \E w \in puts : w.to = k)
Drop(k) == deletions' = deletions \ {k} /\ UNCHANGED <<parent, forms, puts, bent>>

-----------------------------------------------------------------------------
Init == /\ parent \in [Categories -> Categories \cup {"top", "none"}] /\ DOMAIN Tree(parent) = Live
        /\ forms = {} /\ puts = {} /\ deletions = {} /\ bent = FALSE

Next == \/ \E k \in Categories : OpenForm(k) \/ DeleteReads(k)
        \/ \E p \in Categories \cup {"top"} : CreateReads(p)
        \/ \E f \in forms : Reload(f) \/ CloseForm(f) \/ UpdateReads(f)
        \/ \E w \in puts : CreateWrites(w) \/ UpdateWrites(w) \/ GiveUp(w)
        \/ \E k \in deletions : DeleteWrites(k) \/ Drop(k)
Spec == Init /\ [][Next]_vars

-----------------------------------------------------------------------------
TypeOK == /\ parent \in [Categories -> Categories \cup {"top", "none", "gone"}]
          /\ deletions \subseteq Categories /\ \A f \in forms : f.edit \in Categories
          /\ \A w \in puts : w.edit \in Categories \cup {None} /\ w.to \in Categories \cup {"top"}

\* Every category hangs on the top and can be seen and repaired, whatever forms,
\* creations, moves and deletions cross (CategoryService), with two exceptions.
\* A category was moved while something hung below it that its form did not
\* block: it came there after the form was opened, or the page's keyword hid it.
\* Or a category was deleted while something hung below it by then, or was being
\* put there by a handler that had found it.
TreeIsWhole == bent \/ DOMAIN Tree(parent) = Live
=============================================================================
