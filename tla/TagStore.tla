------------------------------ MODULE TagStore ------------------------------
(***************************************************************************)
(* What the calls on tags promise, without the array, its order and its    *)
(* indexes: a handle holds a bag of tags, each a name and a content.  A    *)
(* call replaces, adds or removes one tag; the file takes the bag over on  *)
(* a write, save the tags that are never written, and gives it back        *)
(* unchanged when it is read again.  Of a bag with several values of one   *)
(* name, the file only holds all of them if they are of the right types:   *)
(* of other bags nothing is promised after a write.                        *)
(***************************************************************************)
EXTENDS BagsExt, Bags

CONSTANT NotWritten  \* the names of the tags that are never written

VARIABLES
  stored,  \* the bag of the tags in the file
  held,    \* the bag of the tags of the handle
  kept,    \* the preserved bags: none or one
  opened,  \* a handle is open
  sound    \* what is held can be written: several values of a name are of the
           \* right types; it goes with the bag and is read by Write alone

vars == <<stored, held, kept, opened>>

Init == IsABag(stored) /\ held = EmptyBag /\ kept = {} /\ ~ opened

Open  == ~ opened /\ opened' /\ held' = stored /\ UNCHANGED <<stored, kept>>
Close == opened /\ ~ opened' /\ held' = EmptyBag /\ UNCHANGED <<stored, kept>>

OtherProgram == ~ opened /\ IsABag(stored') /\ UNCHANGED <<held, kept, opened>>

Add    == \E t \in BagToSet(held') : held' = BagAdd(held, t)
Remove == \E t \in BagToSet(held) : held' = BagRemove(held, t)

\* A tag keeps its type; a cover changes its image or its
\* name, not both.
Replace ==
  \E t \in BagToSet(held), u \in BagToSet(held') :
    /\ held' = BagAdd(BagRemove(held, t), u)
    /\ t.name = u.name /\ t.type = u.type
    /\ t.data = u.data \/ t.covername = u.covername

Change ==
  /\ opened
  /\ Add \/ Remove \/ Replace \/ held' = EmptyBag
  /\ UNCHANGED <<stored, kept, opened>>

Writable(bag) ==
  [t \in {u \in BagToSet(bag) : u.name \notin NotWritten} |-> bag[t]]

Write ==
  /\ opened
  /\ IF sound THEN stored' = Writable(held) ELSE IsABag(stored')
  /\ UNCHANGED <<held, kept, opened>>

Preserve == opened /\ kept' = {held} /\ UNCHANGED <<stored, held, opened>>
Restore  == opened /\ kept = {held'} /\ UNCHANGED <<stored, kept, opened>>

Next == Open \/ Close \/ OtherProgram \/ Change \/ Write \/ Preserve \/ Restore

Spec == Init /\ [][Next]_vars
=============================================================================
