---------------------------- MODULE TagIterator -----------------------------
(***************************************************************************)
(* The iterator of a handle, mp4tag_iterate_init and mp4tag_iterate, while *)
(* the list it walks is changed by the calls of TagList.                   *)
(***************************************************************************)
EXTENDS TagList

VARIABLES
  iterator,   \* libmp4tag->iterator
  returned,   \* what mp4tag_iterate has returned last
  visited,    \* the entries returned since the iterator was set to its start
  repeated,   \* how many of them had been returned before
  removed,    \* how many entries the list has lost and gained since then
  added,
  distinct    \* no two entries were the same since then

history == <<visited, repeated, removed, added, distinct>>
ivars == <<vars, iterator, returned, history>>

Key(e)  == <<e.tag, e.dataidx>>
Keys(s) == {Key(s[i]) : i \in DOMAIN s}

\* The iteration starts with the list s.
Fresh(s) ==
  /\ visited' = {} /\ repeated' = 0
  /\ removed' = 0 /\ added' = 0
  /\ distinct' = Distinct(s)

IterInit ==
  /\ Init
  /\ iterator = 0 /\ returned = "none"
  /\ visited = {} /\ repeated = 0 /\ removed = 0 /\ added = 0 /\ distinct = TRUE

IterateInit ==
  /\ open
  /\ iterator' = 0 /\ returned' = "none"
  /\ Fresh(tags)
  /\ UNCHANGED vars

\* Mutant: the last tag is not returned.
IterateShort ==
  /\ Look
  /\ IF ~ present
     THEN mp4error' = "NO_TAGS" /\ UNCHANGED <<iterator, returned, history>>
     ELSE /\ mp4error' = "OK"
          /\ IF iterator + 1 >= Len(tags)
             THEN returned' = "finish" /\ UNCHANGED <<iterator, history>>
             ELSE /\ returned' = "tag" /\ iterator' = iterator + 1
                  /\ visited' = visited \cup {Key(tags[At(iterator)])}
                  /\ UNCHANGED <<repeated, removed, added, distinct>>

Iterate ==
  /\ Look
  /\ IF ~ present
     THEN mp4error' = "NO_TAGS" /\ UNCHANGED <<iterator, returned, history>>
     ELSE /\ mp4error' = "OK"
          /\ IF iterator >= Len(tags)
             THEN returned' = "finish" /\ UNCHANGED <<iterator, history>>
             ELSE LET key == Key(tags[At(iterator)])
                  IN /\ returned' = "tag" /\ iterator' = iterator + 1
                     /\ visited' = visited \cup {key}
                     /\ repeated' = repeated + (IF key \in visited THEN 1 ELSE 0)
                     /\ UNCHANGED <<removed, added, distinct>>

\* Mutant: the iterator is set to its start when the list changes.
CallResets ==
  /\ Next
  /\ IF open' /\ ~ open
     THEN iterator' = 0 /\ returned' = "none" /\ Fresh(tags')
     ELSE /\ removed' = removed + Cardinality(Keys(tags) \ Keys(tags'))
          /\ added' = added + Cardinality(Keys(tags') \ Keys(tags))
          /\ distinct' = (distinct /\ Distinct(tags'))
          /\ returned' = IF UNCHANGED list THEN returned ELSE "none"
          /\ iterator' = IF UNCHANGED tags THEN iterator ELSE 0
          /\ UNCHANGED <<visited, repeated>>

\* The other calls.  Only a new handle sets the iterator.
Call ==
  /\ Next
  /\ IF open' /\ ~ open
     THEN iterator' = 0 /\ returned' = "none" /\ Fresh(tags')
     ELSE /\ removed' = removed + Cardinality(Keys(tags) \ Keys(tags'))
          /\ added' = added + Cardinality(Keys(tags') \ Keys(tags))
          /\ distinct' = (distinct /\ Distinct(tags'))
          /\ returned' = IF UNCHANGED list THEN returned ELSE "none"
          /\ UNCHANGED <<iterator, visited, repeated>>

IterNext == IterateInit \/ Iterate \/ Call

IterSpec == IterInit /\ [][IterNext]_ivars

-----------------------------------------------------------------------------
(* Properties.                                                             *)

\* An iteration that has ended has returned every tag of the list, save one
\* for each tag that was added or removed on the way.  In particular a loop
\* that only replaces values sees all of them, and one that deletes the tag it
\* has just got misses a tag for each.
MissesOnlyChanged ==
  returned = "finish" /\ distinct => Cardinality(Keys(tags) \ visited) <= removed + added

\* A tag is returned a second time only when another was added before it.
RepeatsOnlyAdded == distinct => repeated <= added
=============================================================================
