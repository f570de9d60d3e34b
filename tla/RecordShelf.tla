---------------------------- MODULE RecordShelf ----------------------------
(***************************************************************************)
(* What the record database promises the people who record: the shelf      *)
(* holds recordings, each put there at most once; one leaves the shelf     *)
(* only when somebody who saw it on the list asked for it to be removed,   *)
(* and then it does not come back.  Rows, ids, paths and files belong to   *)
(* RecordStore.                                                            *)
(***************************************************************************)
CONSTANT Recordings

VARIABLES shelf, \* the recordings the rows of the database give access to
          meant  \* the recordings somebody has asked to remove

shelfVars == <<shelf, meant>>

ShelfInit == shelf = {} /\ meant = {}

Keep(r) == /\ r \notin shelf \cup meant
           /\ shelf' = shelf \cup {r}
           /\ UNCHANGED meant

Ask(r) == meant' = meant \cup {r} /\ UNCHANGED shelf

Discard(r) == /\ r \in shelf \cap meant
              /\ shelf' = shelf \ {r}
              /\ UNCHANGED meant

ShelfNext == \E r \in Recordings : Keep(r) \/ Ask(r) \/ Discard(r)
=============================================================================
