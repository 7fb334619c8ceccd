------------------------------ MODULE UserProfile ------------------------------
(***************************************************************************)
(* The profile of one user (services/profile_service.py) and the requests  *)
(* on it: a turn's update, GET, PATCH and DELETE, each with a session of   *)
(* its own.  The profile is one JSON column: read, merged in memory and    *)
(* written back whole, with other calls in between.                        *)
(*                                                                         *)
(* The database (external) runs a statement at a time; what a session has  *)
(* let go of is read anew.  A closed session forgets the rows it has read: *)
(* a change of one is written by no commit.  Deleting the row with the     *)
(* highest key frees the key for the next one.                             *)
(*                                                                         *)
(* _merge_delta() goes through the document key by key, so one key of it   *)
(* stands for all: a list, which keeps its last 50 entries (Cap), or a     *)
(* plain value, which a new one replaces: Cap is 1.                        *)
(***************************************************************************)
EXTENDS Naturals, Sequences

CONSTANTS Call,    \* calls that read or change the profile
          Signal,  \* what may be stored: a topic, a goal, a response length
          Cap,     \* how many entries the key holds
          Deltas,  \* what a call may add to it, each entry once
          Key,     \* keys that a new row may get
          Kinds    \* which calls are made at the same time

ProfileAssumption ==
    /\ Key \subseteq Nat \ {0} /\ Kinds \subseteq [Call -> {"turn", "get", "patch", "reset"}]
    /\ Cap \in Nat \ {0}
    /\ Deltas \subseteq Seq(Signal) /\ \A d \in Deltas : Len(d) <= Cap

NoRow == [key |-> 0, entries |-> <<>>, turns |-> 0, recent |-> FALSE]
Nothing == [new |-> <<>>, replaces |-> FALSE, turns |-> 0]
Stored(r) == {r.entries[i] : i \in DOMAIN r.entries}

VARIABLES
    row,   \* the user's row, or NoRow; recent: written less than _UPDATE_COOLDOWN ago
    kind,  \* kind[c]: a turn's update, a GET, PATCH or DELETE
    at,    \* at[c]: where the call is
    copy,  \* copy[c]: the row as c's session read it
    delta, \* delta[c]: what c merges into its copy of the profile
    bound, \* bound[c]: does c's session still know the row?
    seen   \* history: the entries stored ever since c began

profileVars == <<row, kind, at, copy, delta, bound, seen>>

Init ==
    /\ row = NoRow
    /\ kind \in Kinds
    /\ at = [c \in Call |-> "idle"]
    /\ copy = [c \in Call |-> NoRow]
    /\ delta = [c \in Call |-> Nothing]
    /\ bound = [c \in Call |-> TRUE]
    /\ seen = [c \in Call |-> {}]

Go(c, from, to) == at[c] = from /\ at' = [at EXCEPT ![c] = to]

-----------------------------------------------------------------------------
(* Reading and creating *)

Begin(c) ==
    /\ Go(c, "idle", IF kind[c] = "reset" THEN "delete" ELSE "select")
    /\ seen' = [seen EXCEPT ![c] = Stored(row)]
    /\ UNCHANGED <<row, kind, copy, delta, bound>>

\* _get_row(): a GET is done with the row; a turn or a patch that finds none
\* goes through get_or_create(), which looks again.
Select(c) ==
    /\ IF row = NoRow
       THEN Go(c, "select", IF kind[c] = "get" THEN "insert" ELSE "create")
       ELSE Go(c, "select", IF kind[c] = "get" THEN "done" ELSE "merge")
    /\ copy' = [copy EXCEPT ![c] = row]
    /\ UNCHANGED <<row, kind, delta, bound, seen>>

Create(c) ==
    /\ Go(c, "create", IF row = NoRow THEN "insert" ELSE "reselect")
    /\ UNCHANGED <<row, kind, copy, delta, bound, seen>>

\* The user's id is unique: the second of two inserts is an error.
Insert(c) ==
    /\ IF row # NoRow
       THEN Go(c, "insert", "failed") /\ UNCHANGED row
       ELSE /\ Go(c, "insert", IF kind[c] = "get" THEN "done" ELSE "reselect")
            /\ \E k \in Key : row' = [key |-> k, entries |-> <<>>, turns |-> 0, recent |-> TRUE]
    /\ UNCHANGED <<kind, copy, delta, bound, seen>>

\* The row after get_or_create(): None again when a reset came in between.
Reselect(c) ==
    /\ Go(c, "reselect", IF row = NoRow THEN "failed" ELSE "merge")
    /\ copy' = [copy EXCEPT ![c] = row]
    /\ UNCHANGED <<row, kind, delta, bound, seen>>

-----------------------------------------------------------------------------
(* Merging and writing *)

Newest(q, n) == IF Len(q) <= n THEN q ELSE SubSeq(q, Len(q) - n + 1, Len(q))

\* Mutant of Merged: only what is new is kept.
MergedAlone(r, d) == [r EXCEPT !.entries = d.new, !.turns = @ + d.turns]

\* What is new comes last; of a type that the key does not hold, it replaces all.
Merged(r, d) ==
    [r EXCEPT !.entries = IF d.replaces THEN d.new ELSE Newest(@ \o d.new, Cap),
              !.turns = @ + d.turns]

\* The deltas that add to a row, of which what it has already is left out, and
\* those that replace what it has.
DeltasOn(r, turns) ==
    {[new |-> q, replaces |-> FALSE, turns |-> turns] :
         q \in {d \in Deltas : \A i \in DOMAIN d : d[i] \notin Stored(r)}}
    \cup {[new |-> q, replaces |-> TRUE, turns |-> turns] : q \in Deltas \ {<<>>}}

\* A turn within the cooldown only looks for keywords, which set a plain value.
Keywords(d) == ~d.replaces /\ (Cap = 1 \/ d.new = <<>>)

\* A patch, or such a turn; a column that stays as it was is not written.
MergeAtOnce(c) ==
    /\ kind[c] = "patch" \/ copy[c].recent
    /\ \E d \in DeltasOn(copy[c], 0) :
        /\ kind[c] = "patch" \/ Keywords(d)
        /\ delta' = [delta EXCEPT ![c] = d]
        /\ Go(c, "merge", IF Merged(copy[c], d) = copy[c] THEN "touch" ELSE "persist")
    /\ UNCHANGED <<row, kind, copy, bound, seen>>

Ask(c) ==
    /\ kind[c] = "turn" /\ ~copy[c].recent
    /\ Go(c, "merge", "asking")
    /\ UNCHANGED <<row, kind, copy, delta, bound, seen>>

\* The provider answers with a delta, or fails and the keywords are looked for.
Answer(c) ==
    /\ Go(c, "asking", "persist")
    /\ \E d \in DeltasOn(copy[c], 1) : delta' = [delta EXCEPT ![c] = d]
    /\ UNCHANGED <<row, kind, copy, bound, seen>>

\* The chat request has ended; its session is closed under the update.
CloseSession(c) ==
    /\ at[c] = "asking" /\ bound[c]
    /\ bound' = [bound EXCEPT ![c] = FALSE]
    /\ UNCHANGED <<row, kind, at, copy, delta, seen>>

\* _persist(): the columns that differ from what was read go to the row of
\* that key, the time of the update always.  No such row is a StaleDataError.
Persist(c) ==
    /\ IF bound[c] /\ row.key # copy[c].key
       THEN Go(c, "persist", "failed") /\ UNCHANGED row
       ELSE /\ Go(c, "persist", "done")
            /\ row' = IF bound[c] THEN [Merged(copy[c], delta[c]) EXCEPT !.recent = TRUE] ELSE row
    /\ seen' = [d \in Call |-> seen[d] \cap Stored(row')]
    /\ UNCHANGED <<kind, copy, delta, bound>>

Touch(c) ==
    /\ IF row.key # copy[c].key
       THEN Go(c, "touch", "failed") /\ UNCHANGED row
       ELSE Go(c, "touch", "done") /\ row' = [row EXCEPT !.recent = TRUE]
    /\ UNCHANGED <<kind, copy, delta, bound, seen>>

Reset(c) ==
    /\ Go(c, "delete", "done")
    /\ row' = NoRow
    /\ seen' = [d \in Call |-> {}]
    /\ UNCHANGED <<kind, copy, delta, bound>>

\* _UPDATE_COOLDOWN passes without a write.
Cool ==
    /\ row.recent
    /\ row' = [row EXCEPT !.recent = FALSE]
    /\ UNCHANGED <<kind, at, copy, delta, bound, seen>>

Next ==
    \/ Cool
    \/ \E c \in Call :
        \/ Begin(c) \/ Select(c) \/ Create(c) \/ Insert(c) \/ Reselect(c)
        \/ MergeAtOnce(c) \/ Ask(c) \/ Answer(c) \/ CloseSession(c)
        \/ Persist(c) \/ Touch(c) \/ Reset(c)

Spec == Init /\ [][Next]_profileVars

-----------------------------------------------------------------------------
(* Properties *)

\* An entry that c read is pushed out by the later ones and those that c adds.
PushedOut(c, s) ==
    \E i \in DOMAIN copy[c].entries :
        copy[c].entries[i] = s /\ Len(copy[c].entries) - i + Len(delta[c].new) >= Cap

\* An entry leaves a profile that stays there by the write of a call only, and
\* then the call had begun before the entry was stored, or its own delta
\* replaces the entry or pushes it out.  So calls that do not overlap take
\* nothing away but what they mean to.
LossNeedsOverlap ==
    [][row' # NoRow =>
        \A s \in Stored(row) \ Stored(row') :
            \E c \in Call :
                /\ at[c] = "persist" /\ at'[c] = "done"
                /\ s \notin seen[c] \/ delta[c].replaces \/ PushedOut(c, s)]_profileVars
=============================================================================
