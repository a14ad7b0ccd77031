----------------------------- MODULE ResultLog -----------------------------
(***************************************************************************)
(* What the commit gate promises its clients (src/fabric_commit.cpp,       *)
(* README: "commits exactly one authoritative logical result"): executions *)
(* are numbered by <<ensemble generation, execution id>> and only the      *)
(* current one may be decided; it is decided at most once, either by       *)
(* publishing a result or by cancellation, never by both; what was         *)
(* published or cancelled stays so.                                        *)
(***************************************************************************)
EXTENDS Integers

VARIABLES current,     \* the key of the current execution
          published,   \* the results handed out
          dead         \* the keys of the cancelled executions

KeyOf(r) == <<r.generation, r.execution>>

Precedes(k, l) == k[1] < l[1] \/ (k[1] = l[1] /\ k[2] < l[2])

Undecided(k) == k \notin dead /\ \A r \in published : KeyOf(r) # k

Init == current = <<0, 0>> /\ published = {} /\ dead = {}

\* A redefinition or a new execution moves on; there is no way back.
Open == Precedes(current, current') /\ UNCHANGED <<published, dead>>

Publish ==
    \E r \in published' :
        /\ KeyOf(r) = current
        /\ Undecided(current)
        /\ published' = published \cup {r}
        /\ UNCHANGED <<current, dead>>

Cancel ==
    /\ \A r \in published : KeyOf(r) # current
    /\ dead' = dead \cup {current}
    /\ UNCHANGED <<current, published>>

Next == Open \/ Publish \/ Cancel

Spec == Init /\ [][Next]_<<current, published, dead>>
=============================================================================
