------------------------------ MODULE NrtStore ------------------------------
(***************************************************************************)
(* What NrtIndex (src/py/nrt/index.py) promises its callers, with no       *)
(* segments, locks, threads or files: documents are added, become visible  *)
(* together with everything else that is pending, and stay visible; an     *)
(* external id that is deleted stays deleted; a search reads what is       *)
(* visible and what is deleted at one instant between its call and its     *)
(* return.                                                                 *)
(***************************************************************************)
EXTENDS Naturals, Sequences

CONSTANTS Ids, Readers, InitLog

VARIABLES
    log,      \* external id of every document added
    pending,  \* documents added and not yet visible
    visible,  \* documents a search can return
    deleted,  \* external ids a search must not return
    asking,   \* readers that called search() and have not read the store
    view      \* what each reader read: visible documents and deleted ids

vars == <<log, pending, visible, deleted, asking, view>>

Unread == [docs |-> {}, deleted |-> {}]

Init ==
    /\ log = InitLog
    /\ pending = {}
    /\ visible = 1..Len(InitLog)
    /\ deleted = {}
    /\ asking = {}
    /\ view = [r \in Readers |-> Unread]

Add(id) ==
    /\ log' = Append(log, id)
    /\ pending' = pending \cup {Len(log) + 1}
    /\ UNCHANGED <<visible, deleted, asking, view>>

\* All that is pending becomes visible in one step.
Publish ==
    /\ pending # {}
    /\ visible' = visible \cup pending
    /\ pending' = {}
    /\ UNCHANGED <<log, deleted, asking, view>>

Delete(id) ==
    /\ deleted' = deleted \cup {id}
    /\ UNCHANGED <<log, pending, visible, asking, view>>

Ask(r) ==
    /\ r \notin asking
    /\ asking' = asking \cup {r}
    /\ view' = [view EXCEPT ![r] = Unread]
    /\ UNCHANGED <<log, pending, visible, deleted>>

Read(r) ==
    /\ r \in asking
    /\ asking' = asking \ {r}
    /\ view' = [view EXCEPT ![r] = [docs |-> visible, deleted |-> deleted]]
    /\ UNCHANGED <<log, pending, visible, deleted>>

Next ==
    \/ \E id \in Ids : Add(id) \/ Delete(id)
    \/ Publish
    \/ \E r \in Readers : Ask(r) \/ Read(r)

Spec == Init /\ [][Next]_vars
=============================================================================
