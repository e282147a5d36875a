----------------------------- MODULE SavedViews -----------------------------
(***************************************************************************)
(* The default among the saved views of a page.  A page stands for a pair  *)
(* of route_path and view_type, neither of which can be edited.  Requests  *)
(* run in sessions of their own, which lock only the rows that they write; *)
(* an UPDATE that has to wait for a row is taken to begin when the row is  *)
(* free.                                                                   *)
(***************************************************************************)
EXTENDS Naturals, FiniteSets

CONSTANTS Views, PageOf, Sessions

Pages == {PageOf[v] : v \in Views}

VARIABLES
  default,  \* the views that are there, and whether each is its page's default
  session,  \* requests under way: the view, what was loaded, what was written
  chosen,   \* history: the view that the last choice for a page made the default
  raced     \* history: pages for which two choices overlapped

vars == <<default, session, chosen, raced>>

Idle == [at |-> "idle"]

TypeOK ==
  /\ default \in [Views -> {"absent", "plain", "default", "deleted"}]
  /\ \A s \in Sessions :
       /\ session[s].at \in {"idle", "asked", "loaded", "cleared"}
       /\ session[s] # Idle => session[s].view \in Views
  /\ chosen \in [Pages -> SUBSET Views] /\ raced \subseteq Pages

Init ==
  /\ default = [v \in Views |-> "absent"]
  /\ session = [s \in Sessions |-> Idle]
  /\ chosen = [p \in Pages |-> {}] /\ raced = {}

-----------------------------------------------------------------------------
Stored == {v \in Views : default[v] \in {"plain", "default"}}
On(p) == {v \in Views : PageOf[v] = p}
Defaults(p) == {v \in On(p) : default[v] = "default"}
Busy(p) == {s \in Sessions : session[s] # Idle /\ PageOf[session[s].view] = p}

\* Rows that an open transaction has written.
Locked == UNION {IF session[s].at = "cleared" THEN session[s].wrote ELSE {} : s \in Sessions}

\* A request on page p overlaps another one that chooses for it.
Race(p, others) == raced' = IF others # {} THEN raced \union {p} ELSE raced

\* create_saved_view commits the view without the flag; if it is to be the
\* default, that is a transaction of its own.
Create(s, v, make) ==
  /\ session[s] = Idle /\ default[v] = "absent"
  /\ default' = [default EXCEPT ![v] = "plain"]
  /\ session' = IF make THEN [session EXCEPT ![s] = [at |-> "asked", view |-> v]] ELSE session
  /\ IF make THEN Race(PageOf[v], Busy(PageOf[v])) ELSE UNCHANGED raced
  /\ UNCHANGED chosen

\* set_default_saved_view, also as the second step of update_saved_view.
Ask(s, v) ==
  /\ session[s] = Idle /\ v \in Stored
  /\ session' = [session EXCEPT ![s] = [at |-> "asked", view |-> v]]
  /\ Race(PageOf[v], Busy(PageOf[v]))
  /\ UNCHANGED <<default, chosen>>

Load(s) ==
  /\ session[s].at = "asked"
  /\ session' = [session EXCEPT ![s] =
       IF @.view \in Stored THEN [at |-> "loaded", view |-> @.view, was |-> default[@.view] = "default"]
       ELSE Idle]                                                     \* 404
  /\ UNCHANGED <<default, chosen, raced>>

\* Mutant: the page's other default keeps its flag.
Others_Of(v) == {}

\* The bulk UPDATE of the page's other default.
Others(v) == Defaults(PageOf[v]) \ {v}

ClearOthers(s) ==
  LET v == session[s].view IN
  /\ session[s].at = "loaded" /\ Others(v) \intersect Locked = {}
  /\ session' = [session EXCEPT ![s] =
       [at |-> "cleared", view |-> v, was |-> @.was, wrote |-> Others(v)]]
  /\ UNCHANGED <<default, chosen, raced>>

\* The ORM writes the view's flag only if it was loaded without; a view that
\* is gone makes the UPDATE of one row fail.
Commit(s) ==
  LET v == session[s].view
      writes == ~session[s].was IN
  /\ session[s].at = "cleared"
  /\ writes => v \notin Locked
  /\ IF writes /\ v \notin Stored
     THEN UNCHANGED <<default, chosen>>
     ELSE /\ default' = [w \in Views |->
                IF w = v /\ writes THEN "default"
                ELSE IF w \in session[s].wrote THEN "plain" ELSE default[w]]
          /\ chosen' = [chosen EXCEPT ![PageOf[v]] = {v} \intersect Stored]
  /\ session' = [session EXCEPT ![s] = Idle]
  /\ UNCHANGED raced

\* The session ends early: the process dies.
Abort(s) ==
  /\ session[s] # Idle
  /\ session' = [session EXCEPT ![s] = Idle]
  /\ UNCHANGED <<default, chosen, raced>>

\* update_saved_view with is_default = false.
Unset(v) ==
  /\ v \in Stored \ Locked
  /\ default' = [default EXCEPT ![v] = "plain"]
  /\ chosen' = [chosen EXCEPT ![PageOf[v]] = @ \ {v}]
  /\ Race(PageOf[v], Busy(PageOf[v]))
  /\ UNCHANGED session

\* clear_default_saved_view.
Clear(p) ==
  /\ Defaults(p) \intersect Locked = {}
  /\ default' = [v \in Views |-> IF v \in Defaults(p) THEN "plain" ELSE default[v]]
  /\ chosen' = [chosen EXCEPT ![p] = {}]
  /\ Race(p, Busy(p))
  /\ UNCHANGED session

Delete(v) ==
  /\ v \in Stored \ Locked
  /\ default' = [default EXCEPT ![v] = "deleted"]
  /\ chosen' = [chosen EXCEPT ![PageOf[v]] = @ \ {v}]
  /\ UNCHANGED <<session, raced>>

Next ==
  \/ \E s \in Sessions :
       \/ \E v \in Views : Ask(s, v) \/ \E make \in BOOLEAN : Create(s, v, make)
       \/ Load(s) \/ ClearOthers(s) \/ Commit(s) \/ Abort(s)
  \/ \E v \in Views : Unset(v) \/ Delete(v)
  \/ \E p \in Pages : Clear(p)

Spec == Init /\ [][Next]_vars

-----------------------------------------------------------------------------
(***************************************************************************)
(* Properties                                                              *)
(***************************************************************************)

\* A page has the default that was chosen last and no other ("Only one
\* default saved view per (route_path, view_type)"), unless two choices for
\* it overlapped: no constraint forbids two, and a view that was loaded as
\* the default is not written again.
DefaultIsChosen == \A p \in Pages \ raced : Defaults(p) = chosen[p]
=============================================================================
