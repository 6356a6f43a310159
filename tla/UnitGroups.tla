----------------------------- MODULE UnitGroups -----------------------------
(***************************************************************************)
(* The groups of a registry (registry.go, extra.go): a function gs from    *)
(* the names of groups to their members and to the groups they use.  A     *)
(* group that is used need not be there.                                   *)
(***************************************************************************)
EXTENDS SequencesExt, FiniteSets

Root == "root"
EmptyGroup == [members |-> {}, using |-> << >>]

WithGroupAlone(gs, g) ==   \* mutant: root does not use the new group
  IF g \in DOMAIN gs THEN gs
  ELSE [h \in DOMAIN gs \cup {g} |-> IF h = g THEN EmptyGroup ELSE gs[h]]

\* getOrCreateGroup: every new group is used by root.
WithGroup(gs, g) ==
  IF g \in DOMAIN gs THEN gs
  ELSE [h \in DOMAIN gs \cup {g} |->
          IF h = g THEN EmptyGroup
          ELSE IF h = Root THEN [gs[h] EXCEPT !.using = Append(@, g)] ELSE gs[h]]

WithMember(gs, g, n) == [gs EXCEPT ![g].members = @ \cup {n}]

\* The groups that a depth-first walk along using comes by.
Reached(gs, start) ==
  LET visit[w \in [seen : SUBSET DOMAIN gs, todo : Seq(STRING)]] ==
        IF w.todo = << >> THEN w.seen
        ELSE LET g == Head(w.todo)
             IN  IF g \in w.seen \/ g \notin DOMAIN gs
                 THEN visit[[seen |-> w.seen, todo |-> Tail(w.todo)]]
                 ELSE visit[[seen |-> w.seen \cup {g}, todo |-> gs[g].using \o Tail(w.todo)]]
  IN  visit[[seen |-> {}, todo |-> <<start>>]]

ExpandedOnce(gs, g) ==   \* mutant: the groups that a used group uses are left out
  UNION {gs[h].members : h \in ({g} \cup ToSet(gs[g].using)) \cap DOMAIN gs}

\* Group.Expanded
Expanded(gs, g) == UNION {gs[h].members : h \in Reached(gs, g)}

WouldCycleAtOnce(gs, from, to) ==   \* mutant: only what the group uses itself
  to \in DOMAIN gs /\ from \in ToSet(gs[to].using)
WouldCycle(gs, from, to) == from \in Reached(gs, to)

\* Group.AddGroups of the names in ns: it stops at the first that would close a cycle,
\* keeps those before and makes the groups that are not there.
Include(s, g, n) ==
  IF s.refused \/ n = g \/ WouldCycle(s.groups, g, n)
  THEN [groups |-> s.groups, refused |-> TRUE]
  ELSE [groups |-> WithGroup([s.groups EXCEPT ![g].using = Append(@, n)], n), refused |-> FALSE]
AddedGroups(gs, g, ns) ==
  LET added[i \in 0..Len(ns)] == IF i = 0 THEN [groups |-> gs, refused |-> FALSE]
                                 ELSE Include(added[i - 1], g, ns[i])
  IN  added[Len(ns)].groups

-----------------------------------------------------------------------------
(* What inclusion means *)

\* Nothing leads out of the set.
Closed(gs, S) == \A g \in S : ToSet(gs[g].using) \cap DOMAIN gs \subseteq S

Includes(gs, g, h) == \A S \in SUBSET DOMAIN gs : g \in S /\ Closed(gs, S) => h \in S
=============================================================================
