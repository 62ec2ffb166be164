----------------------------- MODULE Retention -----------------------------
(***************************************************************************)
(* The retention manager ManageHistory (hist_srv/ManageHistory.go): the    *)
(* rule set that decides which values AddHistory persists.                 *)
(*                                                                         *)
(* A RetentionRuleSet maps a name (Empty = any name) to an ordered list of *)
(* rules; a rule matches a value when its AgentID and ThingID are Empty or *)
(* equal to the value's.  The set is replaced wholesale by                 *)
(* SetRetentionRules (the ManageHistory RPC capability).                   *)
(***************************************************************************)
EXTENDS HistoryTypes, Sequences

CONSTANTS
  RuleSets,   \* the rule sets an administrator can send to SetRetentionRules
  NoRule      \* the nil *RetentionRule

VARIABLE rules

LOCAL SeqX == INSTANCE SequencesExt

\* histapi.RetentionRule.
RetentionRule ==
  [name: Names \cup {Empty}, agent: Agents \cup {Empty},
   thing: ThingIDs \cup {Empty}, retain: BOOLEAN]

IsRuleSet(rs) ==
  /\ DOMAIN rs \subseteq Names \cup {Empty}
  /\ \A k \in DOMAIN rs : \A i \in DOMAIN rs[k] : rs[k][i] \in RetentionRule

\* The condition of both loops of _FindFirstRule.
Matches(rule, tv) ==
  /\ rule.agent \in {Empty, tv.agent}
  /\ rule.thing \in {Empty, tv.thing}

\* The first rule of the list rs[k] that matches tv, or NoRule.
FirstMatch(rs, k, tv) ==
  IF k \notin DOMAIN rs THEN NoRule
  ELSE LET i == SeqX!SelectInSeq(rs[k], LAMBDA rule : Matches(rule, tv))
       IN IF i = 0 THEN NoRule ELSE rs[k][i]

\* _FindFirstRule: rules for the exact name take precedence over the rules
\* for any name; within a list the first match wins.
FindFirstRule(rs, tv) ==
  IF FirstMatch(rs, tv.name, tv) # NoRule THEN FirstMatch(rs, tv.name, tv)
  ELSE FirstMatch(rs, Empty, tv)

\* _IsRetained: an empty map retains everything; otherwise a value without
\* a matching rule is dropped.
IsRetained(rs, tv) ==
  IF DOMAIN rs = {} THEN TRUE
  ELSE LET rule == FindFirstRule(rs, tv)
       IN rule # NoRule /\ rule.retain

\* SetRetentionRules: re-stamp each rule's name with its map key, then
\* replace the rule set.
Restamp(rs) == [k \in DOMAIN rs |-> [i \in DOMAIN rs[k] |-> [rs[k][i] EXCEPT !.name = k]]]

SetRetentionRules(rs) == rules' = Restamp(rs)

\* NewManageHistory(hc, nil): HistoryService.Start passes no default rules.
RetentionInit == rules = [k \in {} |-> <<>>]

\* The retention manager alone: administrators replacing the rule set.
RetentionNext == \E rs \in RuleSets : SetRetentionRules(rs)

RetentionSpec == RetentionInit /\ [][RetentionNext]_rules

\* The number of rules in a rule set (SetRetentionRules counts them for its
\* log line only).
RuleCount(rs) == Cardinality(UNION {{<<k, i>> : i \in DOMAIN rs[k]} : k \in DOMAIN rs})

\* Every valid value a publisher can send.
ValidValues == [agent: Agents, thing: ThingIDs, name: Names, ts: Times, data: Datas]

\* The spec's default-allow: while the rule set holds no rule at all, every
\* valid value is retained (_IsRetained tests the map's size, not the
\* number of rules).
NoRulesRetainAll ==
  RuleCount(rules) = 0 => \A tv \in ValidValues : IsRetained(rules, tv)
=============================================================================
