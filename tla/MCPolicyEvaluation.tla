-------------------------- MODULE MCPolicyEvaluation --------------------------
(* Instances of PolicyEvaluation for TLC.                                   *)
EXTENDS PolicyEvaluation

CONSTANTS doc, card, folder, alice, friends, read, write, modify, purpose, fruit,
          research, app, apple, garden

On(asset, action, assignees, type) ==
  [targets |-> {asset}, actions |-> {action}, assignees |-> assignees,
   types |-> {type}, constraints |-> {}, credentials |-> {}]

Only(rule, operand, operator, value) ==
  [rule EXCEPT !.constraints =
     @ \cup {[operand |-> operand, operator |-> operator, value |-> value]}]

WithCredential(rule, operator) ==
  [rule EXCEPT !.credentials =
     {[operand |-> fruit, operator |-> operator, value |-> apple, type |-> garden]}]

\* One rule of each kind the code tells apart.
MCRules == {
  On(folder, read, {friends}, "permission"),
  On(doc, modify, {}, "permission"),
  Only(On(doc, read, {alice}, "prohibition"), "deliveryChannel", "eq", app),
  Only(Only(On(folder, write, {Anonymous}, "prohibition"), "dateTime", "gteq", 1),
       purpose, "eq", research),
  Only(On(doc, write, {alice}, "prohibition"), "deliveryChannel", "neq", app),
  WithCredential(On(doc, read, {}, "permission"), "eq"),
  WithCredential(On(doc, read, {}, "prohibition"), "neq"),
  Only(On(doc, read, {friends}, "permission"), purpose, "missing", research),
  On(doc, write, {alice}, "obligation")}

MCMemberships == {<<doc, folder>>, <<alice, friends>>}

Hers == [NoClaims EXCEPT !.webids = {alice}]
MCClaims == {
  NoClaims, Hers,
  [Hers EXCEPT !.values = {<<"deliveryChannel", app>>, <<purpose, research>>}],
  [NoClaims EXCEPT !.vcs = {[says |-> {<<fruit, apple>>}, types |-> {garden}]}],
  [Hers EXCEPT !.vcs = {[says |-> {<<fruit, apple>>}, types |-> {}]}]}

Read(resource) == [resource |-> resource, scope |-> read]
MCQueries ==
  {{Read(doc)}, {Read(doc), [resource |-> doc, scope |-> write], Read(card)}}
=============================================================================
