--------------------------- MODULE MCApiOperations ---------------------------
(***************************************************************************)
(* An instance of ApiOperations for TLC: retries and clashes of keys,      *)
(* resets and reloads, and lists that are walked while objects come and go.*)
(***************************************************************************)
EXTENDS ApiOperations, TLC

CONSTANTS k1, k2

Ask(via, op, id, expect, key) ==
  [via |-> via, op |-> op, id |-> id, expect |-> expect, key |-> key]

All == {"read", "write"}

Retries ==
  [inputs |-> {Ask("rest", "create", 1, AnyRevision, k1), Ask("mcp", "create", 2, AnyRevision, k1),
               Ask("rest", "create", 1, AnyRevision, k2), Ask("mcp", "delete", 1, AnyRevision, k2)},
   pagers |-> {}, files |-> {{}}, grant |-> All,
   tokens |-> [scopes : {All}, usable : BOOLEAN]]

Resets ==
  [inputs |-> {Ask("rest", "reset", 0, 1, k1), Ask("mcp", "reload", 0, AnyRevision, k1),
               Ask("rest", "update", 1, AnyRevision, NoKey), Ask("rest", "get", 1, AnyRevision, NoKey)},
   pagers |-> {}, files |-> {{}, {1}}, grant |-> All,
   tokens |-> [scopes : {{"read"}}, usable : {TRUE}]]

Lists ==
  [inputs |-> {Ask("mcp", "create", 2, AnyRevision, NoKey), Ask("mcp", "delete", 1, AnyRevision, NoKey),
               Ask("rest", "delete", 3, AnyRevision, NoKey)},
   pagers |-> Pagers, files |-> {{1, 3}}, grant |-> All, tokens |-> {}]

MCScenes == {Retries, Resets, Lists}

=============================================================================
