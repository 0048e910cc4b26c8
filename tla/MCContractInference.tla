------------------------ MODULE MCContractInference ------------------------
(* Instances of ContractInference for TLC. *)
EXTENDS ContractInference

MCEntities == <<"app", "edge", "store">>
MCConsumers == [o \in {"edge", "store"} |-> IF o = "edge" THEN {"app"} ELSE {"edge"}]

MCArg(type, name, by) == [type |-> type, name |-> name, by |-> by]
MCRole(type, name) == [type |-> type, name |-> name]

MCStatement(form, name, target) ==
  [form |-> form, name |-> name, target |-> target, type |-> "", by |-> "declared",
   params |-> <<>>, roles |-> <<>>, rows |-> FALSE]

MCTyped(form, name, type, by) == [MCStatement(form, name, "") EXCEPT !.type = type, !.by = by]
MCGiven(form, name, target, params) == [MCStatement(form, name, target) EXCEPT !.params = params]

\* The edge owns a property, a slot, a signal and a model, and consumes the store.
MCEdgeStatements ==
  {MCTyped("property", "bid", "var", "declared"),
   MCTyped("assignment", "bid", "string", "expression"),
   MCTyped("write", "bid", "int", "literal"),
   [MCStatement("assignment", "items", "") EXCEPT !.rows = TRUE],
   [MCStatement("push", "items", "") EXCEPT !.roles = <<MCRole("var", "label")>>],
   MCGiven("function", "place", "", <<MCArg("int", "amount", "declared")>>),
   MCGiven("raise", "place", "", <<MCArg("int", "arg1", "literal")>>),
   MCGiven("emit", "rejected", "", <<MCArg("string", "arg1", "literal")>>),
   MCGiven("call", "record", "store", <<MCArg("int", "amount", "expression")>>)}

MCAppStatements ==
  {MCStatement("read", "bid", "edge"),
   [MCStatement("view", "items", "edge") EXCEPT
      !.roles = <<MCRole("string", "label"), MCRole("int", "price")>>],
   MCGiven("call", "place", "edge", <<MCArg("string", "text", "expression")>>),
   MCGiven("call", "rejected", "edge", <<>>),
   MCGiven("attached", "rejected", "edge", <<MCArg("var", "reason", "declared")>>),
   MCGiven("connections", "total", "store", <<>>),
   MCStatement("dynamic", "", "edge")}

MCStoreStatements ==
  {MCTyped("property", "total", "int", "declared"),
   MCGiven("function", "record", "", <<MCArg("var", "amount", "declared")>>)}

MCStatements == [e \in {"app", "edge", "store"} |->
                   CASE e = "app" -> MCAppStatements [] e = "edge" -> MCEdgeStatements
                     [] e = "store" -> MCStoreStatements]

MCLine(bare, kind, name, type, params) ==
  [bare |-> bare, kind |-> kind, name |-> name, type |-> type, params |-> params, roles |-> <<>>]

MCLines == [o \in {"edge", "store"} |->
              IF o = "edge"
              THEN {MCLine(TRUE, "prop", "bid", "", <<>>), MCLine(FALSE, "prop", "bid", "string", <<>>),
                    MCLine(FALSE, "slot", "place", "", <<MCRole("int", "amount")>>),
                    MCLine(FALSE, "slot", "rejected", "", <<>>)}
              ELSE {MCLine(TRUE, "slot", "record", "", <<>>)}]

\* A consumer that handles the change of a property, and one that calls a property.
MCChange == [MCStatements EXCEPT !["app"] = {MCStatement("attached", "bidChanged", "edge")},
                                 !["edge"] = {MCTyped("property", "bid", "int", "declared")}]
MCCalled == [MCChange EXCEPT !["app"] = {MCStatement("call", "bid", "edge")}]
=============================================================================
