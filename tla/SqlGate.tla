------------------------------- MODULE SqlGate -------------------------------
(***************************************************************************)
(* classify, the check in front of the workspace.  The parser's output is  *)
(* reduced to what classify looks at: a text is blank, or makes the parser *)
(* or its tokenizer raise, or parses to a sequence of statements and gaps  *)
(* (None, between semicolons); of a statement, the type of the root, the   *)
(* types of all nodes, root included, and the first word of a Command.     *)
(***************************************************************************)
EXTENDS Integers, Sequences, FiniteSets

CONSTANT None   \* what the parser returns for an empty piece of the input

ALLOWED_KINDS == {"SELECT", "EXPLAIN", "SHOW", "DESCRIBE"}

DML_DDL_NODES == {"Insert", "Update", "Delete", "Merge", "Create", "Drop",
                   "Alter", "AlterColumn", "TruncateTable"}

Queries == {"Select", "Union", "Except", "Intersect"}

Allow(kind)          == [allowed |-> TRUE, kind |-> kind, reason |-> "none"]
Reject(kind, reason) == [allowed |-> FALSE, kind |-> kind, reason |-> reason]

\* _statement_kind.  A root of any other type counts as SELECT when it has a
\* SELECT inside, unless it is itself one of the forbidden types.
StatementKind(s) ==
    CASE s.root \in Queries \/ ("Select" \in s.nodes /\ s.root \notin DML_DDL_NODES) -> "SELECT"
      [] s.root = "Command"  /\ "Select" \notin s.nodes -> s.head
      [] s.root = "Describe" /\ "Select" \notin s.nodes -> "DESCRIBE"
      [] s.root = "Show"     /\ "Select" \notin s.nodes -> "SHOW"
      [] OTHER -> s.root

\* _walk_for_forbidden: at any depth, and at the root.
Forbidden(s) == s.nodes \cap DML_DDL_NODES

\* classify, for one statement.
ClassifyOne(s) ==
    LET kind == StatementKind(s) IN
    IF Forbidden(s) # {} THEN Reject(kind, "forbidden nested operation")
    ELSE IF kind \in ALLOWED_KINDS THEN Allow(kind)
    ELSE Reject(kind, "kind not allowed")

\* statements: what was parsed, the gaps left out.
Statements(text) == SelectSeq(text.parsed, LAMBDA s : s # None)

\* classify.  What the tokenizer raises is no ParseError and is not caught.
Classify(text) ==
    CASE text.form = "blank"         -> Reject("EMPTY", "empty SQL statement")
      [] text.form = "unparsable"    -> Reject("PARSE_ERROR", "could not parse")
      [] text.form = "untokenizable" -> Reject("UNKNOWN", "raised")
      [] OTHER ->
         LET statements == Statements(text) IN
         IF statements = <<>> THEN Reject("EMPTY", "no executable statement")
         ELSE IF Len(statements) > 1 THEN Reject("MULTI_STATEMENT", "multi-statement input")
         ELSE ClassifyOne(statements[1])
=============================================================================
