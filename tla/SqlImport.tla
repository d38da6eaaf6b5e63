----------------------------- MODULE SqlImport -----------------------------
(***************************************************************************)
(* tenant:import: a PostgreSQL dump is split into statements and COPY      *)
(* blocks by a hand-written scanner and applied to the tenant's schema,    *)
(* in one transaction with a savepoint for each statement, or by psql when *)
(* the dump holds a COPY block.                                            *)
(*                                                                         *)
(* A dump is a short sequence of lexemes; the scanner sees its characters. *)
(* "a" stands for a word, "z" for a word the database refuses, "S" for the *)
(* beginning of a statement on search_path, which is skipped, a line "C"   *)
(* for the header of a COPY block, "src" and "dst" for the names of the    *)
(* dump's schema and of the tenant's with the dot behind them.             *)
(***************************************************************************)
EXTENDS Integers, FiniteSets, SequencesExt

CONSTANTS MaxLexemes, \* bound: length of a dump
          Lexemes     \* which lexemes a dump is made of

Text ==
  [word    |-> <<"a">>,
   refused |-> <<"z">>,
   skip    |-> <<"S">>,
   name    |-> <<"src">>,
   end     |-> <<";">>,
   literal |-> <<"'", "src", "'", "'", ";", "'">>,
   line    |-> <<"-", "-", ";", "'", "\n">>,
   block   |-> <<"/", "*", "'", ";", "*", "/">>,
   dollar  |-> <<"$", "t", "$", "$", ";", "'", "$", "t", "$">>,
   meta    |-> <<"\n", "\\", ";", "\n">>,
   copy    |-> <<"\n", "C", "\n", "src", ";", "\n", "\\", ".", "\n">>,
   escape  |-> <<"E", "'", "\\", "'", ";", "'">>,
   quoted  |-> <<"\"", ";", "\"">>,
   nested  |-> <<"/", "*", "/", "*", "*", "/", ";", "*", "/">>,
   header  |-> <<"'", "\n", "C", "\n", "'">>,
   crlf    |-> <<"\n", "C", "\n", ";", "\n", "\\", ".", "\r", "\n">>]

\* What the scanner does not know: a quote escaped in E'', words between double quotes,
\* a comment inside a comment, a COPY header inside a literal, and lines that end in \r.
Misread == {"escape", "quoted", "nested", "header", "crlf"}
Understood(d) == \A i \in DOMAIN d : d[i] \notin Misread

\* A COPY block of a dump follows a finished statement.
IsBlock(lexeme) == lexeme \in {"copy", "crlf"}
DumpFiles ==
  {d \in UNION {[1..n -> Lexemes] : n \in 1..MaxLexemes} :
     \A i \in 2..Len(d) : IsBlock(d[i]) => d[i - 1] = "end" \/ IsBlock(d[i - 1])}

Chars(d) == FoldLeft(LAMBDA text, lexeme : text \o Text[lexeme], <<>>, d)

\* #rewriteSchema: the name of the dump's schema is replaced wherever it stands in the
\* file, in a literal and in the rows of a COPY block too.
RewriteSchema(text) == [i \in DOMAIN text |-> IF text[i] = "src" THEN "dst" ELSE text[i]]

Join(lines) ==
  IF lines = <<>> THEN <<>>
  ELSE FoldLeft(LAMBDA text, line : text \o <<"\n">> \o line, Head(lines), Tail(lines))
Lines(text) ==
  FoldLeft(LAMBDA ls, c : IF c = "\n" THEN Append(ls, <<>>)
                          ELSE [ls EXCEPT ![Len(ls)] = Append(@, c)],
           <<<<>>>>, text)

\* trim() of a sequence of characters whose only blank is the newline.
Trim(text) ==
  LET ink == {i \in DOMAIN text : text[i] # "\n"}
  IN  IF ink = {} THEN <<>>
      ELSE SubSeq(text, CHOOSE i \in ink : \A j \in ink : i <= j,
                        CHOOSE i \in ink : \A j \in ink : i >= j)

Sql(text) == [kind |-> "sql", text |-> text]
CopyBlock(rows) == [kind |-> "copy", rows |-> rows]
-----------------------------------------------------------------------------
\* The scanner: a.at is the character it reads next.
CharAt(text, i) == IF i <= Len(text) THEN text[i] ELSE ""
KeepsChars(text, a, n, to) ==
  [a EXCEPT !.current = @ \o SubSeq(text, a.at, a.at + n - 1),
            !.at = @ + n, !.state = to]

\* The length of the dollar tag that begins at i, 0 when none does.
TagLength(text, i) ==
  LET closing == {j \in (i + 1)..Len(text) :
                    text[j] = "$" /\ \A k \in (i + 1)..(j - 1) : text[k] \in {"a", "t", "z", "S", "C"}}
  IN  IF closing = {} THEN 0 ELSE (CHOOSE j \in closing : \A k \in closing : j <= k) - i + 1

PushStatement(a) ==
  [a EXCEPT !.out = IF Trim(a.current) = <<>> THEN @ ELSE Append(@, Sql(Trim(a.current))),
            !.current = <<>>]

LineEnd(text, i) ==
  LET ends == {j \in i..Len(text) : text[j] = "\n"}
  IN  IF ends = {} THEN Len(text) ELSE CHOOSE j \in ends : \A k \in ends : j <= k

ScanDefault(text, a) ==
  LET ch == text[a.at]  next == CharAt(text, a.at + 1)
  IN  CASE ch = "-" /\ next = "-" -> KeepsChars(text, a, 1, "line_comment")
        [] ch = "/" /\ next = "*" -> KeepsChars(text, a, 1, "block_comment")
        [] ch = "'"               -> KeepsChars(text, a, 1, "single_quote")
        [] ch = "$" /\ TagLength(text, a.at) > 0 ->
             [KeepsChars(text, a, TagLength(text, a.at), "dollar_quote")
                EXCEPT !.tag = SubSeq(text, a.at, a.at + TagLength(text, a.at) - 1)]
        [] ch = ";"               -> [PushStatement(a) EXCEPT !.at = @ + 1]
        [] ch = "\\" /\ (a.at = 1 \/ text[a.at - 1] = "\n") ->
             [a EXCEPT !.at = LineEnd(text, a.at) + 1]
        [] OTHER                  -> KeepsChars(text, a, 1, "default")

ScanQuote(text, a) ==
  LET ch == text[a.at]
  IN  IF ch = "'" /\ CharAt(text, a.at + 1) = "'" THEN KeepsChars(text, a, 2, "single_quote")
      ELSE KeepsChars(text, a, 1, IF ch = "'" THEN "default" ELSE "single_quote")

ScanLineComment(text, a) ==
  KeepsChars(text, a, 1, IF text[a.at] = "\n" THEN "default" ELSE "line_comment")

ScanBlockComment(text, a) ==
  IF text[a.at] = "*" /\ CharAt(text, a.at + 1) = "/" THEN KeepsChars(text, a, 2, "default")
  ELSE KeepsChars(text, a, 1, "block_comment")

ScanDollar(text, a) ==
  IF IsPrefix(a.tag, SubSeq(text, a.at, Len(text)))
  THEN [KeepsChars(text, a, Len(a.tag), "default") EXCEPT !.tag = <<>>]
  ELSE KeepsChars(text, a, 1, "dollar_quote")

Scan(text, a) ==
  CASE a.state = "default"       -> ScanDefault(text, a)
    [] a.state = "single_quote"  -> ScanQuote(text, a)
    [] a.state = "line_comment"  -> ScanLineComment(text, a)
    [] a.state = "block_comment" -> ScanBlockComment(text, a)
    [] a.state = "dollar_quote"  -> ScanDollar(text, a)

SplitSqlStatements(text) ==
  LET start == [at |-> 1, state |-> "default", tag |-> <<>>, current |-> <<>>, out |-> <<>>]
  IN  PushStatement(FoldLeft(LAMBDA a, i : IF a.at = i THEN Scan(text, a) ELSE a,
                             start, [i \in 1..Len(text) |-> i])).out

\* The dump is first cut into lines: a COPY header takes the rows up to the
\* line \. whatever they contain, the lines between two blocks are scanned.
FlushBuffer(b) ==
  [b EXCEPT !.tokens = @ \o SplitSqlStatements(Join(b.buffer)), !.buffer = <<>>]
TakeLine(b, line) ==
  CASE b.copying /\ line = <<"\\", ".">> ->
         [b EXCEPT !.copying = FALSE, !.tokens = Append(@, CopyBlock(b.rows)), !.rows = <<>>]
    [] b.copying /\ line # <<"\\", ".">> -> [b EXCEPT !.rows = Append(@, line)]
    [] ~b.copying /\ line = <<"C">> -> [FlushBuffer(b) EXCEPT !.copying = TRUE]
    [] OTHER -> [b EXCEPT !.buffer = Append(@, line)]
SplitSqlStatementsTagged(text) ==
  LET b == FoldLeft(TakeLine,
             [copying |-> FALSE, buffer |-> <<>>, rows |-> <<>>, tokens |-> <<>>], Lines(text))
  IN  FlushBuffer(IF b.copying THEN [b EXCEPT !.tokens = Append(@, CopyBlock(b.rows))] ELSE b).tokens

\* What the rewritten dump says, to PostgreSQL and psql: statements end at the lexeme ";"
\* and nowhere else.
Meaning(d) ==
  LET Close(m) == [m EXCEPT !.out = IF Trim(m.text) = <<>> THEN @ ELSE Append(@, Sql(Trim(m.text))),
                            !.text = <<>>]
      Block(m, row) == [Close(m) EXCEPT !.out = Append(@, CopyBlock(<<row>>))]
      Reads(m, lexeme) ==
        CASE lexeme = "end"  -> Close(m)
          [] lexeme = "copy" -> Block(m, <<"dst", ";">>)
          [] lexeme = "crlf" -> Block(m, <<";">>)
          [] lexeme = "meta" -> [m EXCEPT !.text = Append(@, "\n")]
          [] OTHER           -> [m EXCEPT !.text = @ \o RewriteSchema(Text[lexeme])]
  IN  Close(FoldLeft(Reads, [text |-> <<>>, out |-> <<>>], d)).out

ShouldSkip(token) == token.kind = "sql" /\ Head(token.text) = "S"
RefusedSql(token) == token.kind = "sql" /\ \E i \in DOMAIN token.text : token.text[i] = "z"

\* What the scanner and Meaning are made of.
Characters == UNION {{RewriteSchema(Text[l])[i] : i \in DOMAIN Text[l]} : l \in DOMAIN Text}
Tokens ==
  [kind : {"sql"}, text : Seq(Characters)] \cup [kind : {"copy"}, rows : Seq(Seq(Characters))]

Split(d) == SplitSqlStatementsTagged(RewriteSchema(Chars(d)))

\* What is evaluated and cannot be proved, for both are folds over characters: of every
\* dump it understands, the scanner makes the statements and the blocks it says.
SplitsWhatIsSaid ==
  \A d \in DumpFiles :
     /\ Split(d) \in Seq(Tokens) /\ Meaning(d) \in Seq(Tokens)
     /\ Understood(d) => Split(d) = Meaning(d)
-----------------------------------------------------------------------------
VARIABLES file,         \* the lexemes of the dump
          options,      \* the command's options and the tenant's status
          importStep,   \* where the command is
          tokens,       \* what the splitter made of the file
          refusals,     \* those the database refuses
          nextToken,    \* the next token of the transaction
          trx,          \* the open transaction
          importSchema, \* the statements the tenant's schema holds
          counted,      \* the counts that are reported
          importExit    \* the exit code

import == <<file, options, importStep, tokens, refusals, nextToken, trx, importSchema, counted, importExit>>

NoTrx == [applied |-> <<>>, aborted |-> FALSE]
NoResult == [total |-> 0, executed |-> 0, skipped |-> 0, copies |-> 0, errors |-> 0]

Skipped(ts) == {i \in DOMAIN ts : ShouldSkip(ts[i])}
Blocks(ts) == {i \in DOMAIN ts : ts[i].kind = "copy"}
Accepted(ts) == {i \in DOMAIN ts : ~RefusedSql(ts[i])}
SkippedCount == Cardinality(Skipped(tokens))
CopyCount == Cardinality(Blocks(tokens))

\* The elements of s at the positions I, in their order.
Ranked(I, k) == {i \in I : Cardinality({j \in I : j <= i}) = k}
Chosen(s, I) == [k \in 1..Cardinality(I) |-> s[CHOOSE i \in Ranked(I, k) : TRUE]]

ImportInit ==
  /\ file \in DumpFiles
  /\ options \in [dryRun : BOOLEAN, force : BOOLEAN, active : BOOLEAN, psql : BOOLEAN]
  /\ importStep = "command" /\ tokens = <<>> /\ refusals = {} /\ nextToken = 1
  /\ trx = NoTrx /\ importSchema = <<>> /\ counted = NoResult /\ importExit = 0

RefusesTenant ==
  /\ importStep = "command" /\ ~options.active /\ ~options.force
  /\ importStep' = "refused" /\ importExit' = 1
  /\ UNCHANGED <<file, options, tokens, refusals, nextToken, trx, importSchema, counted>>

HasCopyBlocks(ts) == Blocks(ts) # {}

\* The file is read, rewritten and split; the dry run only counts. What the database says
\* of a statement that is cut in the wrong place is left open.
Parses ==
  /\ importStep = "command" /\ (options.active \/ options.force)
  /\ tokens' = Split(file)
  /\ refusals' \in IF Understood(file) THEN {DOMAIN tokens' \ Accepted(tokens')}
                   ELSE SUBSET DOMAIN tokens'
  /\ counted' = [NoResult EXCEPT !.total = Len(tokens')]
  /\ importStep' = CASE options.dryRun -> "count"
                     [] ~options.dryRun /\ HasCopyBlocks(tokens') -> "psql"
                     [] OTHER -> "transaction"
  /\ UNCHANGED <<file, options, nextToken, trx, importSchema, importExit>>

CountsOnly ==
  /\ importStep = "count"
  /\ counted' = [counted EXCEPT !.skipped = SkippedCount,
                                !.copies = CopyCount,
                                !.executed = Len(tokens) - SkippedCount - CopyCount]
  /\ importStep' = "report"
  /\ UNCHANGED <<file, options, tokens, refusals, nextToken, trx, importSchema, importExit>>

\* A statement runs between SAVEPOINT and RELEASE.  The database answers an
\* error to every statement of an aborted transaction.
Execution(t, i) ==
  IF t.aborted \/ i \in refusals THEN [t EXCEPT !.aborted = TRUE]
  ELSE [t EXCEPT !.applied = Append(@, tokens[i])]
LeavesAborted(t, savepoint) == t      \* mutant: the error is only collected
RollbackToSavepoint(t, savepoint) == savepoint
EachStatement ==
  /\ importStep = "transaction" /\ nextToken <= Len(tokens) /\ nextToken' = nextToken + 1
  /\ IF ShouldSkip(tokens[nextToken])
     THEN counted' = [counted EXCEPT !.skipped = @ + 1] /\ UNCHANGED trx
     ELSE LET after == Execution(trx, nextToken)
          IN  IF after.aborted
              THEN /\ trx' = RollbackToSavepoint(after, trx)
                   /\ counted' = [counted EXCEPT !.errors = @ + 1]
              ELSE trx' = after /\ counted' = [counted EXCEPT !.executed = @ + 1]
  /\ UNCHANGED <<file, options, importStep, tokens, refusals, importSchema, importExit>>

\* COMMIT; the database turns the COMMIT of an aborted transaction into a
\* rollback and says so in no error.
Commits ==
  /\ importStep = "transaction" /\ nextToken > Len(tokens)
  /\ importSchema' = IF trx.aborted THEN importSchema ELSE importSchema \o trx.applied
  /\ trx' = NoTrx /\ importStep' = "report"
  /\ UNCHANGED <<file, options, tokens, refusals, nextToken, counted, importExit>>

\* The connection is lost: SAVEPOINT or the statement's own rollback throws,
\* the transaction is gone and import() throws.
ConnectionLost ==
  /\ importStep = "transaction"
  /\ trx' = NoTrx /\ importStep' = "threw"
  /\ UNCHANGED <<file, options, tokens, refusals, nextToken, importSchema, counted, importExit>>

\* psql reads the rewritten file for itself and applies all of it, the skipped statements
\* too, each in a transaction of its own; the counts are the splitter's.  It prints errors
\* behind its file and line, so that no line begins with ERROR: and none is counted.
RunsPsql ==
  /\ importStep = "psql"
  /\ IF options.psql
     THEN /\ importSchema' = importSchema \o Chosen(Meaning(file), Accepted(Meaning(file)))
          /\ counted' = [counted EXCEPT
               !.copies = CopyCount,
               !.skipped = SkippedCount,
               !.executed = Len(tokens) - SkippedCount]
          /\ importStep' = "report"
     ELSE importStep' = "threw" /\ UNCHANGED <<importSchema, counted>>
  /\ UNCHANGED <<file, options, tokens, refusals, nextToken, trx, importExit>>

\* psql is killed or loses its connection: what it has applied stays.
PsqlDies ==
  /\ importStep = "psql" /\ options.psql
  /\ \E n \in 0..Len(Meaning(file)) :
       importSchema' = importSchema \o Chosen(Meaning(file), Accepted(Meaning(file)) \cap 1..n)
  /\ importStep' = "threw"
  /\ UNCHANGED <<file, options, tokens, refusals, nextToken, trx, counted, importExit>>

\* The command: errors make it fail, an import that threw does not.
Reports ==
  /\ importStep \in {"report", "threw"}
  /\ importExit' = IF importStep = "report" /\ counted.errors > 0 THEN 1 ELSE 0
  /\ importStep' = IF importStep = "report" THEN "reported" ELSE "gave_up"
  /\ UNCHANGED <<file, options, tokens, refusals, nextToken, trx, importSchema, counted>>

ImportNext ==
  \/ RefusesTenant \/ Parses \/ CountsOnly \/ EachStatement \/ Commits
  \/ ConnectionLost \/ RunsPsql \/ PsqlDies \/ Reports

ImportSpec == ImportInit /\ [][ImportNext]_import
-----------------------------------------------------------------------------
\* The type invariant: a count never exceeds the number of tokens.
ImportTypeOK ==
  /\ file \in DumpFiles
  /\ options \in [dryRun : BOOLEAN, force : BOOLEAN, active : BOOLEAN, psql : BOOLEAN]
  /\ importStep \in {"command", "refused", "count", "psql", "transaction", "report", "threw",
                     "reported", "gave_up"}
  /\ tokens \in Seq(Tokens) /\ refusals \subseteq DOMAIN tokens
  /\ nextToken \in 1..(Len(tokens) + 1)
  /\ counted \in [total : 0..Len(tokens), executed : 0..Len(tokens), skipped : 0..Len(tokens),
                   copies : 0..Len(tokens), errors : 0..Len(tokens)]
  /\ importExit \in {0, 1}

\* A reported import did what the dump says once the name of its schema is replaced
\* everywhere, in data too.  Where the scanner understands the dump, the statements end
\* where the dump ends them.  Of whatever it makes of the dump, the schema holds, in
\* order, every statement but those on search_path and those the database refused; the
\* counts account for each, and the command fails when one was refused; an import that
\* threw out of its transaction left the schema as it was.  With COPY blocks psql applies
\* what the dump says, those on search_path too, also where the scanner misread it.
AppliesTheDump ==
  LET said == Meaning(file)
      wanted == Chosen(tokens, DOMAIN tokens \ (refusals \cup Skipped(tokens)))
  IN  /\ importStep \notin {"command", "refused"} /\ Understood(file) =>
           tokens = said /\ refusals = DOMAIN said \ Accepted(said)
      /\ importStep = "reported" /\ ~options.dryRun /\ ~HasCopyBlocks(tokens) =>
           /\ importSchema = wanted
           /\ counted.executed = Len(wanted)
           /\ counted.executed + counted.skipped + counted.errors = Len(tokens)
           /\ importExit = 1 <=> refusals \ Skipped(tokens) # {}
      /\ importStep = "reported" /\ ~options.dryRun /\ HasCopyBlocks(tokens) =>
           importSchema = Chosen(said, Accepted(said))
      /\ importStep = "reported" /\ options.dryRun =>
           counted.executed + counted.skipped + counted.copies = Len(tokens)
      /\ options.dryRun \/ (importStep \in {"threw", "gave_up"} /\ ~HasCopyBlocks(tokens)) =>
           importSchema = <<>>
=============================================================================
