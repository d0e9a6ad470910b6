------------------------------ MODULE SqlText ------------------------------
(***************************************************************************)
(* internal/risk/parser.go and policy.go: how a migration's text is cut     *)
(* into statements, and what of it the always-critical patterns are looked  *)
(* for in.  Both go through the text by themselves, comments and quotes in  *)
(* the dialect of the engine, and both must see exactly what the server     *)
(* would execute.                                                           *)
(*                                                                          *)
(* The author writes the text token by token, while the server's lexer      *)
(* reads along; then one of the two functions is called, and an action is   *)
(* an iteration of one of its loops.  What they make of the text is told by *)
(* the places of the tokens they keep; the spaces they put in or trim, and  *)
(* blank statements, are left out.                                          *)
(*                                                                          *)
(* A token is a word, a semicolon, a newline, the start or end of a         *)
(* comment, a quote, a backslash or a dollar tag, all dollar tags being the *)
(* same one of less than 30 characters, or a dollar that is in no tag, as   *)
(* in $1.  Not in the texts are backticks in PostgreSQL, names in brackets, *)
(* E strings, and statements that have others in them (the BEGIN ... END of *)
(* a trigger): BEGIN, COMMIT and the like are words.                        *)
(***************************************************************************)
EXTENDS Integers, Sequences, FiniteSets

CONSTANT MaxLength
ASSUME LengthAssumption == MaxLength \in Nat

VARIABLES
  engine,
  text,
  lexer,       \* the server's lexer before each token, and after the last one
  function,    \* the function that runs, or what is there when it has returned
  at,          \* the next place of the text
  loop,        \* its outer loop, or the one for a comment or a quoted text
  depth,       \* of nested comments
  closing,     \* the dollar tag at which a body that is gone through ends, or 0
  kept,        \* the places of the tokens written to the output
  rune,        \* SplitStatements: the next place of that output
  quote,       \* the quotes it is in
  dollar,      \* whether it is in a dollar-quoted body
  current,     \* the places of the statement it is in
  statements   \* the statements it has found, in their order

textVars  == <<engine, text, lexer>>
scanVars  == <<at, loop, depth, closing, kept>>
splitVars == <<rune, quote, dollar, current, statements>>
sqlVars   == <<textVars, function, scanVars, splitVars>>

-----------------------------------------------------------------------------
(* The dialect: one pass with a mode, which gives each token its role.      *)

(* "q" quotes identifiers: double quotes, or backticks in MySQL, where      *)
(* double quotes ("dq") are for strings.  "--x" is two dashes without the   *)
(* blank that MySQL wants after them.                                       *)
Tokens(e) ==
  {"word", ";", "nl", "--", "#", "/*", "*/", "'", "q", "\\", "$", "$$"}
    \cup (IF e = "mysql" THEN {"/*!", "--x", "dq"} ELSE {})

Quotes == {"'", "q", "dq"}
AtCode == [mode |-> "code", depth |-> 0, escaped |-> FALSE]

(* The mode after a token, from the state before it.                        *)
Enter(e, token) ==
  CASE token = "--" \/ (token = "#" /\ e = "mysql") -> "line" [] token = "/*" -> "block"
    [] token \in Quotes -> token
    [] token = "$$" /\ e = "postgres" -> "dollar"
    [] OTHER -> "code"

Mode(e, s, token) ==
  CASE s.mode = "code" -> Enter(e, token)
    [] s.mode = "line" -> IF token = "nl" THEN "code" ELSE "line"
    [] s.mode = "block" -> IF token = "*/" /\ (e # "postgres" \/ s.depth = 1) THEN "code" ELSE "block"
    [] s.mode = "dollar" -> IF token = "$$" THEN "code" ELSE "dollar"
    [] OTHER -> IF token = s.mode /\ ~s.escaped THEN "code" ELSE s.mode

(* Comments nest in PostgreSQL only.                                        *)
Depth(e, s, token) ==
  CASE s.mode = "code" /\ token = "/*" -> 1
    [] s.mode = "block" /\ token = "*/" -> s.depth - 1
    [] s.mode = "block" /\ token = "/*" /\ e = "postgres" -> s.depth + 1
    [] OTHER -> IF s.mode = "block" THEN s.depth ELSE 0

(* A backslash takes the next character with it in MySQL's strings only.    *)
Read(e, s, token) ==
  [mode |-> Mode(e, s, token), depth |-> Depth(e, s, token),
   escaped |-> e = "mysql" /\ s.mode \in {"'", "dq"} /\ token = "\\" /\ ~s.escaped]

(* A dollar-quoted body is SQL itself, and read by a lexer of its own.      *)
ReadOn(e, s, token) ==
  [outer |-> Read(e, s.outer, token),
   inner |-> IF s.outer.mode = "dollar" /\ token # "$$" THEN Read(e, s.inner, token) ELSE AtCode]

Role(e, s, token) ==
  CASE s.mode = "code" ->
         CASE token \in {"--", "/*", "/*!"} \/ (token \in {"*/", "#"} /\ e = "mysql") -> "comment"
           [] token \in Quotes \/ (token = "$$" /\ e = "postgres") -> "quoted"
           [] token = ";" -> "end"
           [] OTHER -> "code"
    [] s.mode \in {"line", "block"} -> "comment"
    [] s.mode = "dollar" /\ token # "$$" -> "body"
    [] OTHER -> "quoted"

RoleAt(p)     == Role(engine, lexer[p].outer, text[p])
RoleInBody(p) == Role(engine, lexer[p].inner, text[p])

(* Every quote and comment ends, in the text and in its bodies.             *)
Ends(s) == s.mode \in {"code", "line"}
WellFormed ==
  /\ Ends(lexer[Len(text) + 1].outer)
  /\ \A p \in 1..Len(text) :
       lexer[p].outer.mode = "dollar" /\ text[p] = "$$" => Ends(lexer[p].inner)

(* The code has one lexer for the comments and strings of all dialects:     *)
(* dashes and # begin comments, and backslashes count in single quotes.     *)
Differs(s, token) ==
  \/ s.mode = "code" /\ (token = "--x" \/ (token = "#" /\ engine # "mysql"))
  \/ token = "\\" /\ s.mode = IF engine = "mysql" THEN "dq" ELSE "'"
ReadsAlike ==
  \A p \in 1..Len(text) :
    /\ ~Differs(lexer[p].outer, text[p])
    /\ lexer[p].outer.mode = "dollar" /\ text[p] # "$$" => ~Differs(lexer[p].inner, text[p])

(* Dollar tags are PostgreSQL's, and words elsewhere.                       *)
TagsAreWords ==
  \E p \in 1..Len(text) : \E q \in (p + 1)..Len(text) :
    text[p] = "$$" /\ RoleAt(p) = "code" /\ text[q] = "$$"

(* A tag, or a dollar with another one to come: a body to SplitStatements.  *)
DollarOpens ==
  /\ engine = "postgres"
  /\ \E p \in 1..Len(text) :
       /\ lexer[p].outer.mode = "code"
       /\ \/ text[p] = "$$"
          \/ /\ text[p] = "$"
             /\ \E q \in (p + 1)..Len(text) : text[q] \in {"$", "$$"} /\ RoleAt(q) # "comment"

(* What the server executes, and the statements it takes it for.            *)
Executed ==
  {p \in 1..Len(text) : /\ text[p] # "nl"
                        /\ \/ RoleAt(p) \in {"code", "end"}
                           \/ RoleAt(p) = "body" /\ RoleInBody(p) \in {"code", "end"}}

(* The tokens of a statement that ends, or is to end, at the given place.   *)
Part(end) ==
  {p \in 1..(end - 1) : /\ text[p] # "nl" /\ RoleAt(p) \notin {"comment", "end"}
                        /\ \A q \in (p + 1)..(end - 1) : RoleAt(q) # "end"}
DialectStatements ==
  {Part(end) : end \in {p \in 1..Len(text) : RoleAt(p) = "end"} \cup {Len(text) + 1}} \ {{}}

-----------------------------------------------------------------------------
SqlInit ==
  /\ engine \in {"postgres", "mysql", "sqlite"} /\ text = <<>>
  /\ lexer = <<[outer |-> AtCode, inner |-> AtCode]>>
  /\ function = "none"
  /\ at = 1 /\ loop = "top" /\ depth = 0 /\ closing = 0 /\ kept = <<>>
  /\ rune = 1 /\ quote = "none" /\ dollar = FALSE /\ current = {} /\ statements = <<>>

Write(token) ==
  /\ function = "none" /\ Len(text) < MaxLength
  /\ text' = Append(text, token)
  /\ lexer' = Append(lexer, ReadOn(engine, lexer[Len(text) + 1], token))
  /\ UNCHANGED <<engine, function, scanVars, splitVars>>

Call ==
  /\ function = "none"
  /\ function' \in {"StripComments", "sqlForPolicyMatching"}
  /\ UNCHANGED <<textVars, scanVars, splitVars>>

-----------------------------------------------------------------------------
(* StripComments and sqlForPolicyMatching.  Their loops are the same, but   *)
(* for quoted texts, which only the first one keeps.                        *)

Limit == IF closing = 0 THEN Len(text) ELSE closing - 1

In(l) == function \in {"StripComments", "sqlForPolicyMatching"} /\ loop = l
At(tokens) == In("top") /\ at <= Limit /\ text[at] \in tokens

Advance(n, l) == at' = at + n /\ loop' = l
Keep(n) == kept' = kept \o [k \in 1..n |-> at + k - 1]
KeepQuoted(n) == IF function = "StripComments" THEN Keep(n) ELSE UNCHANGED kept

LineComment == At({"--", "--x", "#"}) /\ Advance(1, "line") /\ UNCHANGED <<depth, closing, kept>>

LineRune ==
  /\ In("line")
  /\ IF at <= Limit /\ text[at] # "nl" THEN Advance(1, "line") ELSE Advance(0, "top")
  /\ UNCHANGED <<depth, closing, kept>>

BlockComment == At({"/*"}) /\ Advance(1, "block") /\ depth' = 1 /\ UNCHANGED <<closing, kept>>

(* Mutant of BlockRune: comments do not nest, in any dialect.               *)
FlatBlockRune ==
  /\ In("block") /\ at <= Limit
  /\ depth' = IF text[at] = "*/" THEN 0 ELSE depth
  /\ Advance(1, IF depth' = 0 THEN "top" ELSE "block")
  /\ UNCHANGED <<closing, kept>>

(* Comments nest in PostgreSQL only.                                        *)
BlockRune ==
  /\ In("block") /\ at <= Limit
  /\ depth' = CASE text[at] = "*/" -> depth - 1
                [] text[at] = "/*" /\ engine = "postgres" -> depth + 1
                [] OTHER -> depth
  /\ Advance(1, IF depth' = 0 THEN "top" ELSE "block")
  /\ UNCHANGED <<closing, kept>>

(* MySQL executes what is in these comments.                                *)
ExecutableComment ==
  /\ At({"/*!"} \cup IF engine = "mysql" THEN {"*/"} ELSE {})
  /\ Advance(1, "top")
  /\ UNCHANGED <<depth, closing, kept>>

Tags == {p \in (at + 1)..Limit : text[p] = "$$"}

(* Mutant of DollarBody: dollar-quoted bodies count as strings.             *)
BodyHidden ==
  /\ At({"$$"})
  /\ \E p \in Tags :
       /\ \A q \in Tags : p <= q
       /\ KeepQuoted(p - at + 1) /\ Advance(p - at + 1, "top")
  /\ UNCHANGED <<depth, closing>>

(* A body is written as it is, in PostgreSQL, or gone through in its turn,  *)
(* whatever the engine, by a call of sqlForPolicyMatching for the text up   *)
(* to the tag.                                                              *)
DollarBody ==
  /\ At({"$$"})
  /\ \E p \in Tags :
       /\ \A q \in Tags : p <= q
       /\ \/ function = "StripComments" /\ engine = "postgres"
             /\ Keep(p - at + 1) /\ Advance(p - at + 1, "top") /\ UNCHANGED closing
          \/ function = "sqlForPolicyMatching"
             /\ closing' = p /\ Advance(1, "top") /\ UNCHANGED kept
  /\ UNCHANGED depth

BodyEnds ==
  /\ In("top") /\ closing # 0 /\ at > Limit
  /\ at' = closing + 1 /\ closing' = 0
  /\ UNCHANGED <<loop, depth, kept>>

OpenQuote == At(Quotes) /\ Advance(1, text[at]) /\ KeepQuoted(1) /\ UNCHANGED <<depth, closing>>

(* A doubled quote is a quote in the text; a backslash, in a string, takes  *)
(* the next token with it.                                                  *)
Pair ==
  /\ at < Limit
  /\ \/ text[at] = loop /\ text[at + 1] = loop
     \/ text[at] = "\\" /\ loop = "'"

QuoteRune ==
  /\ In(loop) /\ loop \in Quotes /\ at <= Limit
  /\ LET n == IF Pair THEN 2 ELSE 1 IN
     Advance(n, IF text[at] = loop /\ ~Pair THEN "top" ELSE loop) /\ KeepQuoted(n)
  /\ UNCHANGED <<depth, closing>>

(* The text ends in a comment or in quotes.                                 *)
Unclosed ==
  /\ In(loop) /\ loop \in {"block"} \cup Quotes /\ at > Limit
  /\ Advance(0, "top")
  /\ UNCHANGED <<depth, closing, kept>>

(* Everything else: a dollar, and a dollar tag that is not one to the code  *)
(* or is without its like, too.                                             *)
LoneTag == Tags = {} \/ (function = "StripComments" /\ engine # "postgres")

Token ==
  /\ At({"word", ";", "nl", "\\", "$"} \cup (IF engine = "mysql" THEN {} ELSE {"*/"})
                                       \cup (IF LoneTag THEN {"$$"} ELSE {}))
  /\ Advance(1, "top") /\ Keep(1)
  /\ UNCHANGED <<depth, closing>>

Scan ==
  /\ \/ LineComment \/ LineRune \/ BlockComment \/ BlockRune \/ ExecutableComment
     \/ DollarBody \/ BodyEnds \/ OpenQuote \/ QuoteRune \/ Unclosed \/ Token
  /\ UNCHANGED <<textVars, function, splitVars>>

(* Their ends.                                                              *)
Scanned ==
  /\ In("top") /\ closing = 0 /\ at > Limit
  /\ function' = IF function = "StripComments" THEN "SplitStatements" ELSE "matched"
  /\ UNCHANGED <<textVars, scanVars, splitVars>>

-----------------------------------------------------------------------------
(* SplitStatements, on what StripComments has kept.                         *)

Rune == text[kept[rune]]
Splitting == function = "SplitStatements" /\ rune <= Len(kept)

Add(n) ==
  /\ current' = current \cup {p \in {kept[k] : k \in rune..(rune + n - 1)} : text[p] # "nl"}
  /\ rune' = rune + n

(* A tag opens a body, and so does all from a dollar to the next one, if    *)
(* that is within 30 characters; as it may or may not be, WriteRune can     *)
(* take a dollar, too.  What is compared with the tag at the next dollar is *)
(* "$" alone, so that no body ever ends.                                    *)
OpenBody ==
  /\ Splitting /\ engine = "postgres" /\ quote = "none" /\ ~dollar
  /\ \/ Rune = "$$"
     \/ Rune = "$" /\ \E k \in (rune + 1)..Len(kept) : text[kept[k]] \in {"$", "$$"}
  /\ dollar' = TRUE
  /\ Add(1)
  /\ UNCHANGED <<quote, statements>>

InBody == Splitting /\ dollar /\ Add(1) /\ UNCHANGED <<quote, dollar, statements>>

Escape ==
  /\ Splitting /\ ~dollar /\ Rune = "\\" /\ quote = "'" /\ rune < Len(kept)
  /\ Add(2)
  /\ UNCHANGED <<quote, dollar, statements>>

ToggleQuote ==
  /\ Splitting /\ ~dollar /\ Rune \in Quotes /\ quote \in {"none", Rune}
  /\ quote' = IF quote = "none" THEN Rune ELSE "none"
  /\ Add(1)
  /\ UNCHANGED <<dollar, statements>>

(* A blank statement is left out.                                           *)
Found == statements' = IF current = {} THEN statements ELSE Append(statements, current)

Semicolon ==
  /\ Splitting /\ ~dollar /\ Rune = ";" /\ quote = "none"
  /\ Found
  /\ current' = {} /\ rune' = rune + 1
  /\ UNCHANGED <<quote, dollar>>

WriteRune ==
  /\ Splitting /\ ~dollar
  /\ ~(Rune = "\\" /\ quote = "'" /\ rune < Len(kept))
  /\ ~(Rune \in Quotes /\ quote \in {"none", Rune})
  /\ ~(Rune = ";" /\ quote = "none")
  /\ ~(Rune = "$$" /\ quote = "none" /\ engine = "postgres")
  /\ Add(1)
  /\ UNCHANGED <<quote, dollar, statements>>

Split ==
  /\ OpenBody \/ InBody \/ Escape \/ ToggleQuote \/ Semicolon \/ WriteRune
  /\ UNCHANGED <<textVars, function, scanVars>>

Splits ==
  /\ function = "SplitStatements" /\ rune > Len(kept)
  /\ Found /\ function' = "split"
  /\ UNCHANGED <<textVars, scanVars, rune, quote, dollar, current>>

-----------------------------------------------------------------------------
SqlNext ==
  \/ \E token \in Tokens(engine) : Write(token)
  \/ Call \/ Scan \/ Scanned \/ Split \/ Splits

SqlSpec == SqlInit /\ [][SqlNext]_sqlVars

-----------------------------------------------------------------------------
(* SplitStatementsForEngine (parser.go:172) makes of a text the statements  *)
(* the server would execute, without their comments: what a comment, a      *)
(* string or an identifier contains never begins or ends one.  Excepted are *)
(* texts whose comments or strings the dialect reads in another way, and in *)
(* PostgreSQL those with a dollar tag in the code, or two dollars, of which *)
(* the first is in the code (EXECUTE p($1); EXECUTE q($2) is one statement).*)
SplitsAtCode ==
  function = "split" /\ WellFormed /\ ReadsAlike /\ ~DollarOpens =>
    /\ {statements[k] : k \in DOMAIN statements} = DialectStatements
    /\ \A k \in 1..Len(statements) : \A l \in 1..(k - 1) :
         \A p \in statements[l], q \in statements[k] : p < q

(* The always-critical patterns (policy.go:149) are looked for in all that  *)
(* the server would execute, in its order, and in nothing else: not in      *)
(* strings, names or comments, but in the bodies of functions, which are    *)
(* SQL themselves.  Excepted are texts whose comments or strings the        *)
(* dialect reads in another way, and those of MySQL and SQLite that have a  *)
(* dollar tag in the code and another one after it.                         *)
PolicySeesCode ==
  function = "matched" /\ WellFormed /\ ReadsAlike /\ ~TagsAreWords =>
    /\ {kept[k] : k \in {k \in DOMAIN kept : text[kept[k]] # "nl"}} = Executed
    /\ \A k \in 1..(Len(kept) - 1) : kept[k] < kept[k + 1]

(* parser.go:171 has SplitStatementsForEngine "splits a SQL string by        *)
(* semicolon into individual executable statements for a given engine", and *)
(* parser.go:193 handles dollar quotes: a statement after a dollar-quoted   *)
(* body is a statement of its own.                                          *)
DollarBodiesEnd ==
  function = "split" /\ WellFormed /\ ReadsAlike /\ (\A p \in 1..Len(text) : text[p] # "$") =>
    Len(statements) = Cardinality(DialectStatements)
=============================================================================
