-------------------------------- MODULE Sieve --------------------------------
(***************************************************************************)
(* Sieve filtering (internal/sieve): the parser as an automaton over       *)
(* tokens, the evaluation of conditions, the application of actions, and a *)
(* writer that feeds the parser one token at a time next to an interpreter *)
(* of the language as RFC 5228 has it.                                     *)
(*                                                                         *)
(* A token is a record [typ, arg].  A test with its modifiers and string   *)
(* lists, and an action with its arguments, are one token each (their      *)
(* argument lists are data; BadArg marks those whose own parser returns an *)
(* error).  Semicolons, comments and white space are layout.               *)
(***************************************************************************)
EXTENDS Naturals, Sequences, SequencesExt

CONSTANTS
  SieveTests,      \* the leaf tests the writer may use
  SieveActions,    \* the action tokens the writer may use
  SieveMsg,        \* the message: [hdr, size]
  SieveMatch,      \* <<match type, address part, value, pattern>> that match
  MaxArraySize,    \* maxArraySize
  MaxConditionDepth, \* maxConditionDepth
  MaxScriptTokens  \* bound on the scripts written

ASSUME SieveAssumption ==
  MaxArraySize \in Nat /\ MaxConditionDepth \in Nat /\ MaxScriptTokens \in Nat

VARIABLES
  parse,    \* the parser's state
  rfc,      \* the interpreter's state
  written   \* tokens written so far
sieveVars == <<parse, rfc, written>>

NoTest == [kind |-> "none"]   \* a nil Condition
BadArg == "bad"               \* arguments their parser refuses

-----------------------------------------------------------------------------
(* Conditions. *)

HeaderValues(msg, h) == IF h \in DOMAIN msg.hdr THEN msg.hdr[h] ELSE {}

HeaderTest(t, msg) ==
  \E h \in t.headers : \E v \in HeaderValues(msg, h), pat \in t.values :
    <<t.match, t.part, v, pat>> \in SieveMatch

SizeTest(t, msg) == IF t.over THEN msg.size > t.limit ELSE msg.size < t.limit

ExistsTest(t, msg) ==
  \A h \in t.headers :
    IF h \in {"from", "subject"} THEN msg.hdr[h] # {""} ELSE HeaderValues(msg, h) # {}

LeafTest(t, msg) ==
  CASE t.kind = "header" -> HeaderTest(t, msg)
    [] t.kind = "size"   -> SizeTest(t, msg)
    [] t.kind = "exists" -> ExistsTest(t, msg)
    [] t.kind = "true"   -> TRUE
    [] OTHER             -> FALSE

(* nots NotConditions around a test; the innermost Not of nil is TRUE. *)
Evaluate(c, msg) ==
  IF c.nots % 2 = 0 THEN LeafTest(c.test, msg) ELSE ~LeafTest(c.test, msg)

(* anyof read as allof and the other way round. *)
EvaluateConditionsSwapped(conds, allOf, msg) ==
  \/ conds = <<>>
  \/ ~allOf /\ \A i \in DOMAIN conds : Evaluate(conds[i], msg)
  \/ allOf  /\ \E i \in DOMAIN conds : Evaluate(conds[i], msg)

EvaluateConditions(conds, allOf, msg) ==
  \/ conds = <<>>
  \/ allOf  /\ \A i \in DOMAIN conds : Evaluate(conds[i], msg)
  \/ ~allOf /\ \E i \in DOMAIN conds : Evaluate(conds[i], msg)

-----------------------------------------------------------------------------
(* Actions and the executor. *)

Kept == [keep |-> TRUE, discarded |-> FALSE, rejected |-> FALSE, filed |-> "",
         redirect |-> <<>>, vacation |-> FALSE, applied |-> {}]

(* Action.Apply; whether a vacation answer is due is the vacation store's to
   say.  Stop changes nothing.  applied is history: what was applied. *)
Apply(r, a) ==
  LET s == [r EXCEPT !.applied = @ \union {a}]
  IN  CASE a.typ = "keep"     -> [s EXCEPT !.keep = TRUE]
        [] a.typ = "fileinto" -> [s EXCEPT !.filed = a.arg, !.keep = FALSE]
        [] a.typ = "redirect" -> [s EXCEPT !.redirect = Append(@, a.arg), !.keep = FALSE]
        [] a.typ = "discard"  -> [s EXCEPT !.discarded = TRUE, !.keep = FALSE]
        [] a.typ = "reject"   -> [s EXCEPT !.rejected = TRUE, !.keep = FALSE]
        [] a.typ = "vacation" -> [s EXCEPT !.vacation = TRUE]
        [] OTHER              -> s

(* An explicit action of a matched rule ends the script. *)
Decided(r) == r.discarded \/ r.rejected \/ r.filed # "" \/ r.redirect # <<>>

ExecuteRule(r, rule, msg) ==
  IF Decided(r) \/ ~EvaluateConditions(rule.conds, rule.allOf, msg) THEN r
  ELSE FoldLeft(Apply, r, rule.acts)

ExecuteScript(rules, msg) ==
  FoldLeft(LAMBDA r, rule : ExecuteRule(r, rule, msg), Kept, rules)

-----------------------------------------------------------------------------
(* The parser.  mode is the function that takes the next token; conds, allOf
   and acts build the rule, nots and count the loops' counters. *)

StartParse == [mode |-> "top", conds |-> <<>>, allOf |-> TRUE, acts |-> <<>>,
               nots |-> 0, count |-> 0, rules |-> <<>>]

ActionTypes == {"keep", "fileinto", "redirect", "discard", "reject", "vacation", "stop"}
ASSUME ScriptAssumption ==
  /\ NoTest \notin SieveTests /\ SieveMsg.size \in Nat
  /\ \A t \in SieveTests : t.kind = "size" => t.limit \in Nat
  /\ \A a \in SieveActions : a.typ \in ActionTypes

(* A test or an action whose own parser returns an error: an argument too long,
   a list too large; a folder or an address that is missing.                 *)
RefusedTest(t) == t.typ = "test" /\ t.arg.kind = BadArg
RefusedAction(t) ==
  \/ t.typ \in ActionTypes /\ t.arg = BadArg
  \/ t.typ \in {"fileinto", "redirect"} /\ t.arg = ""

ParseError(p) == [p EXCEPT !.mode = "error"]
EndRule(p) ==
  [StartParse EXCEPT !.rules = Append(p.rules,
     [conds |-> p.conds, allOf |-> p.allOf, acts |-> p.acts])]

(* parse and parseRequire: everything but "if" and the list of a require is
   stepped over, "elsif", "else" and actions outside a block included. *)
ParseTop(p, t) ==
  IF t.typ = "if" THEN [p EXCEPT !.mode = "cond"] ELSE p

(* parseSingleCondition; `then` is where the parser goes on. *)
SingleCondition(p, t, then) ==
  LET c == [nots |-> p.nots, test |-> IF t.typ = "test" THEN t.arg ELSE NoTest]
  IN  IF 3 + p.nots > MaxConditionDepth \/ RefusedTest(t) THEN ParseError(p)
      ELSE IF t.typ = "not" THEN [p EXCEPT !.nots = @ + 1]
      ELSE IF c.test = NoTest /\ p.nots = 0 THEN [p EXCEPT !.mode = then]
      ELSE [p EXCEPT !.mode = then, !.nots = 0, !.conds = Append(@, c)]

ParseCondition(p, t) ==
  IF t.typ \in {"allof", "anyof"} /\ p.nots = 0
  THEN [p EXCEPT !.mode = "open", !.allOf = t.typ = "allof"]
  ELSE SingleCondition(p, t, "brace")

ParseConditionList(p, t) ==
  IF t.typ = ")" /\ p.nots = 0 THEN [p EXCEPT !.mode = "brace", !.count = 0]
  ELSE IF t.typ = "," /\ p.mode = "sep" THEN [p EXCEPT !.mode = "list"]
  ELSE IF p.nots = 0 /\ p.count >= MaxArraySize THEN ParseError(p)
  ELSE SingleCondition([p EXCEPT !.count = IF p.nots = 0 THEN @ + 1 ELSE @,
                                 !.mode = "list"], t, "sep")

ParseBlock(p, t) ==
  IF t.typ = "}" THEN EndRule(p)
  ELSE IF p.count >= MaxArraySize \/ RefusedAction(t) THEN ParseError(p)
  ELSE [p EXCEPT !.count = @ + 1, !.acts = IF t.typ \in ActionTypes THEN Append(@, t) ELSE @]

(* parseRule after its condition. *)
ParseBrace(p, t) == IF t.typ = "{" THEN [p EXCEPT !.mode = "block"] ELSE ParseError(p)

ParseToken(p, t) ==
  CASE p.mode = "top"   -> ParseTop(p, t)
    [] p.mode = "cond"  -> ParseCondition(p, t)
    [] p.mode = "open"  -> IF t.typ = "(" THEN [p EXCEPT !.mode = "list"] ELSE ParseBrace(p, t)
    [] p.mode \in {"list", "sep"} -> ParseConditionList(p, t)
    [] p.mode = "brace" -> ParseBrace(p, t)
    [] p.mode = "block" -> ParseBlock(p, t)
    [] OTHER            -> p

(* The end of the script ends an open block; in a condition it is an error,
   and Execute keeps the mail of a script that does not parse. *)
ParseEnd(p) ==
  CASE p.mode = "top"   -> p
    [] p.mode = "block" -> EndRule(p)
    [] OTHER            -> ParseError(p)

Result(p, msg) ==
  LET q == ParseEnd(p) IN IF q.mode = "error" THEN Kept ELSE ExecuteScript(q.rules, msg)

-----------------------------------------------------------------------------
(* RFC 5228 for scripts without nested blocks or nested test lists: at is
   the position in the grammar, value the test so far, taken that a branch of
   this if/elsif/else ran, live that the open block runs, done what ran. *)

StartRfc == [at |-> "stmt", value |-> TRUE, form |-> "one", neg |-> FALSE,
             taken |-> FALSE, live |-> TRUE, stopped |-> FALSE, done |-> {}]

RfcDo(r, t) ==
  IF r.stopped \/ ~r.live THEN r
  ELSE [r EXCEPT !.done = @ \union {t}, !.stopped = t.typ = "stop"]

RfcTest(r, t) ==
  LET v == IF r.neg THEN ~LeafTest(t.arg, SieveMsg) ELSE LeafTest(t.arg, SieveMsg)
  IN  [r EXCEPT !.neg = FALSE,
         !.value = IF r.form = "one" THEN v ELSE IF r.form = "allof" THEN @ /\ v ELSE @ \/ v,
         !.at = IF r.form = "one" THEN "brace" ELSE "sep"]

Sign(x) == [typ |-> x, arg |-> ""]
TestTokens == {[typ |-> "test", arg |-> t] : t \in SieveTests}

RfcTokens(r) ==
  CASE r.at = "stmt"  -> {Sign("if")} \union SieveActions
    [] r.at = "after" -> {Sign("if"), Sign("elsif"), Sign("else")} \union SieveActions
    [] r.at = "test"  -> TestTokens \union {Sign("not")}
                         \union (IF r.neg THEN {} ELSE {Sign("allof"), Sign("anyof")})
    [] r.at = "open"  -> {Sign("(")}
    [] r.at = "list"  -> TestTokens \union {Sign("not")}
    [] r.at = "sep"   -> {Sign(","), Sign(")")}
    [] r.at = "brace" -> {Sign("{")}
    [] OTHER          -> {Sign("}")} \union SieveActions

RfcToken(r, t) ==
  CASE t \in SieveActions -> RfcDo(IF r.at = "block" THEN r ELSE [r EXCEPT !.live = TRUE, !.at = "stmt"], t)
    [] t.typ = "test"  -> RfcTest(r, t)
    [] t.typ = "not"   -> [r EXCEPT !.neg = ~@]
    [] t.typ = "if"    -> [r EXCEPT !.at = "test", !.form = "one", !.taken = FALSE]
    [] t.typ = "elsif" -> [r EXCEPT !.at = "test", !.form = "one"]
    [] t.typ = "else"  -> [r EXCEPT !.at = "brace", !.value = TRUE]
    [] t.typ \in {"allof", "anyof"} ->
         [r EXCEPT !.at = "open", !.form = t.typ, !.value = t.typ = "allof"]
    [] t.typ \in {"(", ","} -> [r EXCEPT !.at = "list"]
    [] t.typ = ")"     -> [r EXCEPT !.at = "brace"]
    [] t.typ = "{"     -> [r EXCEPT !.at = "block", !.live = ~r.taken /\ r.value]
    [] OTHER           -> [r EXCEPT !.at = "after", !.taken = @ \/ r.value]

-----------------------------------------------------------------------------
SieveInit == parse = StartParse /\ rfc = StartRfc /\ written = 0

Write(t) ==
  /\ written < MaxScriptTokens
  /\ t \in RfcTokens(rfc)
  /\ parse' = ParseToken(parse, t)
  /\ rfc' = RfcToken(rfc, t)
  /\ written' = written + 1

SieveNext == \E t \in RfcTokens(rfc) : Write(t)
SieveSpec == SieveInit /\ [][SieveNext]_sieveVars

SieveTypeOK ==
  /\ parse.mode \in {"top", "cond", "open", "list", "sep", "brace", "block", "error"}
  /\ parse.nots \in 0..MaxConditionDepth /\ parse.count \in 0..MaxArraySize
  /\ written \in 0..MaxScriptTokens

(* Wherever a script ends, every action the executor applies to the message
   is one the script, read by RFC 5228, executes: what parse steps over (else,
   elsif, bare actions) and what it builds from lists and nots never files,
   redirects or discards mail the author did not mean (scripts without stop:
   parser.go parse, sieve.go executeScript). *)
ActsAsWritten == ~rfc.stopped => Result(parse, SieveMsg).applied \subseteq rfc.done

(* "StopAction stops processing more rules" (actions.go): nothing after an
   executed stop is applied. *)
StopStops == rfc.stopped => Result(parse, SieveMsg).applied \subseteq rfc.done
=============================================================================
