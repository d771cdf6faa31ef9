----------------------------- MODULE Sieve_proofs -----------------------------
(***************************************************************************)
(* The Sieve parser and executor do only what the script says, for scripts *)
(* of any length, any tests, actions and limits, and any message.          *)
(*                                                                         *)
(* The executor folds over rules and actions.  What FoldLeft makes of a    *)
(* sequence with one element more is proved first; with it the parser and  *)
(* the interpreter of RFC 5228 are shown to stay in step, token by token.  *)
(***************************************************************************)
EXTENDS Sieve, WellFoundedInduction, TLAPS

(* Every nonempty set of numbers has a least element: the library's theorem on
   well-founded relations, which has no operator parameter, stands in for
   induction in this module.                                                  *)
LEMMA LeastNat ==
  ASSUME NEW T, T \subseteq Nat, T # {}
  PROVE  \E n \in T : \A m \in T : n <= m
<1> DEFINE R == {ss \in Nat \X Nat : ss[1] < ss[2]}
<1>1. R = OpToRel(<, Nat)
  BY Zenon DEF OpToRel
<1>2. IsWellFoundedOn(R, Nat)
  BY <1>1, NatLessThanWellFounded, Zenon
<1>3. \E x \in T : \A y \in T : ~(<<y, x>> \in R)
  <2> HIDE DEF R
  <2> QED BY <1>2, WFMin
<1>4. PICK x \in T : \A y \in T : ~(<<y, x>> \in R)
  BY <1>3, Zenon
<1>5. ASSUME NEW y \in T PROVE x <= y
  <2>1. <<y, x>> \in Nat \X Nat /\ <<y, x>>[1] = y /\ <<y, x>>[2] = x
    OBVIOUS
  <2>2. ~(y < x)
    BY <1>4, <2>1, Zenon
  <2> QED BY <2>2
<1> QED BY <1>5

(* Max of a nonempty set of indices. *)
LEMMA MaxOfIndices ==
  ASSUME NEW S, NEW m \in S, \A i \in S : i \in Nat /\ i <= m
  PROVE  Max(S) = m
<1>1. \E x \in S : \A y \in S : x >= y
  OBVIOUS
<1>2. Max(S) \in S /\ \A y \in S : Max(S) >= y
  BY <1>1 DEF Max
<1> QED BY <1>2

-----------------------------------------------------------------------------
(* The two folds of the model: actions are applied, rules are executed. *)
Do(kind, r, x) == IF kind = "acts" THEN Apply(r, x) ELSE ExecuteRule(r, x, SieveMsg)
Folded(kind, r, seq) ==
  IF kind = "acts" THEN FoldLeft(Apply, r, seq)
  ELSE FoldLeft(LAMBDA q, rule : ExecuteRule(q, rule, SieveMsg), r, seq)

IsFold(g, kind, r, seq) ==
  g = [s \in SUBSET DOMAIN seq |->
         IF s = {} THEN r ELSE Do(kind, g[s \ {Max(s)}], seq[Max(s)])]

OneFold(kind, r, seq) ==
  /\ \E g : IsFold(g, kind, r, seq)
  /\ \A g, h : IsFold(g, kind, r, seq) /\ IsFold(h, kind, r, seq) => g = h

(* FoldLeft is the value, at the whole domain, of the one recursive function. *)
LEMMA FoldedIs ==
  ASSUME NEW kind, NEW r, NEW seq, OneFold(kind, r, seq)
  PROVE  \E g : IsFold(g, kind, r, seq) /\ Folded(kind, r, seq) = g[DOMAIN seq]
<1>1. CASE kind = "acts"
  <2> DEFINE Is(g) == g = [s \in SUBSET DOMAIN seq |->
                             IF s = {} THEN r ELSE Apply(g[s \ {Max(s)}], seq[Max(s)])]
  <2>1. \A g : Is(g) <=> IsFold(g, kind, r, seq)
    <3>1. \A q, x : Do(kind, q, x) = Apply(q, x)
      BY <1>1 DEF Do
    <3> QED BY <3>1 DEF IsFold
  <2>2. Folded(kind, r, seq) = (CHOOSE g : Is(g))[DOMAIN seq]
    BY <1>1 DEF FoldLeft, MapThenFoldSet, Folded
  <2> HIDE DEF Is
  <2> QED BY <2>1, <2>2 DEF OneFold
<1>2. CASE kind # "acts"
  <2> DEFINE Is(g) == g = [s \in SUBSET DOMAIN seq |->
                             IF s = {} THEN r ELSE ExecuteRule(g[s \ {Max(s)}], seq[Max(s)], SieveMsg)]
  <2>1. \A g : Is(g) <=> IsFold(g, kind, r, seq)
    <3>1. \A q, x : Do(kind, q, x) = ExecuteRule(q, x, SieveMsg)
      BY <1>2 DEF Do
    <3> QED BY <3>1 DEF IsFold
  <2>2. Folded(kind, r, seq) = (CHOOSE g : Is(g))[DOMAIN seq]
    BY <1>2 DEF FoldLeft, MapThenFoldSet, Folded
  <2> HIDE DEF Is
  <2> QED BY <2>1, <2>2 DEF OneFold
<1> QED BY <1>1, <1>2

(* Nothing to fold. *)
LEMMA FoldEmpty ==
  ASSUME NEW kind, NEW r
  PROVE  OneFold(kind, r, <<>>) /\ Folded(kind, r, <<>>) = r
<1> DEFINE g0 == [s \in {{}} |-> r]
<1>d. DOMAIN <<>> = {} /\ SUBSET {} = {{}}
  OBVIOUS
<1>1. ASSUME NEW g
      PROVE  IsFold(g, kind, r, <<>>) <=> g = g0
  <2> DEFINE h == [s \in SUBSET DOMAIN <<>> |->
                     IF s = {} THEN r ELSE Do(kind, g[s \ {Max(s)}], <<>>[Max(s)])]
  <2>1. h = g0
    BY <1>d
  <2> HIDE DEF g0
  <2> QED BY <2>1 DEF IsFold
<1>2. g0[{}] = r
  OBVIOUS
<1> HIDE DEF g0
<1>3. OneFold(kind, r, <<>>)
  BY <1>1 DEF OneFold
<1>4. \E g : IsFold(g, kind, r, <<>>) /\ Folded(kind, r, <<>>) = g[{}]
  BY <1>3, <1>d, FoldedIs
<1> QED BY <1>1, <1>2, <1>3, <1>4

(* Where there is one such function for a sequence, there is one for the sequence
   with an element more, and its value is one more step.                      *)
LEMMA FoldAppend ==
  ASSUME NEW S, NEW seq \in Seq(S), NEW a \in S, NEW kind, NEW r, OneFold(kind, r, seq)
  PROVE  /\ OneFold(kind, r, Append(seq, a))
         /\ Folded(kind, r, Append(seq, a)) = Do(kind, Folded(kind, r, seq), a)
<1> DEFINE n == Len(seq)
           more == Append(seq, a)
           D == 1..n
           E == 1..(n + 1)
<1>1. /\ n \in Nat /\ DOMAIN seq = D /\ DOMAIN more = E
      /\ more[n + 1] = a /\ \A i \in D : more[i] = seq[i]
  OBVIOUS
<1> HIDE DEF n, more
<1>2. /\ SUBSET D \subseteq SUBSET E
      /\ \A s \in (SUBSET E) \ (SUBSET D) : s # {} /\ Max(s) = n + 1 /\ s \ {n + 1} \in SUBSET D
      /\ \A s \in SUBSET D : s # {} => Max(s) \in D /\ s \ {Max(s)} \in SUBSET D
  <2>1. ASSUME NEW s \in (SUBSET E) \ (SUBSET D)
        PROVE  s # {} /\ Max(s) = n + 1 /\ s \ {n + 1} \in SUBSET D
    <3>1. n + 1 \in s
      BY <1>1
    <3>m. \A i \in s : i \in Nat /\ i <= n + 1
      BY <1>1
    <3>2. Max(s) = n + 1
      BY <3>1, <3>m, MaxOfIndices
    <3> QED BY <1>1, <3>1, <3>2
  <2>2. ASSUME NEW s \in SUBSET D, s # {}
        PROVE  Max(s) \in D /\ s \ {Max(s)} \in SUBSET D
    <3>1. PICK m \in s : \A i \in s : i <= m
      <4> DEFINE T == {k \in Nat : \A i \in s : i <= k}
      <4>1. T \subseteq Nat /\ n \in T
        BY <1>1
      <4>2. PICK k \in T : \A j \in T : k <= j
        BY <4>1, LeastNat
      <4>3. k \in s
        <5> SUFFICES ASSUME k \notin s PROVE FALSE
          OBVIOUS
        <5>1. \A i \in s : i <= k - 1 /\ i >= 1
          BY <1>1
        <5>3. k \in Nat /\ k - 1 \in Nat
          <6>1. PICK i \in s : TRUE
            BY <2>2
          <6>2. i \in Nat /\ k \in Nat
            BY <1>1
          <6> QED BY <5>1, <6>2
        <5>2. k - 1 \in T
          BY <5>1, <5>3
        <5> QED BY <5>2, <4>2
      <4> QED BY <4>2, <4>3
    <3>m. \A i \in s : i \in Nat /\ i <= m
      BY <1>1, <3>1
    <3>2. Max(s) = m
      BY <3>m, MaxOfIndices
    <3> QED BY <3>2
  <2>3. SUBSET D \subseteq SUBSET E
    BY <1>1
  <2> QED BY <2>1, <2>2, <2>3
<1> HIDE DEF D, E
(* A fold of more goes on from one of seq. *)
<1> DEFINE Longer(g) == [s \in SUBSET E |-> IF s \in SUBSET D THEN g[s] ELSE Do(kind, g[s \ {n + 1}], a)]
<1>3. ASSUME NEW g, IsFold(g, kind, r, seq)
      PROVE  IsFold(Longer(g), kind, r, more)
  <2> DEFINE f == Longer(g)
             G == [s \in SUBSET E |-> IF s = {} THEN r ELSE Do(kind, f[s \ {Max(s)}], more[Max(s)])]
  <2>1. ASSUME NEW s \in SUBSET D PROVE f[s] = G[s]
    <3>1. f[s] = g[s]
      BY <1>2
    <3>2. g[s] = IF s = {} THEN r ELSE Do(kind, g[s \ {Max(s)}], seq[Max(s)])
      BY <1>1, <1>3 DEF IsFold
    <3>3. s # {} => f[s \ {Max(s)}] = g[s \ {Max(s)}] /\ more[Max(s)] = seq[Max(s)]
      BY <1>1, <1>2
    <3> QED BY <1>2, <3>1, <3>2, <3>3
  <2>2. ASSUME NEW s \in (SUBSET E) \ (SUBSET D) PROVE f[s] = G[s]
    <3>1. s # {} /\ Max(s) = n + 1 /\ s \ {n + 1} \in SUBSET D
      BY <1>2
    <3>2. f[s] = Do(kind, g[s \ {n + 1}], a) /\ f[s \ {n + 1}] = g[s \ {n + 1}]
      BY <1>2, <3>1
    <3> QED BY <1>1, <3>1, <3>2
  <2>3. f = G
    <3>1. \A s \in SUBSET E : f[s] = G[s]
      BY <2>1, <2>2
    <3>2. f = [s \in SUBSET E |-> f[s]] /\ G = [s \in SUBSET E |-> G[s]]
      OBVIOUS
    <3> HIDE DEF f, G
    <3> QED BY <3>1, <3>2
  <2> QED BY <1>1, <2>3 DEF IsFold
<1>4. ASSUME NEW h, IsFold(h, kind, r, more)
      PROVE  /\ IsFold([s \in SUBSET D |-> h[s]], kind, r, seq)
             /\ h = Longer([s \in SUBSET D |-> h[s]])
  <2> DEFINE g == [s \in SUBSET D |-> h[s]]
  <2>1. h = [s \in SUBSET E |-> IF s = {} THEN r ELSE Do(kind, h[s \ {Max(s)}], more[Max(s)])]
    BY <1>1, <1>4 DEF IsFold
  <2>2. ASSUME NEW s \in SUBSET D
        PROVE  g[s] = IF s = {} THEN r ELSE Do(kind, g[s \ {Max(s)}], seq[Max(s)])
    <3>1. h[s] = IF s = {} THEN r ELSE Do(kind, h[s \ {Max(s)}], more[Max(s)])
      BY <1>2, <2>1
    <3>2. s # {} => g[s \ {Max(s)}] = h[s \ {Max(s)}] /\ more[Max(s)] = seq[Max(s)]
      BY <1>1, <1>2
    <3> QED BY <3>1, <3>2
  <2>3. g = [s \in SUBSET D |-> IF s = {} THEN r ELSE Do(kind, g[s \ {Max(s)}], seq[Max(s)])]
    BY <2>2
  <2>4. ASSUME NEW s \in SUBSET E PROVE h[s] = Longer(g)[s]
    <3>1. CASE s \in SUBSET D
      BY <3>1
    <3>2. CASE s \notin SUBSET D
      <4>1. s # {} /\ Max(s) = n + 1 /\ s \ {n + 1} \in SUBSET D
        BY <1>2, <3>2
      <4>2. h[s] = Do(kind, h[s \ {n + 1}], a)
        BY <1>1, <2>1, <4>1
      <4> QED BY <3>2, <4>1, <4>2
    <3> QED BY <3>1, <3>2
  <2>5. h = Longer(g)
    BY <2>1, <2>4
  <2>6. IsFold(g, kind, r, seq)
    BY <1>1, <2>3 DEF IsFold
  <2> QED BY <2>5, <2>6
<1>5. PICK old : /\ IsFold(old, kind, r, seq) /\ Folded(kind, r, seq) = old[D]
                 /\ \A g : IsFold(g, kind, r, seq) => g = old
  <2>1. PICK g : IsFold(g, kind, r, seq) /\ Folded(kind, r, seq) = g[DOMAIN seq]
    BY FoldedIs
  <2> QED BY <1>1, <2>1 DEF OneFold
<1>6. IsFold(Longer(old), kind, r, more) /\ \A h : IsFold(h, kind, r, more) => h = Longer(old)
  <2>1. IsFold(Longer(old), kind, r, more)
    BY <1>3, <1>5
  <2>2. ASSUME NEW h, IsFold(h, kind, r, more) PROVE h = Longer(old)
    <3>1. [s \in SUBSET D |-> h[s]] = old
      BY <1>4, <1>5, <2>2
    <3>2. h = Longer([s \in SUBSET D |-> h[s]])
      BY <1>4, <2>2
    <3> HIDE DEF Longer
    <3> QED BY <3>1, <3>2
  <2> HIDE DEF Longer
  <2> QED BY <2>1, <2>2
<1>7. OneFold(kind, r, more)
  BY <1>6 DEF OneFold
<1>8. Folded(kind, r, more) = Longer(old)[E]
  <2>1. \E g : IsFold(g, kind, r, more) /\ Folded(kind, r, more) = g[E]
    BY <1>1, <1>7, FoldedIs
  <2> HIDE DEF Longer
  <2> QED BY <1>6, <2>1
<1>9. Longer(old)[E] = Do(kind, old[D], a)
  <2>1. E \in (SUBSET E) \ (SUBSET D) /\ E \ {n + 1} = D
    BY <1>1 DEF D, E
  <2> QED BY <2>1
<1> QED BY <1>5, <1>7, <1>8, <1>9 DEF more
(* By the least length for which it fails, FoldAppend holds of every sequence. *)
LEMMA FoldSteps ==
  ASSUME NEW kind, NEW r, NEW S, NEW seq \in Seq(S), NEW x \in S
  PROVE  Folded(kind, r, Append(seq, x)) = Do(kind, Folded(kind, r, seq), x)
<1> DEFINE Pre(n) == SubSeq(seq, 1, n)
           T == {n \in 0..Len(seq) : ~OneFold(kind, r, Pre(n))}
<1>1. Pre(0) = <<>> /\ Pre(Len(seq)) = seq
  OBVIOUS
<1>2. T = {}
  <2> SUFFICES ASSUME T # {} PROVE FALSE
    OBVIOUS
  <2>1. PICK n \in T : \A m \in T : n <= m
    <3>1. T \subseteq Nat
      OBVIOUS
    <3> HIDE DEF T
    <3> QED BY <3>1, LeastNat
  <2>2. n \in 1..Len(seq)
    <3>1. n # 0
      <4>1. OneFold(kind, r, Pre(0))
        BY <1>1, FoldEmpty
      <4> HIDE DEF Pre
      <4> QED BY <4>1
    <3> QED BY <3>1
  <2>3. OneFold(kind, r, Pre(n - 1))
    <3>1. n - 1 \in 0..Len(seq) /\ ~(n <= n - 1)
      BY <2>2
    <3> HIDE DEF Pre
    <3> QED BY <2>1, <3>1
  <2>4. Pre(n - 1) \in Seq(S) /\ seq[n] \in S /\ Pre(n) = Append(Pre(n - 1), seq[n])
    BY <2>2
  <2>5. OneFold(kind, r, Pre(n))
    <3> HIDE DEF Pre
    <3> QED BY <2>3, <2>4, FoldAppend
  <2> QED BY <2>5
<1>3. OneFold(kind, r, seq)
  <2>1. Len(seq) \in 0..Len(seq)
    OBVIOUS
  <2> QED BY <1>1, <1>2, <2>1
<1> QED BY <1>3, FoldAppend
-----------------------------------------------------------------------------
(* The inductive invariant: parser and interpreter are in step.  What the parser
   has built from the script so far: *)
Args == {a.arg : a \in SieveActions} \union {""}
ScriptResults == [keep : BOOLEAN, discarded : BOOLEAN, rejected : BOOLEAN, filed : Args,
                  redirect : Seq(Args), vacation : BOOLEAN, applied : SUBSET SieveActions]
Conditions == [nots : Nat, test : SieveTests \union {NoTest}]
Rules == [conds : Seq(Conditions), allOf : BOOLEAN, acts : Seq(SieveActions)]
Modes == {"top", "cond", "open", "list", "sep", "brace", "block", "error"}
ParseRecord == [mode : Modes, conds : Seq(Conditions), allOf : BOOLEAN, acts : Seq(SieveActions),
                nots : Nat, count : Nat, rules : Seq(Rules)]
Places == {"stmt", "after", "test", "open", "list", "sep", "brace", "block"}
RfcRecord == [at : Places, value : BOOLEAN, form : {"one", "allof", "anyof"}, neg : BOOLEAN,
              taken : BOOLEAN, live : BOOLEAN, stopped : BOOLEAN, done : SUBSET SieveActions]

Matches(p) == EvaluateConditions(p.conds, p.allOf, SieveMsg)
RulesDo(p) == ExecuteScript(p.rules, SieveMsg)
BlockDoes(p) == FoldLeft(Apply, RulesDo(p), p.acts)

ScriptTyped(p, r) ==
  /\ p \in ParseRecord /\ r \in RfcRecord
  /\ RulesDo(p) \in ScriptResults /\ BlockDoes(p) \in ScriptResults

(* Where parser and interpreter are, while the parser reads a rule; over an elsif,
   an else and what is outside of blocks it is at "top".                      *)
SamePlace(p, r) ==
  /\ p.mode = "cond" => r.at = "test" /\ r.form = "one"
  /\ p.mode = "open" => r.at = "open"
  /\ p.mode = "list" => r.at = "list"
  /\ p.mode = "sep" => r.at = "sep"
  /\ p.mode = "brace" => r.at \in {"brace", "open"}
  /\ p.mode = "block" => r.at = "block"
  /\ p.mode \notin {"top", "block", "error"} => r.taken = FALSE
  /\ p.mode \in {"open", "list", "sep"} =>
       (p.allOf = TRUE /\ r.form = "allof") \/ (p.allOf = FALSE /\ r.form = "anyof")
  /\ p.mode \in {"top", "cond"} => p.allOf = TRUE
  /\ p.mode \in {"top", "cond", "open"} => p.conds = <<>>
  /\ p.mode \notin {"block", "error"} => p.acts = <<>>

(* The nots before a test. *)
SameSign(p, r) ==
  /\ r.at \notin {"test", "list"} => r.neg = FALSE
  /\ p.mode \in {"cond", "list"} => (r.neg = TRUE <=> p.nots % 2 = 1)
  /\ p.mode \notin {"cond", "list", "error"} => p.nots = 0

(* The value of the tests so far: of an empty list, the neutral one. *)
SameValue(p, r) ==
  /\ p.mode \in {"open", "list"} /\ p.conds = <<>> => r.value = p.allOf
  /\ p.mode = "list" /\ p.conds # <<>> => (r.value = TRUE <=> Matches(p))
  /\ p.mode = "sep" => p.conds # <<>> /\ (r.value = TRUE <=> Matches(p))
  /\ p.mode = "brace" /\ r.at = "brace" => (r.value = TRUE <=> Matches(p))
  /\ p.mode = "block" /\ Matches(p) => r.live = TRUE

(* What is done by the rules read so far, and by the open block. *)
SameDeeds(p, r) ==
  r.stopped = FALSE =>
    /\ RulesDo(p).applied \subseteq r.done
    /\ p.mode = "block" /\ Matches(p) => BlockDoes(p).applied \subseteq r.done

InStep(p, r) ==
  ScriptTyped(p, r) /\ SamePlace(p, r) /\ SameSign(p, r) /\ SameValue(p, r) /\ SameDeeds(p, r)

(* The two folds, each with its own operator: actions are applied in turn, *)
LEMMA ActsFold ==
  ASSUME NEW r
  PROVE  /\ FoldLeft(Apply, r, <<>>) = r
         /\ \A acts \in Seq(SieveActions), a \in SieveActions :
              FoldLeft(Apply, r, Append(acts, a)) = Apply(FoldLeft(Apply, r, acts), a)
<1>1. \A seq : Folded("acts", r, seq) = FoldLeft(Apply, r, seq)
  BY DEF Folded
<1>2. \A q, x : Do("acts", q, x) = Apply(q, x)
  BY DEF Do
<1>3. \A acts \in Seq(SieveActions), a \in SieveActions :
        Folded("acts", r, Append(acts, a)) = Do("acts", Folded("acts", r, acts), a)
  BY FoldSteps
<1> QED BY <1>1, <1>2, <1>3, FoldEmpty

(* and rules executed in turn. *)
LEMMA RulesFold ==
  /\ ExecuteScript(<<>>, SieveMsg) = Kept
  /\ \A rules \in Seq(Rules), x \in Rules :
       ExecuteScript(Append(rules, x), SieveMsg) = ExecuteRule(ExecuteScript(rules, SieveMsg), x, SieveMsg)
<1>1. \A seq : Folded("rules", Kept, seq) = ExecuteScript(seq, SieveMsg)
  BY DEF Folded, ExecuteScript
<1>2. \A q, x : Do("rules", q, x) = ExecuteRule(q, x, SieveMsg)
  BY DEF Do
<1>3. \A rules \in Seq(Rules), x \in Rules :
        Folded("rules", Kept, Append(rules, x)) = Do("rules", Folded("rules", Kept, rules), x)
  BY FoldSteps
<1> QED BY <1>1, <1>2, <1>3, FoldEmpty

(* A test is true or false. *)
LEMMA LeafBoolean ==
  ASSUME NEW t \in SieveTests
  PROVE  LeafTest(t, SieveMsg) \in BOOLEAN
<1>1. HeaderTest(t, SieveMsg) \in BOOLEAN
  BY DEF HeaderTest
<1>2. t.kind = "size" => SizeTest(t, SieveMsg) \in BOOLEAN
  <2>1. t.kind = "size" => SieveMsg.size \in Nat /\ t.limit \in Nat
    BY ScriptAssumption
  <2>2. \A i, j \in Nat : (i > j) \in BOOLEAN /\ (i < j) \in BOOLEAN
    OBVIOUS
  <2> QED BY <2>1, <2>2 DEF SizeTest
<1>3. ExistsTest(t, SieveMsg) \in BOOLEAN
  BY DEF ExistsTest
<1> QED BY <1>1, <1>2, <1>3 DEF LeafTest

(* Apply adds its action to what was applied. *)
LEMMA ApplyLemma ==
  ASSUME NEW r \in ScriptResults, NEW a \in SieveActions
  PROVE  Apply(r, a) \in ScriptResults /\ Apply(r, a).applied = r.applied \union {a}
<1> DEFINE s == [r EXCEPT !.applied = @ \union {a}]
<1>1. s \in ScriptResults /\ s.applied = r.applied \union {a} /\ a.arg \in Args
  BY DEF ScriptResults, Args
<1> HIDE DEF s
<1>2. ASSUME NEW x \in ScriptResults, x.applied = s.applied
      PROVE  x \in ScriptResults /\ x.applied = r.applied \union {a}
  BY <1>1, <1>2
<1>3. /\ [s EXCEPT !.keep = TRUE] \in ScriptResults
      /\ [s EXCEPT !.filed = a.arg, !.keep = FALSE] \in ScriptResults
      /\ [s EXCEPT !.discarded = TRUE, !.keep = FALSE] \in ScriptResults
      /\ [s EXCEPT !.rejected = TRUE, !.keep = FALSE] \in ScriptResults
      /\ [s EXCEPT !.vacation = TRUE] \in ScriptResults
  BY <1>1 DEF ScriptResults
<1>5. [s EXCEPT !.redirect = Append(@, a.arg), !.keep = FALSE] \in ScriptResults
  <2>1. s.redirect \in Seq(Args)
    BY <1>1 DEF ScriptResults
  <2>2. Append(s.redirect, a.arg) \in Seq(Args)
    BY <1>1, <2>1
  <2> QED BY <1>1, <2>2 DEF ScriptResults
<1>4. /\ [s EXCEPT !.keep = TRUE].applied = s.applied
      /\ [s EXCEPT !.filed = a.arg, !.keep = FALSE].applied = s.applied
      /\ [s EXCEPT !.redirect = Append(@, a.arg), !.keep = FALSE].applied = s.applied
      /\ [s EXCEPT !.discarded = TRUE, !.keep = FALSE].applied = s.applied
      /\ [s EXCEPT !.rejected = TRUE, !.keep = FALSE].applied = s.applied
      /\ [s EXCEPT !.vacation = TRUE].applied = s.applied
  BY <1>1 DEF ScriptResults
<1> QED BY <1>1, <1>3, <1>4, <1>5 DEF Apply, s

(* A condition more in a rule. *)
LEMMA MatchesLemma ==
  ASSUME NEW conds \in Seq(Conditions), NEW c \in Conditions, NEW allOf \in BOOLEAN
  PROVE  /\ conds = <<>> =>
              (EvaluateConditions(Append(conds, c), allOf, SieveMsg) <=> Evaluate(c, SieveMsg))
         /\ conds # <<>> /\ allOf = TRUE =>
              (EvaluateConditions(Append(conds, c), allOf, SieveMsg)
                 <=> EvaluateConditions(conds, allOf, SieveMsg) /\ Evaluate(c, SieveMsg))
         /\ conds # <<>> /\ allOf = FALSE =>
              (EvaluateConditions(Append(conds, c), allOf, SieveMsg)
                 <=> EvaluateConditions(conds, allOf, SieveMsg) \/ Evaluate(c, SieveMsg))
<1> DEFINE more == Append(conds, c)
           n == Len(conds)
<1>1. /\ n \in Nat /\ DOMAIN more = 1..(n + 1) /\ DOMAIN conds = 1..n /\ more # <<>>
      /\ more[n + 1] = c /\ \A i \in 1..n : more[i] = conds[i]
      /\ conds = <<>> <=> n = 0
  OBVIOUS
<1> HIDE DEF more, n
<1>2. /\ (\A i \in DOMAIN more : Evaluate(more[i], SieveMsg))
           <=> (\A i \in DOMAIN conds : Evaluate(conds[i], SieveMsg)) /\ Evaluate(c, SieveMsg)
      /\ (\E i \in DOMAIN more : Evaluate(more[i], SieveMsg))
           <=> (\E i \in DOMAIN conds : Evaluate(conds[i], SieveMsg)) \/ Evaluate(c, SieveMsg)
  <2>1. \A i \in 1..(n + 1) : i \in 1..n \/ i = n + 1
    BY <1>1
  <2>2. 1..n \subseteq 1..(n + 1) /\ n + 1 \in 1..(n + 1)
    BY <1>1
  <2> QED BY <1>1, <2>1, <2>2, Zenon
<1>3. CASE allOf = TRUE
  BY <1>1, <1>2, <1>3 DEF EvaluateConditions, more
<1>4. CASE allOf = FALSE
  BY <1>1, <1>2, <1>4 DEF EvaluateConditions, more
<1> QED BY <1>3, <1>4

-----------------------------------------------------------------------------
(* The tokens the interpreter may be given, and what it makes of them. *)
TokenKind(r, t) ==
  \/ t \in SieveActions /\ t.typ \in ActionTypes /\ r.at \in {"stmt", "after", "block"}
  \/ t \notin SieveActions /\
       \/ t.typ = "test" /\ t.arg \in SieveTests /\ r.at \in {"test", "list"}
       \/ t.typ = "not" /\ r.at \in {"test", "list"}
       \/ t.typ = "if" /\ r.at \in {"stmt", "after"}
       \/ t.typ \in {"elsif", "else"} /\ r.at = "after"
       \/ t.typ \in {"allof", "anyof"} /\ r.at = "test" /\ r.neg = FALSE
       \/ t.typ = "(" /\ r.at = "open"
       \/ t.typ \in {",", ")"} /\ r.at = "sep"
       \/ t.typ = "{" /\ r.at = "brace"
       \/ t.typ = "}" /\ r.at = "block"

(* The interpreter is given no other tokens. *)
LEMMA TokenKinds ==
  ASSUME NEW r \in RfcRecord, NEW t \in RfcTokens(r)
  PROVE  TokenKind(r, t)
<1>1. \A x : Sign(x).typ = x
  BY DEF Sign
<1>2. \A a \in SieveActions : a.typ \in ActionTypes
  BY ScriptAssumption
<1>3. \A x : x \notin ActionTypes => Sign(x) \notin SieveActions
  BY <1>1, <1>2
<1>4. \A x \in TestTokens : x.typ = "test" /\ x.arg \in SieveTests /\ x \notin SieveActions
  BY <1>2 DEF TestTokens, ActionTypes
<1>5. r.at \in Places /\ r.neg \in BOOLEAN
  BY DEF RfcRecord
<1>6. {"if", "elsif", "else", "not", "allof", "anyof", "(", ")", ",", "{", "}"} \intersect ActionTypes = {}
  BY DEF ActionTypes
<1>7. CASE r.at \in {"stmt", "after"}
  BY <1>1, <1>2, <1>3, <1>6, <1>7 DEF RfcTokens, TokenKind
<1>8. CASE r.at = "test"
  <2>1. CASE t \in TestTokens
    BY <1>4, <1>8, <2>1 DEF TokenKind
  <2>2. CASE t \notin TestTokens
    <3>1. \/ t = Sign("not")
          \/ r.neg = FALSE /\ t \in {Sign("allof"), Sign("anyof")}
      BY <1>5, <1>8, <2>2 DEF RfcTokens
    <3> QED BY <1>1, <1>3, <1>6, <1>8, <3>1 DEF TokenKind
  <2> QED BY <2>1, <2>2
<1>9. CASE r.at = "list"
  <2>1. CASE t \in TestTokens
    BY <1>4, <1>9, <2>1 DEF TokenKind
  <2>2. CASE t = Sign("not")
    BY <1>1, <1>3, <1>6, <1>9, <2>2 DEF TokenKind
  <2> QED BY <1>9, <2>1, <2>2 DEF RfcTokens
<1>10. CASE r.at \in {"open", "sep", "brace"}
  BY <1>1, <1>3, <1>6, <1>10 DEF RfcTokens, TokenKind
<1>11. CASE r.at = "block"
  BY <1>1, <1>2, <1>3, <1>6, <1>11 DEF RfcTokens, TokenKind
<1> QED BY <1>5, <1>7, <1>8, <1>9, <1>10, <1>11 DEF Places

(* What an action is to the interpreter. *)
LEMMA RfcActs ==
  ASSUME NEW r \in RfcRecord, NEW t \in SieveActions, t.typ \in ActionTypes
  PROVE  LET q == RfcToken(r, t)
         IN  /\ q \in RfcRecord /\ q.neg = r.neg
             /\ q.at = IF r.at = "block" THEN "block" ELSE "stmt"
             /\ q.stopped = FALSE => r.stopped = FALSE /\ r.done \subseteq q.done
             /\ r.at = "block" => q.live = r.live
             /\ r.at = "block" /\ r.live = TRUE /\ q.stopped = FALSE => t \in q.done
<1> DEFINE b == IF r.at = "block" THEN r ELSE [r EXCEPT !.live = TRUE, !.at = "stmt"]
<1>1. RfcToken(r, t) = RfcDo(b, t)
  BY DEF RfcToken, ActionTypes
<1>2. /\ b \in RfcRecord /\ b.neg = r.neg /\ b.at = (IF r.at = "block" THEN "block" ELSE "stmt")
      /\ b.stopped = r.stopped /\ b.done = r.done /\ (r.at = "block" => b.live = r.live)
  BY DEF RfcRecord, Places
<1> HIDE DEF b
<1>3. CASE b.stopped \/ ~b.live
  <2>1. RfcDo(b, t) = b
    BY <1>3 DEF RfcDo
  <2>2. b.stopped \in BOOLEAN /\ b.live \in BOOLEAN
    BY <1>2 DEF RfcRecord
  <2> QED BY <1>1, <1>2, <1>3, <2>1, <2>2
<1>4. CASE ~(b.stopped \/ ~b.live)
  <2>1. RfcDo(b, t) = [b EXCEPT !.done = @ \union {t}, !.stopped = (t.typ = "stop")]
    BY <1>4 DEF RfcDo
  <2>2. b.stopped \in BOOLEAN /\ b.live \in BOOLEAN
    BY <1>2 DEF RfcRecord
  <2> DEFINE z == t.typ = "stop"
             d == [b EXCEPT !.done = @ \union {t}, !.stopped = z]
  <2>3. z \in BOOLEAN /\ b.stopped = FALSE /\ b.done \in SUBSET SieveActions
    BY <1>2, <1>4, <2>2 DEF RfcRecord
  <2> HIDE DEF z
  <2>4. d \in RfcRecord
    BY <1>2, <2>3 DEF RfcRecord
  <2>5. d.at = b.at /\ d.neg = b.neg /\ d.live = b.live /\ d.done = b.done \union {t}
    BY <1>2 DEF RfcRecord
  <2> QED BY <1>1, <1>2, <2>1, <2>3, <2>4, <2>5 DEF z
<1> QED BY <1>3, <1>4

(* What a test is to it. *)
Signed(r, t) == IF r.neg THEN ~LeafTest(t.arg, SieveMsg) ELSE LeafTest(t.arg, SieveMsg)

LEMMA RfcTests ==
  ASSUME NEW r \in RfcRecord, NEW t, t \notin SieveActions, t.typ = "test", t.arg \in SieveTests
  PROVE  LET q == RfcToken(r, t)
         IN  /\ q \in RfcRecord /\ q.neg = FALSE /\ q.form = r.form /\ q.taken = r.taken
             /\ q.stopped = r.stopped /\ q.done = r.done
             /\ r.form = "one" => q.at = "brace" /\ (q.value = TRUE <=> Signed(r, t))
             /\ r.form = "allof" => q.at = "sep" /\ (q.value = TRUE <=> r.value = TRUE /\ Signed(r, t))
             /\ r.form = "anyof" => q.at = "sep" /\ (q.value = TRUE <=> r.value = TRUE \/ Signed(r, t))
<1> DEFINE v == Signed(r, t)
           w == IF r.form = "one" THEN v ELSE IF r.form = "allof" THEN r.value /\ v ELSE r.value \/ v
           x == IF r.form = "one" THEN "brace" ELSE "sep"
<1>1. RfcToken(r, t) = [r EXCEPT !.neg = FALSE, !.value = w, !.at = x]
  BY DEF RfcToken, RfcTest, Signed
<1>2. v \in BOOLEAN /\ r.value \in BOOLEAN /\ r.form \in {"one", "allof", "anyof"}
  BY LeafBoolean DEF Signed, RfcRecord
<1> HIDE DEF v
<1>3. /\ w \in BOOLEAN
      /\ r.form = "one" => (w = TRUE <=> v)
      /\ r.form = "allof" => (w = TRUE <=> r.value = TRUE /\ v)
      /\ r.form = "anyof" => (w = TRUE <=> r.value = TRUE \/ v)
  BY <1>2
<1> HIDE DEF w
<1>4. x \in Places
  BY DEF Places
<1> QED BY <1>1, <1>2, <1>3, <1>4 DEF RfcRecord, v

(* The other tokens move it, and set the value a list of tests begins with. *)
Moves(q, r) ==
  /\ q \in RfcRecord /\ q.stopped = r.stopped /\ q.done = r.done

Like(q, r) ==
  Moves(q, r) /\ q.form = r.form /\ q.value = r.value /\ q.taken = r.taken

LEMMA RfcSigns ==
  ASSUME NEW r \in RfcRecord, NEW t, t \notin SieveActions
  PROVE  LET q == RfcToken(r, t)
         IN  /\ t.typ = "not" => Like(q, r) /\ q.at = r.at /\ (q.neg = TRUE <=> r.neg = FALSE)
             /\ t.typ = "if" => Moves(q, r) /\ q.at = "test" /\ q.form = "one" /\ q.taken = FALSE /\ q.neg = r.neg
             /\ t.typ = "elsif" => Moves(q, r) /\ q.at = "test" /\ q.neg = r.neg
             /\ t.typ = "else" => Moves(q, r) /\ q.at = "brace" /\ q.neg = r.neg
             /\ t.typ = "allof" => Moves(q, r) /\ q.at = "open" /\ q.form = "allof" /\ q.value = TRUE
                                   /\ q.taken = r.taken /\ q.neg = r.neg
             /\ t.typ = "anyof" => Moves(q, r) /\ q.at = "open" /\ q.form = "anyof" /\ q.value = FALSE
                                   /\ q.taken = r.taken /\ q.neg = r.neg
             /\ t.typ \in {"(", ","} => Like(q, r) /\ q.at = "list" /\ q.neg = r.neg
             /\ t.typ = ")" => Like(q, r) /\ q.at = "brace" /\ q.neg = r.neg
             /\ t.typ = "{" => Moves(q, r) /\ q.at = "block" /\ q.neg = r.neg
                               /\ (q.live = TRUE <=> r.taken = FALSE /\ r.value = TRUE)
             /\ t.typ = "}" => Moves(q, r) /\ q.at = "after" /\ q.neg = r.neg
<1> DEFINE q == RfcToken(r, t)
<1>0. r.value \in BOOLEAN /\ r.taken \in BOOLEAN /\ r.neg \in BOOLEAN
  BY DEF RfcRecord
<1>1. ASSUME t.typ = "not" PROVE q = [r EXCEPT !.neg = ~@]
  BY <1>1 DEF RfcToken
<1>2. ASSUME t.typ = "if" PROVE q = [r EXCEPT !.at = "test", !.form = "one", !.taken = FALSE]
  BY <1>2 DEF RfcToken
<1>3. ASSUME t.typ = "elsif" PROVE q = [r EXCEPT !.at = "test", !.form = "one"]
  BY <1>3 DEF RfcToken
<1>4. ASSUME t.typ = "else" PROVE q = [r EXCEPT !.at = "brace", !.value = TRUE]
  BY <1>4 DEF RfcToken
<1>5. ASSUME t.typ = "allof" PROVE q = [r EXCEPT !.at = "open", !.form = "allof", !.value = TRUE]
  BY <1>5 DEF RfcToken
<1>6. ASSUME t.typ = "anyof" PROVE q = [r EXCEPT !.at = "open", !.form = "anyof", !.value = FALSE]
  BY <1>6 DEF RfcToken
<1>7. ASSUME t.typ \in {"(", ","} PROVE q = [r EXCEPT !.at = "list"]
  BY <1>7 DEF RfcToken
<1>8. ASSUME t.typ = ")" PROVE q = [r EXCEPT !.at = "brace"]
  BY <1>8 DEF RfcToken
<1>9. ASSUME t.typ = "{" PROVE q = [r EXCEPT !.at = "block", !.live = (~r.taken /\ r.value)]
  BY <1>9 DEF RfcToken
<1>10. ASSUME t.typ = "}" PROVE q = [r EXCEPT !.at = "after", !.taken = (@ \/ r.value)]
  BY <1>10 DEF RfcToken
<1> HIDE DEF q
<1>11. t.typ = "not" => Like(q, r) /\ q.at = r.at /\ (q.neg = TRUE <=> r.neg = FALSE)
  BY <1>0, <1>1 DEF Like, Moves, RfcRecord
<1>12. t.typ = "if" => Moves(q, r) /\ q.at = "test" /\ q.form = "one" /\ q.taken = FALSE /\ q.neg = r.neg
  BY <1>2 DEF Moves, RfcRecord, Places
<1>13. t.typ = "elsif" => Moves(q, r) /\ q.at = "test" /\ q.neg = r.neg
  BY <1>3 DEF Moves, RfcRecord, Places
<1>14. t.typ = "else" => Moves(q, r) /\ q.at = "brace" /\ q.neg = r.neg
  BY <1>4 DEF Moves, RfcRecord, Places
<1>15. t.typ = "allof" => Moves(q, r) /\ q.at = "open" /\ q.form = "allof" /\ q.value = TRUE
                          /\ q.taken = r.taken /\ q.neg = r.neg
  BY <1>5 DEF Moves, RfcRecord, Places
<1>16. t.typ = "anyof" => Moves(q, r) /\ q.at = "open" /\ q.form = "anyof" /\ q.value = FALSE
                          /\ q.taken = r.taken /\ q.neg = r.neg
  BY <1>6 DEF Moves, RfcRecord, Places
<1>17. t.typ \in {"(", ","} => Like(q, r) /\ q.at = "list" /\ q.neg = r.neg
  BY <1>7 DEF Like, Moves, RfcRecord, Places
<1>18. t.typ = ")" => Like(q, r) /\ q.at = "brace" /\ q.neg = r.neg
  BY <1>8 DEF Like, Moves, RfcRecord, Places
<1>19. t.typ = "{" => Moves(q, r) /\ q.at = "block" /\ q.neg = r.neg
                      /\ (q.live = TRUE <=> r.taken = FALSE /\ r.value = TRUE)
  <2>1. (~r.taken /\ r.value) \in BOOLEAN
    OBVIOUS
  <2> QED BY <1>0, <1>9, <2>1 DEF Moves, RfcRecord, Places
<1>20. t.typ = "}" => Moves(q, r) /\ q.at = "after" /\ q.neg = r.neg
  <2>1. (r.taken \/ r.value) \in BOOLEAN
    OBVIOUS
  <2> QED BY <1>10, <2>1 DEF Moves, RfcRecord, Places
<1> QED BY <1>11, <1>12, <1>13, <1>14, <1>15, <1>16, <1>17, <1>18, <1>19, <1>20 DEF q

-----------------------------------------------------------------------------
(* What every token leaves true: the interpreter's deeds grow until it stops. *)
LEMMA RfcGrows ==
  ASSUME NEW r \in RfcRecord, NEW t, TokenKind(r, t), r.at \notin {"test", "list"} => r.neg = FALSE
  PROVE  LET q == RfcToken(r, t)
         IN  /\ q \in RfcRecord /\ (q.at \notin {"test", "list"} => q.neg = FALSE)
             /\ q.stopped = FALSE => r.stopped = FALSE /\ r.done \subseteq q.done
<1>1. CASE t \in SieveActions
  BY <1>1, RfcActs DEF TokenKind
<1>2. CASE t \notin SieveActions
  <2>1. CASE t.typ = "test"
    BY <1>2, <2>1, RfcTests DEF TokenKind
  <2>2. CASE t.typ = "not"
    <3>1. r.at \in {"test", "list"}
      BY <1>2, <2>2 DEF TokenKind
    <3> QED BY <1>2, <2>2, <3>1, RfcSigns DEF Like, Moves
  <2>3. CASE t.typ \in {"(", ",", "if", "elsif"}
    BY <1>2, <2>3, RfcSigns DEF Like, Moves
  <2>4. CASE t.typ \in {")", "else", "{", "}"}
    <3>1. r.neg = FALSE
      BY <1>2, <2>4 DEF TokenKind
    <3>2. CASE t.typ = ")"
      BY <1>2, <3>1, <3>2, RfcSigns DEF Like, Moves
    <3>3. CASE t.typ \in {"else", "{", "}"}
      BY <1>2, <3>1, <3>3, RfcSigns DEF Moves
    <3> QED BY <2>4, <3>2, <3>3
  <2>5. CASE t.typ \in {"allof", "anyof"}
    <3>1. r.neg = FALSE
      BY <1>2, <2>5 DEF TokenKind
    <3> QED BY <1>2, <2>5, <3>1, RfcSigns DEF Moves
  <2> QED BY <1>2, <2>1, <2>2, <2>3, <2>4, <2>5 DEF TokenKind
<1> QED BY <1>1, <1>2

(* A parser that goes on with the rules and actions it has. *)
LEMMA DeedsKept ==
  ASSUME NEW p, NEW r, NEW t, InStep(p, r), TokenKind(r, t),
         NEW p2 \in ParseRecord, p2.rules = p.rules, p2.acts = p.acts, p2.mode # "block"
  PROVE  ScriptTyped(p2, RfcToken(r, t)) /\ SameDeeds(p2, RfcToken(r, t))
<1>1. RulesDo(p2) = RulesDo(p) /\ BlockDoes(p2) = BlockDoes(p)
  BY DEF RulesDo, BlockDoes
<1>2. r \in RfcRecord /\ (r.at \notin {"test", "list"} => r.neg = FALSE)
  BY DEF InStep, ScriptTyped, SameSign
<1>3. ScriptTyped(p2, RfcToken(r, t))
  BY <1>1, <1>2, RfcGrows DEF InStep, ScriptTyped
<1>4. SameDeeds(p2, RfcToken(r, t))
  BY <1>1, <1>2, RfcGrows DEF InStep, SameDeeds
<1> QED BY <1>3, <1>4

(* An error ends the comparison. *)
LEMMA ErrorInStep ==
  ASSUME NEW p, NEW r, NEW t, InStep(p, r), TokenKind(r, t),
         NEW p2 \in ParseRecord, p2.rules = p.rules, p2.acts = p.acts, p2.mode = "error"
  PROVE  InStep(p2, RfcToken(r, t))
<1>1. ScriptTyped(p2, RfcToken(r, t)) /\ SameDeeds(p2, RfcToken(r, t))
  BY DeedsKept
<1>2. SamePlace(p2, RfcToken(r, t)) /\ SameValue(p2, RfcToken(r, t))
  BY DEF SamePlace, SameValue
<1>3. r \in RfcRecord /\ (r.at \notin {"test", "list"} => r.neg = FALSE)
  BY DEF InStep, ScriptTyped, SameSign
<1>4. SameSign(p2, RfcToken(r, t))
  BY <1>3, RfcGrows DEF SameSign
<1> QED BY <1>1, <1>2, <1>4 DEF InStep

(* A parse error keeps what was read. *)
LEMMA ParseErrorIs ==
  ASSUME NEW p \in ParseRecord
  PROVE  /\ ParseError(p) \in ParseRecord /\ ParseError(p).mode = "error"
         /\ ParseError(p).rules = p.rules /\ ParseError(p).acts = p.acts
BY DEF ParseError, ParseRecord, Modes

(* Each place of the parser, with each token it may meet there: outside of rules *)
LEMMA TopInStep ==
  ASSUME NEW p, NEW r, NEW t, InStep(p, r), TokenKind(r, t), p.mode \in {"top", "error"}
  PROVE  InStep(ParseToken(p, t), RfcToken(r, t))
<1> DEFINE q == RfcToken(r, t)
<1>0. /\ p \in ParseRecord /\ r \in RfcRecord
      /\ SamePlace(p, r) /\ SameSign(p, r) /\ SameValue(p, r) /\ SameDeeds(p, r)
      /\ r.at \notin {"test", "list"} => r.neg = FALSE
  BY DEF InStep, ScriptTyped, SameSign
<1>1. CASE p.mode = "error"
  <2>1. ParseToken(p, t) = p
    BY <1>1 DEF ParseToken
  <2> QED BY <1>0, <1>1, <2>1, ErrorInStep
<1>2. CASE p.mode = "top" /\ t.typ # "if"
  <2>1. ParseToken(p, t) = p
    BY <1>2 DEF ParseToken, ParseTop
  <2>2. ScriptTyped(p, q) /\ SameDeeds(p, q)
    BY <1>0, <1>2, DeedsKept
  <2>3. SamePlace(p, q) /\ SameSign(p, q) /\ SameValue(p, q)
    BY <1>0, <1>2, RfcGrows DEF SamePlace, SameSign, SameValue
  <2> QED BY <2>1, <2>2, <2>3 DEF InStep
<1>3. CASE p.mode = "top" /\ t.typ = "if"
  <2> DEFINE p2 == [p EXCEPT !.mode = "cond"]
  <2>1. ParseToken(p, t) = p2
    BY <1>3 DEF ParseToken, ParseTop
  <2>2. /\ p2 \in ParseRecord /\ p2.mode = "cond" /\ p2.rules = p.rules /\ p2.acts = p.acts
        /\ p2.conds = p.conds /\ p2.allOf = p.allOf /\ p2.nots = p.nots
    BY <1>0 DEF ParseRecord, Modes
  <2> HIDE DEF p2
  <2>3. ScriptTyped(p2, q) /\ SameDeeds(p2, q)
    BY <2>2, DeedsKept
  <2>4. t \notin SieveActions /\ r.at \in {"stmt", "after"}
    BY <1>3 DEF TokenKind, ActionTypes
  <2>5. q.at = "test" /\ q.form = "one" /\ q.taken = FALSE /\ q.neg = FALSE
    BY <1>0, <1>3, <2>4, RfcSigns
  <2>6. SamePlace(p2, q)
    BY <1>0, <1>3, <2>2, <2>5 DEF SamePlace
  <2>7. SameSign(p2, q)
    <3>1. p2.nots = 0
      BY <1>0, <1>3, <2>2 DEF SameSign
    <3> QED BY <2>2, <2>5, <3>1 DEF SameSign
  <2>8. SameValue(p2, q)
    BY <2>2 DEF SameValue
  <2> QED BY <2>1, <2>3, <2>6, <2>7, <2>8 DEF InStep
<1> QED BY <1>1, <1>2, <1>3

(* parseSingleCondition: an error, one more not, or a condition. *)
Goes(p2, p, mode, nots) ==
  /\ p2 \in ParseRecord /\ p2.rules = p.rules /\ p2.acts = p.acts
  /\ p2.mode = mode /\ p2.nots = nots

LEMMA SingleIs ==
  ASSUME NEW p \in ParseRecord, NEW t, NEW then \in Modes, t.typ = "test" => t.arg \in SieveTests
  PROVE  LET p2 == SingleCondition(p, t, then)
             c == [nots |-> p.nots, test |-> t.arg]
         IN  \/ Goes(p2, p, "error", p.nots)
             \/ t.typ = "not" /\ Goes(p2, p, p.mode, p.nots + 1) /\ p2.conds = p.conds /\ p2.allOf = p.allOf
             \/ t.typ = "test" /\ Goes(p2, p, then, 0) /\ p2.conds = Append(p.conds, c) /\ p2.allOf = p.allOf
             \/ t.typ \notin {"not", "test"} /\ Goes(p2, p, then, 0)
<1> DEFINE p2 == SingleCondition(p, t, then)
           c == [nots |-> p.nots, test |-> IF t.typ = "test" THEN t.arg ELSE NoTest]
<1>0. /\ p.nots \in Nat /\ c \in Conditions /\ p.conds \in Seq(Conditions)
      /\ c.test = (IF t.typ = "test" THEN t.arg ELSE NoTest)
  BY DEF Conditions, ParseRecord
<1>1. CASE 3 + p.nots > MaxConditionDepth \/ RefusedTest(t)
  <2>1. p2 = ParseError(p)
    BY <1>1 DEF SingleCondition
  <2> QED BY <2>1 DEF ParseError, Goes, ParseRecord, Modes
<1>2. CASE ~(3 + p.nots > MaxConditionDepth \/ RefusedTest(t)) /\ t.typ = "not"
  <2>1. p2 = [p EXCEPT !.nots = @ + 1]
    BY <1>2 DEF SingleCondition
  <2>2. p.nots + 1 \in Nat
    BY <1>0
  <2> QED BY <1>2, <2>1, <2>2 DEF Goes, ParseRecord
<1>3. CASE ~(3 + p.nots > MaxConditionDepth \/ RefusedTest(t)) /\ t.typ # "not" /\ c.test = NoTest /\ p.nots = 0
  <2>1. p2 = [p EXCEPT !.mode = then]
    BY <1>3 DEF SingleCondition
  <2>2. t.typ # "test"
    BY <1>0, <1>3, ScriptAssumption
  <2> QED BY <1>3, <2>1, <2>2 DEF Goes, ParseRecord
<1>4. CASE ~(3 + p.nots > MaxConditionDepth \/ RefusedTest(t)) /\ t.typ # "not" /\ ~(c.test = NoTest /\ p.nots = 0)
  <2>1. p2 = [p EXCEPT !.mode = then, !.nots = 0, !.conds = Append(@, c)]
    BY <1>4 DEF SingleCondition
  <2> HIDE DEF c
  <2>2. Append(p.conds, c) \in Seq(Conditions)
    BY <1>0
  <2>3. Goes(p2, p, then, 0) /\ p2.conds = Append(p.conds, c) /\ p2.allOf = p.allOf
    <3> HIDE DEF p2
    <3> QED BY <2>1, <2>2 DEF Goes, ParseRecord
  <2> QED BY <1>4, <2>3 DEF c
<1> QED BY <1>1, <1>2, <1>3, <1>4

(* One more not changes the sign. *)
LEMMA Parity ==
  ASSUME NEW n \in Nat
  PROVE  (n + 1) % 2 = 1 <=> ~(n % 2 = 1)
OBVIOUS

(* A test has the value of its condition. *)
LEMMA SignedIs ==
  ASSUME NEW r \in RfcRecord, NEW t, t.arg \in SieveTests, NEW n \in Nat, r.neg = TRUE <=> n % 2 = 1
  PROVE  /\ [nots |-> n, test |-> t.arg] \in Conditions
         /\ Evaluate([nots |-> n, test |-> t.arg], SieveMsg) <=> Signed(r, t)
<1>1. [nots |-> n, test |-> t.arg] \in Conditions
  BY DEF Conditions
<1>2. r.neg \in BOOLEAN /\ (n % 2 = 0 \/ n % 2 = 1)
  BY DEF RfcRecord
<1> DEFINE c == [nots |-> n, test |-> t.arg]
<1>3. c.nots = n /\ c.test = t.arg
  OBVIOUS
<1> HIDE DEF c
<1>4. LeafTest(t.arg, SieveMsg) \in BOOLEAN
  BY LeafBoolean
<1>5. CASE n % 2 = 0
  <2>1. Evaluate(c, SieveMsg) = LeafTest(t.arg, SieveMsg) /\ Signed(r, t) = LeafTest(t.arg, SieveMsg)
    BY <1>2, <1>3, <1>5 DEF Evaluate, Signed
  <2> QED BY <1>1, <2>1 DEF c
<1>6. CASE n % 2 = 1
  <2>1. Evaluate(c, SieveMsg) = ~LeafTest(t.arg, SieveMsg) /\ Signed(r, t) = ~LeafTest(t.arg, SieveMsg)
    BY <1>2, <1>3, <1>4, <1>6 DEF Evaluate, Signed
  <2> QED BY <1>1, <2>1 DEF c
<1> QED BY <1>2, <1>5, <1>6

(* at the condition of an if *)
LEMMA CondInStep ==
  ASSUME NEW p, NEW r, NEW t, InStep(p, r), TokenKind(r, t), p.mode = "cond"
  PROVE  InStep(ParseToken(p, t), RfcToken(r, t))
<1> DEFINE q == RfcToken(r, t)
           p2 == ParseToken(p, t)
<1>0. /\ p \in ParseRecord /\ r \in RfcRecord /\ r.at = "test" /\ r.form = "one"
      /\ r.taken = FALSE /\ p.allOf = TRUE /\ p.conds = <<>> /\ p.acts = <<>> /\ p.nots \in Nat
      /\ r.neg = TRUE <=> p.nots % 2 = 1
  BY DEF InStep, ScriptTyped, SamePlace, SameSign, ParseRecord
<1>t. /\ t \notin SieveActions
      /\ \/ t.typ = "test" /\ t.arg \in SieveTests
         \/ t.typ = "not"
         \/ t.typ \in {"allof", "anyof"} /\ r.neg = FALSE
  BY <1>0 DEF TokenKind
<1>p. p2 = ParseCondition(p, t)
  BY DEF ParseToken
<1>1. CASE t.typ \in {"allof", "anyof"} /\ p.nots = 0
  <2>1. p2 = [p EXCEPT !.mode = "open", !.allOf = (t.typ = "allof")]
    BY <1>1, <1>p DEF ParseCondition
  <2>a. (t.typ = "allof") \in BOOLEAN
    OBVIOUS
  <2>2. /\ Goes(p2, p, "open", 0) /\ p2.conds = <<>>
        /\ p2.allOf = (t.typ = "allof")
    <3> HIDE DEF p2
    <3> QED BY <1>0, <1>1, <2>1, <2>a DEF Goes, ParseRecord, Modes
  <2> HIDE DEF p2
  <2>3. q.at = "open" /\ q.form = t.typ /\ q.value = (t.typ = "allof") /\ q.taken = FALSE /\ q.neg = FALSE
    BY <1>0, <1>1, <1>t, RfcSigns
  <2>4. ScriptTyped(p2, q) /\ SameDeeds(p2, q)
    BY <2>2, DeedsKept DEF Goes
  <2> HIDE DEF q
  <2>5. SamePlace(p2, q)
    BY <1>0, <1>1, <2>2, <2>3 DEF SamePlace, Goes
  <2>6. SameSign(p2, q) /\ SameValue(p2, q)
    BY <2>2, <2>3 DEF SameSign, SameValue, Goes
  <2> QED BY <2>4, <2>5, <2>6 DEF InStep, p2, q
<1>2. CASE ~(t.typ \in {"allof", "anyof"} /\ p.nots = 0)
  <2>1. p2 = SingleCondition(p, t, "brace")
    BY <1>2, <1>p DEF ParseCondition
  <2>2. \/ Goes(p2, p, "error", p.nots)
        \/ t.typ = "not" /\ Goes(p2, p, p.mode, p.nots + 1) /\ p2.conds = p.conds /\ p2.allOf = p.allOf
        \/ /\ t.typ = "test" /\ Goes(p2, p, "brace", 0)
           /\ p2.conds = Append(p.conds, [nots |-> p.nots, test |-> t.arg]) /\ p2.allOf = p.allOf
        \/ t.typ \notin {"not", "test"} /\ Goes(p2, p, "brace", 0)
    BY <1>0, <1>t, <2>1, SingleIs DEF Modes
  <2> HIDE DEF p2
  <2>3. CASE Goes(p2, p, "error", p.nots)
    BY <2>3, ErrorInStep DEF Goes, p2
  <2>4. CASE t.typ = "not" /\ Goes(p2, p, p.mode, p.nots + 1) /\ p2.conds = p.conds /\ p2.allOf = p.allOf
    <3>1. q.at = "test" /\ q.form = "one" /\ q.taken = FALSE /\ (q.neg = TRUE <=> r.neg = FALSE)
      BY <1>0, <1>t, <2>4, RfcSigns DEF Like
    <3>2. ScriptTyped(p2, q) /\ SameDeeds(p2, q)
      BY <2>4, DeedsKept DEF Goes
    <3>3. r.neg \in BOOLEAN
      BY <1>0 DEF RfcRecord
    <3> HIDE DEF q
    <3>4. SamePlace(p2, q) /\ SameValue(p2, q)
      BY <1>0, <2>4, <3>1 DEF SamePlace, SameValue, Goes
    <3>5. SameSign(p2, q)
      BY <1>0, <2>4, <3>1, <3>3, Parity DEF SameSign, Goes
    <3> QED BY <3>2, <3>4, <3>5 DEF InStep, p2, q
  <2>5. CASE /\ t.typ = "test" /\ Goes(p2, p, "brace", 0)
             /\ p2.conds = Append(p.conds, [nots |-> p.nots, test |-> t.arg]) /\ p2.allOf = p.allOf
    <3>1. q.at = "brace" /\ q.taken = FALSE /\ q.neg = FALSE /\ (q.value = TRUE <=> Signed(r, t))
      BY <1>0, <1>t, <2>5, RfcTests
    <3>2. ScriptTyped(p2, q) /\ SameDeeds(p2, q)
      BY <2>5, DeedsKept DEF Goes
    <3>3. Matches(p2) <=> Signed(r, t)
      <4> DEFINE c == [nots |-> p.nots, test |-> t.arg]
      <4>1. c \in Conditions /\ (Evaluate(c, SieveMsg) <=> Signed(r, t))
        BY <1>0, <1>t, <2>5, SignedIs
      <4>2. p.conds \in Seq(Conditions) /\ p.allOf \in BOOLEAN
        BY <1>0 DEF ParseRecord
      <4>3. p2.conds = Append(p.conds, c) /\ p2.allOf = p.allOf
        BY <2>5
      <4> HIDE DEF c
      <4>4. EvaluateConditions(Append(p.conds, c), p.allOf, SieveMsg) <=> Evaluate(c, SieveMsg)
        BY <1>0, <4>1, <4>2, MatchesLemma
      <4> QED BY <4>1, <4>3, <4>4 DEF Matches
    <3> HIDE DEF q
    <3>4. SamePlace(p2, q) /\ SameSign(p2, q)
      BY <1>0, <2>5, <3>1 DEF SamePlace, SameSign, Goes
    <3>5. SameValue(p2, q)
      BY <2>5, <3>1, <3>3 DEF SameValue, Goes
    <3> QED BY <3>2, <3>4, <3>5 DEF InStep, p2, q
  (* "not not allof": the parser is at an error with the next token. *)
  <2>6. CASE t.typ \notin {"not", "test"} /\ Goes(p2, p, "brace", 0)
    <3>1. q.at = "open" /\ q.taken = FALSE /\ q.neg = FALSE
      BY <1>0, <1>t, <2>6, RfcSigns
    <3>2. ScriptTyped(p2, q) /\ SameDeeds(p2, q)
      BY <2>6, DeedsKept DEF Goes
    <3> HIDE DEF q
    <3>3. SamePlace(p2, q) /\ SameSign(p2, q) /\ SameValue(p2, q)
      BY <1>0, <2>6, <3>1 DEF SamePlace, SameSign, SameValue, Goes
    <3> QED BY <3>2, <3>3 DEF InStep, p2, q
  <2> QED BY <2>2, <2>3, <2>4, <2>5, <2>6
<1> QED BY <1>1, <1>2

(* after a test of a list *)
LEMMA SepInStep ==
  ASSUME NEW p, NEW r, NEW t, InStep(p, r), TokenKind(r, t), p.mode = "sep"
  PROVE  InStep(ParseToken(p, t), RfcToken(r, t))
<1> DEFINE q == RfcToken(r, t)
           p2 == ParseToken(p, t)
           m == IF t.typ = ")" THEN "brace" ELSE "list"
<1>0. /\ p \in ParseRecord /\ r \in RfcRecord /\ r.at = "sep" /\ r.taken = FALSE /\ r.neg = FALSE
      /\ p.acts = <<>> /\ p.nots = 0 /\ p.conds # <<>> /\ (r.value = TRUE <=> Matches(p))
      /\ \/ p.allOf = TRUE /\ r.form = "allof"
         \/ p.allOf = FALSE /\ r.form = "anyof"
  BY DEF InStep, ScriptTyped, SamePlace, SameSign, SameValue
<1>t. t \notin SieveActions /\ t.typ \in {",", ")"}
  BY <1>0 DEF TokenKind
<1>1. p2 = IF t.typ = ")" THEN [p EXCEPT !.mode = "brace", !.count = 0] ELSE [p EXCEPT !.mode = "list"]
  BY <1>0, <1>t DEF ParseToken, ParseConditionList
<1>2. Goes(p2, p, m, 0) /\ p2.conds = p.conds /\ p2.allOf = p.allOf
  <2> HIDE DEF p2
  <2> QED BY <1>0, <1>1 DEF Goes, ParseRecord, Modes
<1> HIDE DEF p2
<1>3. q.at = m /\ Like(q, r) /\ q.neg = FALSE
  BY <1>0, <1>t, RfcSigns
<1>4. ScriptTyped(p2, q) /\ SameDeeds(p2, q)
  BY <1>2, DeedsKept DEF Goes
<1> HIDE DEF q
<1>5. SamePlace(p2, q)
  BY <1>0, <1>2, <1>3 DEF SamePlace, Goes, Like
<1>6. SameSign(p2, q)
  BY <1>2, <1>3 DEF SameSign, Goes
<1>7. SameValue(p2, q)
  <2>1. Matches(p2) <=> Matches(p)
    BY <1>2 DEF Matches
  <2> QED BY <1>0, <1>2, <1>3, <2>1 DEF SameValue, Goes, Like
<1> QED BY <1>4, <1>5, <1>6, <1>7 DEF InStep, p2, q

(* before a test of a list *)
LEMMA ListInStep ==
  ASSUME NEW p, NEW r, NEW t, InStep(p, r), TokenKind(r, t), p.mode = "list"
  PROVE  InStep(ParseToken(p, t), RfcToken(r, t))
<1> DEFINE q == RfcToken(r, t)
           p2 == ParseToken(p, t)
           p1 == [p EXCEPT !.count = IF p.nots = 0 THEN @ + 1 ELSE @, !.mode = "list"]
           c == [nots |-> p.nots, test |-> t.arg]
<1>0. /\ p \in ParseRecord /\ r \in RfcRecord /\ r.at = "list" /\ r.taken = FALSE /\ p.acts = <<>>
      /\ p.nots \in Nat /\ (r.neg = TRUE <=> p.nots % 2 = 1) /\ p.conds \in Seq(Conditions)
      /\ \/ p.allOf = TRUE /\ r.form = "allof"
         \/ p.allOf = FALSE /\ r.form = "anyof"
      /\ p.conds = <<>> => r.value = p.allOf
      /\ p.conds # <<>> => (r.value = TRUE <=> Matches(p))
  BY DEF InStep, ScriptTyped, SamePlace, SameSign, SameValue, ParseRecord
<1>t. /\ t \notin SieveActions
      /\ \/ t.typ = "test" /\ t.arg \in SieveTests
         \/ t.typ = "not"
  BY <1>0 DEF TokenKind
<1>1. CASE p.nots = 0 /\ p.count >= MaxArraySize
  <2>1. p2 = ParseError(p)
    BY <1>1, <1>t DEF ParseToken, ParseConditionList
  <2> QED BY <1>0, <2>1, ParseErrorIs, ErrorInStep
<1>2. CASE ~(p.nots = 0 /\ p.count >= MaxArraySize)
  <2>1. p2 = SingleCondition(p1, t, "sep")
    BY <1>2, <1>t DEF ParseToken, ParseConditionList
  <2>2. /\ Goes(p1, p, "list", p.nots) /\ p1.conds = p.conds /\ p1.allOf = p.allOf
    <3>1. p.count \in Nat /\ p.count + 1 \in Nat
      BY <1>0 DEF ParseRecord
    <3> QED BY <1>0, <3>1 DEF Goes, ParseRecord, Modes
  <2> HIDE DEF p1
  <2>3. LET s == SingleCondition(p1, t, "sep")
            d == [nots |-> p1.nots, test |-> t.arg]
        IN  \/ Goes(s, p1, "error", p1.nots)
            \/ t.typ = "not" /\ Goes(s, p1, p1.mode, p1.nots + 1) /\ s.conds = p1.conds /\ s.allOf = p1.allOf
            \/ t.typ = "test" /\ Goes(s, p1, "sep", 0) /\ s.conds = Append(p1.conds, d) /\ s.allOf = p1.allOf
            \/ t.typ \notin {"not", "test"} /\ Goes(s, p1, "sep", 0)
    <3>1. p1 \in ParseRecord /\ "sep" \in Modes
      BY <2>2 DEF Goes, Modes
    <3> QED BY <1>t, <3>1, SingleIs
  <2>4. \/ Goes(p2, p, "error", p.nots)
        \/ t.typ = "not" /\ Goes(p2, p, "list", p.nots + 1) /\ p2.conds = p.conds /\ p2.allOf = p.allOf
        \/ t.typ = "test" /\ Goes(p2, p, "sep", 0) /\ p2.conds = Append(p.conds, c) /\ p2.allOf = p.allOf
    <3> HIDE DEF p2
    <3> QED BY <1>t, <2>1, <2>2, <2>3 DEF Goes
  <2> HIDE DEF p2
  <2>5. CASE Goes(p2, p, "error", p.nots)
    BY <2>5, ErrorInStep DEF Goes, p2
  <2>6. CASE t.typ = "not" /\ Goes(p2, p, "list", p.nots + 1) /\ p2.conds = p.conds /\ p2.allOf = p.allOf
    <3>1. q.at = "list" /\ Like(q, r) /\ (q.neg = TRUE <=> r.neg = FALSE)
      BY <1>0, <1>t, <2>6, RfcSigns
    <3>2. ScriptTyped(p2, q) /\ SameDeeds(p2, q)
      BY <2>6, DeedsKept DEF Goes
    <3>3. r.neg \in BOOLEAN
      BY <1>0 DEF RfcRecord
    <3>4. Matches(p2) <=> Matches(p)
      BY <2>6 DEF Matches
    <3> HIDE DEF q
    <3>5. SamePlace(p2, q)
      BY <1>0, <2>6, <3>1 DEF SamePlace, Goes, Like
    <3>6. SameSign(p2, q)
      BY <1>0, <2>6, <3>1, <3>3, Parity DEF SameSign, Goes
    <3>7. SameValue(p2, q)
      BY <1>0, <2>6, <3>1, <3>4 DEF SameValue, Goes, Like
    <3> QED BY <3>2, <3>5, <3>6, <3>7 DEF InStep, p2, q
  <2>7. CASE t.typ = "test" /\ Goes(p2, p, "sep", 0) /\ p2.conds = Append(p.conds, c) /\ p2.allOf = p.allOf
    <3>1. /\ q.at = "sep" /\ q.form = r.form /\ q.taken = FALSE /\ q.neg = FALSE
          /\ r.form = "allof" => (q.value = TRUE <=> r.value = TRUE /\ Signed(r, t))
          /\ r.form = "anyof" => (q.value = TRUE <=> r.value = TRUE \/ Signed(r, t))
      BY <1>0, <1>t, <2>7, RfcTests
    <3>2. ScriptTyped(p2, q) /\ SameDeeds(p2, q)
      BY <2>7, DeedsKept DEF Goes
    <3>3. c \in Conditions /\ (Evaluate(c, SieveMsg) <=> Signed(r, t))
      BY <1>0, <1>t, <2>7, SignedIs
    <3> HIDE DEF q, c
    <3>4. q.value = TRUE <=> Matches(p2)
      <4>1. /\ p.conds = <<>> => (Matches(p2) <=> Evaluate(c, SieveMsg))
            /\ p.conds # <<>> /\ p.allOf = TRUE => (Matches(p2) <=> Matches(p) /\ Evaluate(c, SieveMsg))
            /\ p.conds # <<>> /\ p.allOf = FALSE => (Matches(p2) <=> Matches(p) \/ Evaluate(c, SieveMsg))
        <5>1. p2.conds = Append(p.conds, c) /\ p2.allOf = p.allOf /\ p.allOf \in BOOLEAN
          BY <1>0, <2>7
        <5>2. p.conds \in Seq(Conditions) /\ c \in Conditions
          BY <1>0, <3>3
        <5>3. /\ Matches(p2) = EvaluateConditions(Append(p.conds, c), p.allOf, SieveMsg)
              /\ Matches(p) = EvaluateConditions(p.conds, p.allOf, SieveMsg)
          BY <5>1 DEF Matches
        <5> HIDE DEF Matches
        <5>4. CASE p.conds = <<>>
          BY <5>1, <5>2, <5>3, <5>4, MatchesLemma
        <5>5. CASE p.conds # <<>> /\ p.allOf = TRUE
          BY <5>1, <5>2, <5>3, <5>5, MatchesLemma
        <5>6. CASE p.conds # <<>> /\ p.allOf = FALSE
          BY <5>1, <5>2, <5>3, <5>6, MatchesLemma
        <5> QED BY <5>1, <5>4, <5>5, <5>6
      <4> QED BY <1>0, <3>1, <3>3, <4>1
    <3>5. p2.conds # <<>>
      <4>1. p2.conds = Append(p.conds, c) /\ p.conds \in Seq(Conditions) /\ c \in Conditions
        BY <1>0, <2>7, <3>3
      <4>2. \A x \in Seq(Conditions), d \in Conditions : Len(Append(x, d)) # 0
        OBVIOUS
      <4>3. Len(<<>>) = 0
        OBVIOUS
      <4> QED BY <4>1, <4>2, <4>3
    <3>6. SamePlace(p2, q) /\ SameSign(p2, q)
      BY <1>0, <2>7, <3>1 DEF SamePlace, SameSign, Goes
    <3>7. SameValue(p2, q)
      BY <2>7, <3>4, <3>5 DEF SameValue, Goes
    <3> QED BY <3>2, <3>6, <3>7 DEF InStep, p2, q
  <2> QED BY <2>4, <2>5, <2>6, <2>7
<1> QED BY <1>1, <1>2

(* before the list and before the block *)
LEMMA BraceInStep ==
  ASSUME NEW p, NEW r, NEW t, InStep(p, r), TokenKind(r, t), p.mode \in {"open", "brace"}
  PROVE  InStep(ParseToken(p, t), RfcToken(r, t))
<1> DEFINE q == RfcToken(r, t)
           p2 == ParseToken(p, t)
<1>0. /\ p \in ParseRecord /\ r \in RfcRecord /\ r.taken = FALSE /\ r.at \in {"open", "brace"}
      /\ r.neg = FALSE /\ p.acts = <<>> /\ p.nots = 0
  BY DEF InStep, ScriptTyped, SamePlace, SameSign
<1>t. t \notin SieveActions /\ t.typ = (IF r.at = "open" THEN "(" ELSE "{")
  BY <1>0 DEF TokenKind
<1>1. CASE p.mode = "open"
  <2>0. /\ r.at = "open" /\ p.conds = <<>> /\ r.value = p.allOf
        /\ \/ p.allOf = TRUE /\ r.form = "allof"
           \/ p.allOf = FALSE /\ r.form = "anyof"
    BY <1>1 DEF InStep, SamePlace, SameValue
  <2>1. p2 = [p EXCEPT !.mode = "list"]
    BY <1>1, <1>t, <2>0 DEF ParseToken
  <2>2. Goes(p2, p, "list", 0) /\ p2.conds = <<>> /\ p2.allOf = p.allOf
    <3> HIDE DEF p2
    <3> QED BY <1>0, <2>0, <2>1 DEF Goes, ParseRecord, Modes
  <2> HIDE DEF p2
  <2>3. q.at = "list" /\ Like(q, r) /\ q.neg = FALSE
    BY <1>0, <1>t, <2>0, RfcSigns
  <2>4. ScriptTyped(p2, q) /\ SameDeeds(p2, q)
    BY <2>2, DeedsKept DEF Goes
  <2> HIDE DEF q
  <2>5. SamePlace(p2, q) /\ SameValue(p2, q)
    BY <1>0, <2>0, <2>2, <2>3 DEF SamePlace, SameValue, Goes, Like
  <2>6. SameSign(p2, q)
    BY <2>2, <2>3 DEF SameSign, Goes
  <2> QED BY <2>4, <2>5, <2>6 DEF InStep, p2, q
<1>2. CASE p.mode = "brace" /\ r.at = "open"
  <2>1. p2 = ParseError(p)
    BY <1>2, <1>t DEF ParseToken, ParseBrace
  <2> QED BY <1>0, <2>1, ParseErrorIs, ErrorInStep
<1>3. CASE p.mode = "brace" /\ r.at = "brace"
  <2>1. p2 = [p EXCEPT !.mode = "block"]
    BY <1>3, <1>t DEF ParseToken, ParseBrace
  <2>2. Goes(p2, p, "block", 0) /\ p2.conds = p.conds /\ p2.allOf = p.allOf
    <3> HIDE DEF p2
    <3> QED BY <1>0, <2>1 DEF Goes, ParseRecord, Modes
  <2> HIDE DEF p2
  <2>3. /\ Moves(q, r) /\ q.at = "block" /\ q.neg = FALSE
        /\ q.live = TRUE <=> r.taken = FALSE /\ r.value = TRUE
    BY <1>0, <1>3, <1>t, RfcSigns
  <2>4. /\ RulesDo(p2) = RulesDo(p) /\ BlockDoes(p2) = BlockDoes(p) /\ BlockDoes(p2) = RulesDo(p2)
        /\ Matches(p2) <=> Matches(p)
    BY <1>0, <2>2, ActsFold DEF RulesDo, BlockDoes, Matches, Goes
  <2> HIDE DEF q
  <2>5. ScriptTyped(p2, q)
    BY <2>2, <2>3, <2>4 DEF InStep, ScriptTyped, Goes, Moves
  <2>6. SameDeeds(p2, q)
    BY <2>3, <2>4 DEF InStep, SameDeeds, Moves
  <2>7. SamePlace(p2, q) /\ SameSign(p2, q)
    BY <1>0, <2>2, <2>3 DEF SamePlace, SameSign, Goes
  <2>8. SameValue(p2, q)
    <3>1. r.value = TRUE <=> Matches(p)
      BY <1>3 DEF InStep, SameValue
    <3> QED BY <1>0, <2>2, <2>3, <2>4, <3>1 DEF SameValue, Goes
  <2> QED BY <2>5, <2>6, <2>7, <2>8 DEF InStep, p2, q
<1> QED BY <1>0, <1>1, <1>2, <1>3

(* The rule that a block ends does what the block does, or nothing. *)
LEMMA EndRuleIs ==
  ASSUME NEW p \in ParseRecord
  PROVE  /\ EndRule(p) \in ParseRecord /\ EndRule(p).mode = "top" /\ EndRule(p).conds = <<>>
         /\ EndRule(p).acts = <<>> /\ EndRule(p).allOf = TRUE /\ EndRule(p).nots = 0
         /\ \/ RulesDo(EndRule(p)) = RulesDo(p)
            \/ RulesDo(EndRule(p)) = BlockDoes(p) /\ Matches(p)
         /\ BlockDoes(EndRule(p)) = RulesDo(EndRule(p))
<1> DEFINE rule == [conds |-> p.conds, allOf |-> p.allOf, acts |-> p.acts]
           e == EndRule(p)
<1>1. /\ rule \in Rules /\ rule.conds = p.conds /\ rule.allOf = p.allOf /\ rule.acts = p.acts
      /\ p.rules \in Seq(Rules)
  BY DEF Rules, ParseRecord
<1>2. e = [StartParse EXCEPT !.rules = Append(p.rules, rule)]
  BY DEF EndRule
<1> HIDE DEF rule
<1>3. Append(p.rules, rule) \in Seq(Rules)
  BY <1>1
<1>4. /\ e \in ParseRecord /\ e.mode = "top" /\ e.conds = <<>> /\ e.acts = <<>> /\ e.allOf = TRUE
      /\ e.nots = 0 /\ e.rules = Append(p.rules, rule)
  <2>1. e = [mode |-> "top", conds |-> <<>>, allOf |-> TRUE, acts |-> <<>>, nots |-> 0, count |-> 0,
             rules |-> Append(p.rules, rule)]
    BY <1>2 DEF StartParse
  <2> HIDE DEF e
  <2>2. <<>> \in Seq(Conditions) /\ <<>> \in Seq(SieveActions) /\ 0 \in Nat /\ "top" \in Modes
    BY DEF Modes
  <2> QED BY <1>3, <2>1, <2>2 DEF ParseRecord
<1> HIDE DEF e
<1>5. RulesDo(e) = ExecuteRule(RulesDo(p), rule, SieveMsg)
  BY <1>1, <1>4, RulesFold DEF RulesDo
<1>6. BlockDoes(e) = RulesDo(e)
  BY <1>4, ActsFold DEF BlockDoes
<1>7. \/ RulesDo(e) = RulesDo(p)
      \/ RulesDo(e) = BlockDoes(p) /\ Matches(p)
  BY <1>1, <1>5 DEF ExecuteRule, BlockDoes, Matches
<1> QED BY <1>4, <1>6, <1>7 DEF e

(* in the block. *)
LEMMA BlockInStep ==
  ASSUME NEW p, NEW r, NEW t, InStep(p, r), TokenKind(r, t), p.mode = "block"
  PROVE  InStep(ParseToken(p, t), RfcToken(r, t))
<1> DEFINE q == RfcToken(r, t)
           p2 == ParseToken(p, t)
<1>0. /\ p \in ParseRecord /\ r \in RfcRecord /\ r.at = "block" /\ r.neg = FALSE /\ p.nots = 0
      /\ Matches(p) => r.live = TRUE
      /\ RulesDo(p) \in ScriptResults /\ BlockDoes(p) \in ScriptResults /\ SameDeeds(p, r)
  BY DEF InStep, ScriptTyped, SamePlace, SameSign, SameValue
<1>t. \/ t \in SieveActions /\ t.typ \in ActionTypes
      \/ t \notin SieveActions /\ t.typ = "}"
  BY <1>0 DEF TokenKind
<1>p. p2 = ParseBlock(p, t)
  BY DEF ParseToken
<1>1. CASE t \notin SieveActions /\ t.typ = "}"
  <2>1. p2 = EndRule(p)
    BY <1>1, <1>p DEF ParseBlock
  <2>2. /\ p2 \in ParseRecord /\ p2.mode = "top" /\ p2.conds = <<>> /\ p2.acts = <<>>
        /\ p2.allOf = TRUE /\ p2.nots = 0
        /\ \/ RulesDo(p2) = RulesDo(p)
           \/ RulesDo(p2) = BlockDoes(p) /\ Matches(p)
        /\ BlockDoes(p2) = RulesDo(p2)
    BY <1>0, <2>1, EndRuleIs
  <2> HIDE DEF p2
  <2>3. Moves(q, r) /\ q.at = "after" /\ q.neg = FALSE
    BY <1>0, <1>1, RfcSigns
  <2> HIDE DEF q
  <2>4. ScriptTyped(p2, q)
    BY <1>0, <2>2, <2>3 DEF ScriptTyped, Moves
  <2>5. SameDeeds(p2, q)
    BY <1>0, <2>2, <2>3 DEF SameDeeds, Moves
  <2>6. SamePlace(p2, q) /\ SameSign(p2, q) /\ SameValue(p2, q)
    BY <2>2, <2>3 DEF SamePlace, SameSign, SameValue
  <2> QED BY <2>4, <2>5, <2>6 DEF InStep, p2, q
<1>2. CASE t \in SieveActions /\ t.typ \in ActionTypes
  <2>e. t.typ # "}"
    BY <1>2 DEF ActionTypes
  <2>1. CASE p.count >= MaxArraySize \/ RefusedAction(t)
    <3>1. p2 = ParseError(p)
      BY <1>p, <2>1, <2>e DEF ParseBlock
    <3> QED BY <1>0, <3>1, ParseErrorIs, ErrorInStep
  <2>2. CASE ~(p.count >= MaxArraySize \/ RefusedAction(t))
    <3>1. p2 = [p EXCEPT !.count = @ + 1, !.acts = Append(@, t)]
      BY <1>2, <1>p, <2>2, <2>e DEF ParseBlock
    <3>2. /\ p2 \in ParseRecord /\ p2.mode = "block" /\ p2.rules = p.rules /\ p2.acts = Append(p.acts, t)
          /\ p2.conds = p.conds /\ p2.allOf = p.allOf /\ p2.nots = 0
      <4>1. p.count + 1 \in Nat /\ Append(p.acts, t) \in Seq(SieveActions)
        BY <1>0, <1>2 DEF ParseRecord
      <4> HIDE DEF p2
      <4> QED BY <1>0, <3>1, <4>1 DEF ParseRecord
    <3> HIDE DEF p2
    <3>3. /\ q \in RfcRecord /\ q.neg = FALSE /\ q.at = "block" /\ q.live = r.live
          /\ q.stopped = FALSE => r.stopped = FALSE /\ r.done \subseteq q.done
          /\ r.live = TRUE /\ q.stopped = FALSE => t \in q.done
      BY <1>0, <1>2, RfcActs
    <3> HIDE DEF q
    <3>4. /\ RulesDo(p2) = RulesDo(p) /\ (Matches(p2) <=> Matches(p))
          /\ BlockDoes(p2) = Apply(BlockDoes(p), t)
      <4>1. p.acts \in Seq(SieveActions)
        BY <1>0 DEF ParseRecord
      <4>2. RulesDo(p2) = RulesDo(p) /\ (Matches(p2) <=> Matches(p))
        BY <3>2 DEF RulesDo, Matches
      <4>3. BlockDoes(p2) = FoldLeft(Apply, RulesDo(p), Append(p.acts, t))
        BY <3>2, <4>2 DEF BlockDoes
      <4>4. FoldLeft(Apply, RulesDo(p), Append(p.acts, t)) = Apply(FoldLeft(Apply, RulesDo(p), p.acts), t)
        BY <1>2, <4>1, ActsFold
      <4> QED BY <4>2, <4>3, <4>4 DEF BlockDoes
    <3>5. BlockDoes(p2) \in ScriptResults /\ BlockDoes(p2).applied = BlockDoes(p).applied \union {t}
      BY <1>0, <1>2, <3>4, ApplyLemma
    <3>6. ScriptTyped(p2, q)
      BY <1>0, <3>2, <3>3, <3>4, <3>5 DEF ScriptTyped
    <3>7. SameDeeds(p2, q)
      BY <1>0, <3>3, <3>4, <3>5 DEF SameDeeds
    <3>8. SamePlace(p2, q) /\ SameSign(p2, q) /\ SameValue(p2, q)
      BY <1>0, <3>2, <3>3, <3>4 DEF SamePlace, SameSign, SameValue
    <3> QED BY <3>6, <3>7, <3>8 DEF InStep, p2, q
  <2> QED BY <2>1, <2>2
<1> QED BY <1>t, <1>1, <1>2

(* Both begin in step. *)
LEMMA StartInStep == InStep(StartParse, StartRfc)
<1>1. StartParse \in ParseRecord /\ StartRfc \in RfcRecord
  BY DEF StartParse, StartRfc, ParseRecord, RfcRecord, Modes, Places
<1>2. Kept \in ScriptResults /\ Kept.applied = {}
  <2>1. <<>> \in Seq(Args) /\ "" \in Args
    BY DEF Args
  <2> QED BY <2>1 DEF Kept, ScriptResults
<1>3. StartParse.rules = <<>> /\ StartParse.acts = <<>> /\ StartParse.mode = "top"
  BY DEF StartParse
<1>4. RulesDo(StartParse) = Kept /\ BlockDoes(StartParse) = Kept
  BY <1>3, RulesFold, ActsFold DEF RulesDo, BlockDoes
<1>5. SamePlace(StartParse, StartRfc) /\ SameSign(StartParse, StartRfc) /\ SameValue(StartParse, StartRfc)
  BY DEF StartParse, StartRfc, SamePlace, SameSign, SameValue
<1> QED BY <1>1, <1>2, <1>3, <1>4, <1>5 DEF InStep, ScriptTyped, SameDeeds

(* One more token. *)
LEMMA SieveInStep == InStep(parse, rfc) /\ [SieveNext]_sieveVars => InStep(parse', rfc')
<1> SUFFICES ASSUME InStep(parse, rfc), [SieveNext]_sieveVars
             PROVE  InStep(parse', rfc')
  OBVIOUS
<1>1. CASE UNCHANGED sieveVars
  BY <1>1 DEF sieveVars, InStep, ScriptTyped, SamePlace, SameSign, SameValue, SameDeeds, RulesDo, BlockDoes, Matches
<1>2. CASE SieveNext
  <2>1. PICK t \in RfcTokens(rfc) : parse' = ParseToken(parse, t) /\ rfc' = RfcToken(rfc, t)
    BY <1>2 DEF SieveNext, Write
  <2>2. parse \in ParseRecord /\ rfc \in RfcRecord
    BY DEF InStep, ScriptTyped
  <2>3. TokenKind(rfc, t)
    BY <2>2, TokenKinds
  <2>4. parse.mode \in Modes
    BY <2>2 DEF ParseRecord
  <2>5. InStep(ParseToken(parse, t), RfcToken(rfc, t))
    BY <2>3, <2>4, TopInStep, CondInStep, SepInStep, ListInStep, BraceInStep, BlockInStep DEF Modes
  <2> QED BY <2>1, <2>5
<1> QED BY <1>1, <1>2

(* parse and executeScript do to a message, wherever the script ends, only what
   RFC 5228 has the script do, for scripts of any length over any tests and
   actions; scripts that stop are excluded, since stop does not.              *)
THEOREM ScriptsAsWritten == SieveSpec => []ActsAsWritten
<1> DEFINE Inv == InStep(parse, rfc)
<1>1. SieveInit => Inv
  BY StartInStep DEF SieveInit
<1>2. Inv /\ [SieveNext]_sieveVars => Inv'
  BY SieveInStep
<1>3. Inv => ActsAsWritten
  <2> SUFFICES ASSUME Inv, ~rfc.stopped PROVE Result(parse, SieveMsg).applied \subseteq rfc.done
    BY DEF ActsAsWritten
  <2>0. /\ parse \in ParseRecord /\ rfc.stopped = FALSE /\ parse.mode \in Modes
        /\ RulesDo(parse).applied \subseteq rfc.done
        /\ parse.mode = "block" /\ Matches(parse) => BlockDoes(parse).applied \subseteq rfc.done
    <3>1. rfc.stopped \in BOOLEAN
      BY DEF InStep, ScriptTyped, RfcRecord
    <3> QED BY <3>1 DEF InStep, ScriptTyped, SameDeeds, ParseRecord
  <2>1. CASE parse.mode = "top"
    <3>1. Result(parse, SieveMsg) = RulesDo(parse)
      BY <2>1 DEF Result, ParseEnd, RulesDo
    <3> QED BY <2>0, <3>1
  <2>2. CASE parse.mode = "block"
    <3>1. Result(parse, SieveMsg) = RulesDo(EndRule(parse))
      <4>1. ParseEnd(parse) = EndRule(parse) /\ EndRule(parse).mode = "top"
        BY <2>0, <2>2, EndRuleIs DEF ParseEnd
      <4> QED BY <4>1 DEF Result, RulesDo
    <3> QED BY <2>0, <2>2, <3>1, EndRuleIs
  <2>3. CASE parse.mode \notin {"top", "block"}
    <3>1. ParseEnd(parse) = ParseError(parse) /\ ParseError(parse).mode = "error"
      BY <2>0, <2>3, ParseErrorIs DEF ParseEnd
    <3>2. Result(parse, SieveMsg).applied = {}
      BY <3>1 DEF Result, Kept
    <3> QED BY <3>2
  <2> QED BY <2>1, <2>2, <2>3
<1> HIDE DEF Inv
<1> QED BY <1>1, <1>2, <1>3, PTL DEF SieveSpec
=============================================================================
