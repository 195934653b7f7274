--------------------------- MODULE MessagesProofs ---------------------------
(***************************************************************************)
(* Proofs about Messages, for any number of parallel events and whatever   *)
(* they say, any lines per page and any waits: Conversation holds.         *)
(*                                                                         *)
(* Conversation is not inductive.  IInv adds what it rests on.  Opened: a  *)
(* message that has something to show holds the window open until it is    *)
(* finished, and only then the window closes.  Ended: where a page ends    *)
(* the window waits for the player, has his answer, or has met the code    *)
(* that needs none.  Asking: who has asked waits, or its page has changed; *)
(* and in the frame in which a window begins to close it asks for a number *)
(* at most, and that for the foreground.  Answers: an index that is not    *)
(* the sentinel is one of the options its speaker waits for.  Written: the *)
(* glyphs drawn and those of the text left are the whole message, and the  *)
(* text is laid out in pages, each within the lines of the window.         *)
(*                                                                         *)
(* That the text of a message is laid out so, and has the glyphs of its    *)
(* lines, is shown of the recursive functions that define it.  A recursive *)
(* function is the only one with its base and its steps, which follows     *)
(* from the least number at which two of them would differ.                *)
(***************************************************************************)
EXTENDS Messages, SequenceTheorems, WellFoundedInduction, TLAPS

-----------------------------------------------------------------------------
(* Recursive functions over 0 .. n                                         *)

LEMMA LeastOf ==
  ASSUME NEW S \in SUBSET Nat, S # {}
  PROVE  \E x \in S : \A y \in S : x <= y
<1>1. OpToRel(<, Nat) = {p \in Nat \X Nat : p[1] < p[2]}
  BY DEF OpToRel
<1>2. PICK x \in S : \A y \in S : ~ (<<y, x>> \in OpToRel(<, Nat))
  BY NatLessThanWellFounded, WFMin
<1>3. ASSUME NEW y \in S PROVE x <= y
  <2>1. <<y, x>> \in Nat \X Nat /\ <<y, x>> \notin {p \in Nat \X Nat : p[1] < p[2]}
    BY <1>1, <1>2
  <2>2. ~ (y < x) BY <2>1
  <2> QED BY <2>2
<1> QED BY <1>3

(* What holds of 0 and is passed on up to n holds up to n.                 *)
LEMMA UpTo ==
  ASSUME NEW n \in Nat, NEW T, 0 \in T, \A i \in 1 .. n : i - 1 \in T => i \in T
  PROVE  \A i \in 0 .. n : i \in T
<1> DEFINE Bad == {i \in 0 .. n : i \notin T}
<1>1. SUFFICES ASSUME Bad # {} PROVE FALSE
  OBVIOUS
<1>2. Bad \in SUBSET Nat OBVIOUS
<1> HIDE DEF Bad
<1>3. PICK x \in Bad : \A y \in Bad : x <= y BY <1>1, <1>2, LeastOf
<1>4. x \in 1 .. n BY <1>3 DEF Bad
<1>5. x - 1 \in Bad BY <1>3, <1>4 DEF Bad
<1>6. x <= x - 1 BY <1>3, <1>5
<1> QED BY <1>4, <1>6

(* A function that begins with base and takes a step at each number exists. *)
Repeats(f, S, base, n, step) ==
  f \in [0 .. n -> S] /\ f[0] = base /\ \A i \in 1 .. n : f[i] = step[i][f[i - 1]]

LEMMA Recursion ==
  ASSUME NEW S, NEW base \in S, NEW n \in Nat, NEW step \in [1 .. n -> [S -> S]]
  PROVE  \E f : Repeats(f, S, base, n, step)
<1> DEFINE Good(m, f) == f[0] = base /\ \A i \in 1 .. m : f[i] = step[i][f[i - 1]]
           T == {m \in 0 .. n : \E f \in [0 .. m -> S] : Good(m, f)}
<1>1. 0 \in T
  <2> DEFINE f == [i \in 0 .. 0 |-> base]
  <2>1. 1 .. 0 = {} /\ 0 \in 0 .. 0 OBVIOUS
  <2>2. f \in [0 .. 0 -> S] /\ Good(0, f) BY <2>1
  <2>3. 0 \in 0 .. n OBVIOUS
  <2> QED BY <2>2, <2>3
<1>2. ASSUME NEW m \in 1 .. n, m - 1 \in T PROVE m \in T
  <2>1. PICK f \in [0 .. m - 1 -> S] : Good(m - 1, f) BY <1>2
  <2> DEFINE g == [i \in 0 .. m |-> IF i = m THEN step[m][f[m - 1]] ELSE f[i]]
  <2>2. m \in Nat /\ m - 1 \in 0 .. m - 1 /\ step[m] \in [S -> S] OBVIOUS
  <2>3. step[m][f[m - 1]] \in S BY <2>1, <2>2
  <2>4. \A i \in 0 .. m : i # m => i \in 0 .. m - 1 OBVIOUS
  <2>5. g \in [0 .. m -> S] BY <2>1, <2>3, <2>4
  <2>6. g[0] = base BY <2>1
  <2>7. ASSUME NEW i \in 1 .. m PROVE g[i] = step[i][g[i - 1]]
    <3>1. i - 1 \in 0 .. m /\ i - 1 # m /\ i \in 0 .. m BY <2>2
    <3>2. g[i - 1] = f[i - 1] BY <3>1
    <3>3. CASE i = m BY <3>1, <3>2, <3>3
    <3>4. CASE i # m
      <4>1. i \in 1 .. m - 1 BY <3>4, <2>2
      <4>2. g[i] = f[i] BY <3>1, <3>4
      <4> QED BY <4>1, <4>2, <3>2, <2>1
    <3> QED BY <3>3, <3>4
  <2>8. m \in 0 .. n OBVIOUS
  <2> HIDE DEF g
  <2> QED BY <2>5, <2>6, <2>7, <2>8
<1> HIDE DEF T
<1>3. \A i \in 0 .. n : i \in T BY <1>1, <1>2, UpTo
<1>4. n \in T BY <1>3
<1> QED BY <1>4 DEF T, Repeats

(* Two functions that do so are the same.                                  *)
SameStep(f, g, i) == f[i - 1] = g[i - 1] => f[i] = g[i]

LEMMA RecursionIsOne ==
  ASSUME NEW n \in Nat, NEW f, NEW g, f[0] = g[0], \A i \in 1 .. n : SameStep(f, g, i)
  PROVE  \A i \in 0 .. n : f[i] = g[i]
<1> DEFINE T == {i \in 0 .. n : f[i] = g[i]}
<1>1. 0 \in T OBVIOUS
<1>2. ASSUME NEW i \in 1 .. n, i - 1 \in T PROVE i \in T
  <2>1. i \in 0 .. n OBVIOUS
  <2>2. f[i] = g[i] BY <1>2 DEF SameStep
  <2> QED BY <2>1, <2>2
<1> HIDE DEF T
<1>3. \A i \in 0 .. n : i \in T BY <1>1, <1>2, UpTo
<1> QED BY <1>3 DEF T

-----------------------------------------------------------------------------
(* The glyphs of a text *)

Drawn == {"c", "w"}
GlyphStep(t, g) == IF IsGlyph(t) THEN Append(g, t) ELSE g
GlyphsUpTo(q, g) ==
  /\ g \in [0 .. Len(q) -> Seq(Drawn)] /\ g[0] = <<>>
  /\ \A i \in 1 .. Len(q) : g[i] = GlyphStep(q[i], g[i - 1])

LEMMA GlyphStepType ==
  ASSUME NEW t, NEW g \in Seq(Drawn) PROVE GlyphStep(t, g) \in Seq(Drawn)
  BY DEF GlyphStep, IsGlyph, Drawn

LEMMA GlyphsAre ==
  ASSUME NEW q, Len(q) \in Nat
  PROVE  \E g : GlyphsUpTo(q, g) /\ Glyphs(q) = g[Len(q)] /\ Glyphs(q) \in Seq(Drawn)
<1> DEFINE n == Len(q)
           D == Seq(Drawn)
           step == [i \in 1 .. n |-> [g \in D |-> GlyphStep(q[i], g)]]
           Eq(u) == u = [i \in 0 .. n |->
                          IF i = 0 THEN <<>>
                          ELSE IF IsGlyph(q[i]) THEN Append(u[i - 1], q[i]) ELSE u[i - 1]]
           v == CHOOSE u : Eq(u)
<1>1. <<>> \in D /\ n \in Nat OBVIOUS
<1>2. step \in [1 .. n -> [D -> D]] BY GlyphStepType
<1>3. \A i \in 1 .. n : \A g \in D : step[i][g] = GlyphStep(q[i], g) OBVIOUS
<1> HIDE DEF step, D, n
<1>4. PICK f \in [0 .. n -> D] : f[0] = <<>> /\ \A i \in 1 .. n : f[i] = step[i][f[i - 1]]
  <2>1. \E f : Repeats(f, D, <<>>, n, step) BY <1>1, <1>2, Recursion
  <2> QED BY <2>1 DEF Repeats
<1>5. \A i \in 1 .. n : i - 1 \in 0 .. n /\ i \in 0 .. n BY <1>1
<1>6. \A i \in 1 .. n : f[i - 1] \in D BY <1>4, <1>5
<1>7. \A i \in 1 .. n : f[i] = GlyphStep(q[i], f[i - 1]) BY <1>3, <1>4, <1>6
<1>8. \A i \in 0 .. n : i # 0 => i \in 1 .. n BY <1>1
<1>9. Eq(f)
  <2>1. \A i \in 0 .. n : f[i] = IF i = 0 THEN <<>>
                          ELSE IF IsGlyph(q[i]) THEN Append(f[i - 1], q[i]) ELSE f[i - 1]
    BY <1>4, <1>7, <1>8 DEF GlyphStep
  <2> QED BY <1>4, <2>1
<1>10. Eq(v) BY <1>9
<1>11. v[0] = <<>> /\ \A i \in 1 .. n : v[i] = GlyphStep(q[i], v[i - 1])
  <2>1. 0 \in 0 .. n /\ \A i \in 1 .. n : i # 0 BY <1>1
  <2> QED BY <1>5, <1>10, <2>1 DEF GlyphStep
<1>12. DOMAIN v = 0 .. n /\ v = [i \in 0 .. n |-> v[i]] BY <1>10
<1>13. Glyphs(q) = v[n] BY DEF Glyphs, n
<1> HIDE DEF v
<1>14. \A i \in 0 .. n : v[i] = f[i] 
  <2>1. v[0] = f[0] /\ \A i \in 1 .. n : SameStep(v, f, i) BY <1>4, <1>7, <1>11 DEF SameStep
  <2> QED BY <1>1, <2>1, RecursionIsOne
<1>15. v = f BY <1>4, <1>12, <1>14
<1>16. n \in 0 .. n BY <1>1
<1> QED BY <1>4, <1>7, <1>13, <1>15, <1>16 DEF GlyphsUpTo, n, D

LEMMA GlyphsOfNone == Glyphs(<<>>) = <<>>
<1>1. Len(<<>>) = 0 OBVIOUS
<1>2. PICK g : GlyphsUpTo(<<>>, g) /\ Glyphs(<<>>) = g[Len(<<>>)] BY <1>1, GlyphsAre
<1> QED BY <1>1, <1>2 DEF GlyphsUpTo

LEMMA GlyphsOfOne ==
  ASSUME NEW t \in Tokens PROVE Glyphs(<<t>>) = IF IsGlyph(t) THEN <<t>> ELSE <<>>
<1>1. Len(<<t>>) = 1 /\ <<t>>[1] = t OBVIOUS
<1>2. PICK g : GlyphsUpTo(<<t>>, g) /\ Glyphs(<<t>>) = g[Len(<<t>>)] BY <1>1, GlyphsAre
<1>3. g[0] = <<>> /\ g[1] = GlyphStep(t, g[0])
  <2>1. 1 \in 1 .. 1 /\ 1 - 1 = 0 OBVIOUS
  <2> QED BY <1>1, <1>2, <2>1 DEF GlyphsUpTo
<1>4. Append(<<>>, t) = <<t>> OBVIOUS
<1> QED BY <1>1, <1>2, <1>3, <1>4 DEF GlyphStep

LEMMA GlyphStepJoined ==
  ASSUME NEW a \in Seq(Drawn), NEW b \in Seq(Drawn), NEW t
  PROVE  GlyphStep(t, a \o b) = a \o GlyphStep(t, b)
<1>1. CASE ~IsGlyph(t) BY <1>1 DEF GlyphStep
<1>2. CASE IsGlyph(t)
  <2>1. t \in Drawn BY <1>2 DEF IsGlyph, Drawn
  <2>2. a \o b \in Seq(Drawn) /\ <<t>> \in Seq(Drawn) BY <2>1, ConcatProperties
  <2>3. Append(a \o b, t) = (a \o b) \o <<t>> BY <2>1, <2>2, AppendIsConcat
  <2>4. Append(b, t) = b \o <<t>> BY <2>1, AppendIsConcat
  <2>5. (a \o b) \o <<t>> = a \o (b \o <<t>>) BY <2>2, ConcatAssociative
  <2> QED BY <1>2, <2>3, <2>4, <2>5 DEF GlyphStep
<1> QED BY <1>1, <1>2

LEMMA GlyphsJoined ==
  ASSUME NEW p \in Seq(Tokens), NEW q \in Seq(Tokens)
  PROVE  Glyphs(p \o q) = Glyphs(p) \o Glyphs(q)
<1> DEFINE r == p \o q
           n == Len(p)
           m == Len(q)
<1>1. n \in Nat /\ m \in Nat BY LenProperties
<1>2. Len(r) = n + m /\ \A i \in 1 .. n + m : r[i] = IF i <= n THEN p[i] ELSE q[i - n]
  BY ConcatProperties
<1>3. PICK g : GlyphsUpTo(p, g) /\ Glyphs(p) = g[Len(p)] BY <1>1, GlyphsAre
<1>4. PICK k : GlyphsUpTo(q, k) /\ Glyphs(q) = k[Len(q)] BY <1>1, GlyphsAre
<1>5. PICK h : GlyphsUpTo(r, h) /\ Glyphs(r) = h[Len(r)]
  <2>1. Len(r) \in Nat BY <1>1, <1>2
  <2> QED BY <2>1, GlyphsAre
<1> HIDE DEF n, m, r
<1>6. /\ g \in [0 .. n -> Seq(Drawn)] /\ g[0] = <<>>
      /\ \A i \in 1 .. n : g[i] = GlyphStep(p[i], g[i - 1])
  BY <1>3 DEF GlyphsUpTo, n
<1>7. /\ k \in [0 .. m -> Seq(Drawn)] /\ k[0] = <<>>
      /\ \A i \in 1 .. m : k[i] = GlyphStep(q[i], k[i - 1])
  BY <1>4 DEF GlyphsUpTo, m
<1>8. h[0] = <<>> /\ \A i \in 1 .. n + m : h[i] = GlyphStep(r[i], h[i - 1])
  BY <1>5, <1>2 DEF GlyphsUpTo
<1>9. h[n] = g[n]
  <2>1. ASSUME NEW i \in 1 .. n PROVE SameStep(h, g, i)
    <3>1. i \in 1 .. n + m /\ r[i] = p[i] BY <1>1, <1>2
    <3> QED BY <3>1, <1>6, <1>8 DEF SameStep
  <2>2. h[0] = g[0] BY <1>6, <1>8
  <2>3. \A i \in 0 .. n : h[i] = g[i] BY <1>1, <2>1, <2>2, RecursionIsOne
  <2> QED BY <1>1, <2>3
<1>10. g[n] \in Seq(Drawn) BY <1>1, <1>6
<1> DEFINE T == {i \in 0 .. m : h[n + i] = g[n] \o k[i]}
<1>11. 0 \in T
  <2>1. g[n] \o <<>> = g[n] BY <1>10, ConcatEmptySeq
  <2>2. n + 0 = n /\ 0 \in 0 .. m BY <1>1
  <2>3. h[n + 0] = g[n] \o k[0] BY <1>7, <1>9, <2>1, <2>2
  <2> QED BY <2>2, <2>3
<1>12. ASSUME NEW i \in 1 .. m, i - 1 \in T PROVE i \in T
  <2>1. /\ n + i \in 1 .. n + m /\ ~(n + i <= n) /\ (n + i) - n = i
        /\ (n + i) - 1 = n + (i - 1) /\ i - 1 \in 0 .. m /\ i \in 0 .. m
    BY <1>1
  <2>2. r[n + i] = q[i] BY <1>2, <2>1
  <2>3. h[n + i] = GlyphStep(q[i], h[n + (i - 1)]) BY <1>8, <2>1, <2>2
  <2>4. h[n + (i - 1)] = g[n] \o k[i - 1] BY <1>12
  <2>5. k[i - 1] \in Seq(Drawn) BY <1>7, <2>1
  <2>6. GlyphStep(q[i], g[n] \o k[i - 1]) = g[n] \o GlyphStep(q[i], k[i - 1])
    BY <1>10, <2>5, GlyphStepJoined
  <2>7. GlyphStep(q[i], k[i - 1]) = k[i] BY <1>7
  <2> QED BY <2>1, <2>3, <2>4, <2>6, <2>7
<1> HIDE DEF T
<1>13. \A i \in 0 .. m : i \in T BY <1>1, <1>11, <1>12, UpTo
<1>14. m \in 0 .. m BY <1>1
<1>15. h[n + m] = g[n] \o k[m] BY <1>13, <1>14 DEF T
<1> QED BY <1>2, <1>3, <1>4, <1>5, <1>15 DEF n, m, r

(* The text and what is drawn change by the token at the head.             *)
LEMMA GlyphsOfHead ==
  ASSUME NEW q \in Seq(Tokens), q # <<>>
  PROVE  /\ Head(q) \in Tokens /\ Tail(q) \in Seq(Tokens)
         /\ Glyphs(q) = IF IsGlyph(Head(q)) THEN <<Head(q)>> \o Glyphs(Tail(q))
                        ELSE Glyphs(Tail(q))
<1>1. Head(q) \in Tokens /\ Tail(q) \in Seq(Tokens) /\ Len(q) \in Nat /\ Len(q) >= 1
  BY HeadTailProperties, EmptySeq
<1>2. q = <<Head(q)>> \o Tail(q)
  <2>1. 1 \in 1 .. Len(q) /\ Len(q) \in 1 .. Len(q) BY <1>1
  <2>2. SubSeq(q, 1, Len(q)) = <<q[1]>> \o SubSeq(q, 1 + 1, Len(q))
    BY <2>1, SubSeqRecursiveFirst
  <2>3. Tail(q) = SubSeq(q, 2, Len(q)) BY TailIsSubSeq
  <2> QED BY <2>2, <2>3, SubSeqFull
<1>3. <<Head(q)>> \in Seq(Tokens) BY <1>1
<1>4. Glyphs(q) = Glyphs(<<Head(q)>>) \o Glyphs(Tail(q)) BY <1>1, <1>2, <1>3, GlyphsJoined
<1>5. Len(Tail(q)) \in Nat BY <1>1, LenProperties
<1>6. Glyphs(Tail(q)) \in Seq(Drawn) BY <1>5, GlyphsAre
<1>7. <<>> \o Glyphs(Tail(q)) = Glyphs(Tail(q)) BY <1>6, ConcatEmptySeq
<1>8. CASE IsGlyph(Head(q)) BY <1>1, <1>4, <1>8, GlyphsOfOne
<1>9. CASE ~IsGlyph(Head(q)) BY <1>1, <1>4, <1>7, <1>9, GlyphsOfOne
<1> QED BY <1>1, <1>8, <1>9

-----------------------------------------------------------------------------
(* The rows and the pages of a text *)

RowAfter(t, r) == IF t = "n" THEN r + 1 ELSE IF t = "f" THEN 0 ELSE r

(* row[i] is the row of the page on which the i-th token is met: it begins *)
(* with from, and what comes after the text is on row to.                  *)
RowsAre(q, row) ==
  /\ row \in [1 .. Len(q) + 1 -> 0 .. MaxLines]
  /\ \A i \in 1 .. Len(q) : /\ row[i + 1] = RowAfter(q[i], row[i])
                            /\ IsGlyph(q[i]) => row[i] < MaxLines
Rows(q, from, to) == \E row : RowsAre(q, row) /\ row[1] = from /\ row[Len(q) + 1] = to

(* A page break comes after the break of a line.                           *)
Paged(q) == \A i \in 2 .. Len(q) : q[i] = "f" => q[i - 1] = "n"
Begins(q) == q # <<>> => q[1] # "f"

LEMMA RowsOfNone == ASSUME NEW r \in 0 .. MaxLines PROVE Rows(<<>>, r, r)
<1> DEFINE row == [i \in 1 .. 1 |-> r]
<1>1. Len(<<>>) = 0 /\ 1 .. 0 = {} /\ 0 + 1 = 1 /\ 1 \in 1 .. 1 OBVIOUS
<1>2. row \in [1 .. 1 -> 0 .. MaxLines] /\ row[1] = r BY <1>1
<1> HIDE DEF row
<1> QED BY <1>1, <1>2 DEF Rows, RowsAre

LEMMA RowsJoined ==
  ASSUME NEW p \in Seq(Tokens), NEW q \in Seq(Tokens), NEW a, NEW b, NEW c,
         Rows(p, a, b), Rows(q, b, c)
  PROVE  Rows(p \o q, a, c)
<1> DEFINE r == p \o q
           n == Len(p)
           m == Len(q)
<1>1. n \in Nat /\ m \in Nat BY LenProperties
<1>2. Len(r) = n + m /\ \A i \in 1 .. n + m : r[i] = IF i <= n THEN p[i] ELSE q[i - n]
  BY ConcatProperties
<1>3. PICK f : RowsAre(p, f) /\ f[1] = a /\ f[n + 1] = b BY DEF Rows
<1>4. PICK g : RowsAre(q, g) /\ g[1] = b /\ g[m + 1] = c BY DEF Rows
<1> HIDE DEF n, m, r
<1>5. /\ f \in [1 .. n + 1 -> 0 .. MaxLines]
      /\ \A i \in 1 .. n : /\ f[i + 1] = RowAfter(p[i], f[i])
                           /\ IsGlyph(p[i]) => f[i] < MaxLines
  BY <1>3 DEF RowsAre, n
<1>6. /\ g \in [1 .. m + 1 -> 0 .. MaxLines]
      /\ \A i \in 1 .. m : /\ g[i + 1] = RowAfter(q[i], g[i])
                           /\ IsGlyph(q[i]) => g[i] < MaxLines
  BY <1>4 DEF RowsAre, m
<1> DEFINE h == [i \in 1 .. (n + m) + 1 |-> IF i <= n THEN f[i] ELSE g[i - n]]
<1>7. \A i \in 1 .. (n + m) + 1 : IF i <= n THEN i \in 1 .. n + 1 ELSE i - n \in 1 .. m + 1
  BY <1>1
<1>8. h \in [1 .. (n + m) + 1 -> 0 .. MaxLines] BY <1>5, <1>6, <1>7
<1>9. \A i \in 1 .. (n + m) + 1 : h[i] = IF i <= n THEN f[i] ELSE g[i - n] OBVIOUS
<1> HIDE DEF h
<1>10. \A i \in 1 .. n + 1 : h[i] = f[i]
  <2> TAKE i \in 1 .. n + 1
  <2>1. i \in 1 .. (n + m) + 1 /\ (i <= n \/ (i = n + 1 /\ i - n = 1 /\ ~(i <= n))) BY <1>1
  <2> QED BY <2>1, <1>3, <1>4, <1>9
<1>11. ASSUME NEW i \in 1 .. n + m
       PROVE  h[i + 1] = RowAfter(r[i], h[i]) /\ (IsGlyph(r[i]) => h[i] < MaxLines)
  <2>1. CASE i <= n
    <3>1. i \in 1 .. n /\ i \in 1 .. n + 1 /\ i + 1 \in 1 .. n + 1 BY <1>1, <2>1
    <3>2. h[i] = f[i] /\ h[i + 1] = f[i + 1] /\ r[i] = p[i] BY <3>1, <2>1, <1>2, <1>10
    <3> QED BY <3>1, <3>2, <1>5
  <2>2. CASE ~(i <= n)
    <3>1. /\ i - n \in 1 .. m /\ (i + 1) - n = (i - n) + 1 /\ ~(i + 1 <= n)
          /\ i \in 1 .. (n + m) + 1 /\ i + 1 \in 1 .. (n + m) + 1
      BY <1>1, <2>2
    <3>2. h[i] = g[i - n] /\ h[i + 1] = g[(i - n) + 1] /\ r[i] = q[i - n]
      BY <3>1, <2>2, <1>2, <1>9
    <3> QED BY <3>1, <3>2, <1>6
  <2> QED BY <2>1, <2>2
<1>12. h[1] = a
  <2>1. 1 \in 1 .. n + 1 BY <1>1
  <2> QED BY <2>1, <1>3, <1>10
<1>13. h[(n + m) + 1] = c
  <2>1. /\ (n + m) + 1 \in 1 .. (n + m) + 1 /\ ~((n + m) + 1 <= n)
        /\ ((n + m) + 1) - n = m + 1
    BY <1>1
  <2> QED BY <2>1, <1>4, <1>9
<1>14. RowsAre(r, h) BY <1>2, <1>8, <1>11 DEF RowsAre
<1> QED BY <1>2, <1>12, <1>13, <1>14 DEF Rows, r

LEMMA RowsOfHead ==
  ASSUME NEW q \in Seq(Tokens), q # <<>>, NEW a, NEW c, Rows(q, a, c)
  PROVE  /\ RowAfter(Head(q), a) \in 0 .. MaxLines
         /\ Rows(Tail(q), RowAfter(Head(q), a), c)
         /\ IsGlyph(Head(q)) => a < MaxLines
<1> DEFINE n == Len(q)
           p == Tail(q)
<1>1. n \in Nat /\ n >= 1 /\ Head(q) = q[1] BY EmptySeq
<1>2. Len(p) = n - 1 /\ \A i \in 1 .. n - 1 : p[i] = q[i + 1]
  <2>1. Len(p) = n - 1 /\ \A i \in 1 .. Len(p) : p[i] = q[i + 1] BY HeadTailProperties
  <2> QED BY <2>1
<1>3. PICK row : RowsAre(q, row) /\ row[1] = a /\ row[n + 1] = c BY DEF Rows
<1> HIDE DEF n, p
<1>4. /\ row \in [1 .. n + 1 -> 0 .. MaxLines]
      /\ \A i \in 1 .. n : /\ row[i + 1] = RowAfter(q[i], row[i])
                           /\ IsGlyph(q[i]) => row[i] < MaxLines
  BY <1>3 DEF RowsAre, n
<1> DEFINE f == [i \in 1 .. (n - 1) + 1 |-> row[i + 1]]
<1>5. \A i \in 1 .. (n - 1) + 1 : i + 1 \in 1 .. n + 1 BY <1>1
<1>6. f \in [1 .. (n - 1) + 1 -> 0 .. MaxLines] BY <1>4, <1>5
<1>7. \A i \in 1 .. (n - 1) + 1 : f[i] = row[i + 1] OBVIOUS
<1> HIDE DEF f
<1>8. /\ 1 \in 1 .. n /\ 1 + 1 \in 1 .. n + 1 /\ 1 \in 1 .. (n - 1) + 1
      /\ (n - 1) + 1 \in 1 .. (n - 1) + 1 /\ ((n - 1) + 1) + 1 = n + 1
  BY <1>1
<1>9. row[1 + 1] = RowAfter(Head(q), a) /\ (IsGlyph(Head(q)) => a < MaxLines)
  BY <1>1, <1>3, <1>4, <1>8
<1>10. row[1 + 1] \in 0 .. MaxLines BY <1>4, <1>8
<1>11. f[1] = RowAfter(Head(q), a) /\ f[(n - 1) + 1] = c BY <1>3, <1>7, <1>8, <1>9
<1>12. ASSUME NEW i \in 1 .. n - 1
       PROVE  f[i + 1] = RowAfter(p[i], f[i]) /\ (IsGlyph(p[i]) => f[i] < MaxLines)
  <2>1. i \in 1 .. (n - 1) + 1 /\ i + 1 \in 1 .. (n - 1) + 1 /\ i + 1 \in 1 .. n BY <1>1
  <2>2. f[i] = row[i + 1] /\ f[i + 1] = row[(i + 1) + 1] /\ p[i] = q[i + 1]
    BY <2>1, <1>2, <1>7
  <2> QED BY <2>1, <2>2, <1>4
<1>13. RowsAre(p, f) BY <1>2, <1>6, <1>12 DEF RowsAre
<1>14. Rows(p, RowAfter(Head(q), a), c) BY <1>2, <1>11, <1>13 DEF Rows
<1> QED BY <1>9, <1>10, <1>14 DEF p

(* What a text that is joined from two begins and ends with                *)
LEMMA PagesJoined ==
  ASSUME NEW p \in Seq(Tokens), NEW q \in Seq(Tokens), Paged(p), Paged(q), Begins(p),
         q # <<>> => q[1] # "f" \/ (p # <<>> /\ p[Len(p)] = "n")
  PROVE  Paged(p \o q) /\ Begins(p \o q)
<1> DEFINE r == p \o q
           n == Len(p)
           m == Len(q)
<1>1. n \in Nat /\ m \in Nat /\ (p # <<>> => n >= 1) /\ (q # <<>> => m >= 1)
  BY LenProperties, EmptySeq
<1>2. Len(r) = n + m /\ \A i \in 1 .. n + m : r[i] = IF i <= n THEN p[i] ELSE q[i - n]
  BY ConcatProperties
<1>3. r # <<>> => n + m >= 1 
  <2>1. r \in Seq(Tokens) BY ConcatProperties
  <2> QED BY <1>1, <1>2, <2>1, EmptySeq
<1>4. m >= 1 => q # <<>> OBVIOUS
<1>5. n >= 1 => p # <<>> OBVIOUS
<1>6. q # <<>> => q[1] # "f" \/ (n >= 1 /\ p[n] = "n") BY <1>1
<1> HIDE DEF n, m, r
<1>7. ASSUME NEW i \in 2 .. n + m, r[i] = "f" PROVE r[i - 1] = "n"
  <2>1. i \in 1 .. n + m /\ i - 1 \in 1 .. n + m BY <1>1
  <2>2. CASE i <= n
    <3>1. i \in 2 .. n /\ i - 1 <= n BY <1>1, <2>2
    <3>2. p[i] = "f" /\ r[i - 1] = p[i - 1] BY <1>2, <1>7, <2>1, <2>2, <3>1
    <3> QED BY <3>1, <3>2 DEF Paged, n
  <2>3. CASE ~(i <= n) /\ i - 1 <= n
    <3>1. i - 1 = n /\ i - n = 1 /\ m >= 1 BY <1>1, <2>1, <2>3
    <3>2. q[1] = "f" /\ r[i - 1] = p[n] BY <1>2, <1>7, <2>1, <2>3, <3>1
    <3> QED BY <3>1, <3>2, <1>4, <1>6
  <2>4. CASE ~(i - 1 <= n)
    <3>1. i - n \in 2 .. m /\ ~(i <= n) /\ (i - n) - 1 = (i - 1) - n BY <1>1, <2>1, <2>4
    <3>2. q[i - n] = "f" /\ r[i - 1] = q[(i - n) - 1] BY <1>2, <1>7, <2>1, <2>4, <3>1
    <3> QED BY <3>1, <3>2 DEF Paged, m
  <2>5. i - 1 <= n \/ ~(i - 1 <= n) OBVIOUS
  <2> QED BY <2>2, <2>3, <2>4, <2>5
<1>8. ASSUME r # <<>> PROVE r[1] # "f"
  <2>1. 1 \in 1 .. n + m BY <1>1, <1>3, <1>8
  <2>2. CASE n >= 1 BY <1>2, <1>5, <2>1, <2>2 DEF Begins
  <2>3. CASE ~(n >= 1)
    <3>1. n = 0 /\ m >= 1 BY <1>1, <2>1, <2>3
    <3>2. r[1] = q[1] BY <1>2, <2>1, <3>1
    <3> QED BY <3>1, <3>2, <1>4, <1>6
  <2> QED BY <2>2, <2>3
<1> QED BY <1>2, <1>7, <1>8 DEF Paged, Begins, r

(* A line without the page break at its end                                *)
Plain == {"c", "w", "!", "^"}
Lines == {q \in Seq(Tokens \ {"n"}) : \A j \in DOMAIN q : q[j] = "f" => j = Len(q)}
ForcesBreak(line) == line # <<>> /\ Last(line) = "f"
Body(line) == IF ForcesBreak(line) THEN Front(line) ELSE line

LEMMA SeqOfParts ==
  ASSUME NEW S, NEW T, NEW q \in Seq(S), \A i \in 1 .. Len(q) : q[i] \in T
  PROVE  q \in Seq(T)
<1>1. Len(q) \in Nat /\ q = [i \in 1 .. Len(q) |-> q[i]] BY LenProperties
<1>2. q \in [1 .. Len(q) -> T] BY <1>1
<1> QED BY <1>1, <1>2, SeqDef

LEMMA BodyIs ==
  ASSUME NEW line \in Lines
  PROVE  /\ line \in Seq(Tokens) /\ Body(line) \in Seq(Plain) /\ Body(line) \in Seq(Tokens)
         /\ Glyphs(Body(line)) = Glyphs(line)
<1> DEFINE n == Len(line)
<1>1. /\ line \in Seq(Tokens) /\ line \in Seq(Tokens \ {"n"}) /\ n \in Nat
      /\ \A i \in 1 .. n : line[i] \in Tokens \ {"n"} /\ (line[i] = "f" => i = n)
  <2>1. line \in Seq(Tokens \ {"n"}) BY DEF Lines
  <2>2. line \in Seq(Tokens) BY <2>1, SeqMonotonic
  <2>3. \A i \in 1 .. n : line[i] \in Tokens \ {"n"} BY <2>1, ElementOfSeq
  <2>4. DOMAIN line = 1 .. n /\ n \in Nat BY <2>1, LenProperties
  <2> QED BY <2>1, <2>2, <2>3, <2>4 DEF Lines
<1>2. Plain \subseteq Tokens BY DEF Plain, Tokens
<1>3. \A t \in Tokens \ {"n"} : t # "f" => t \in Plain BY DEF Plain, Tokens
<1>4. CASE ~ForcesBreak(line)
  <2>1. ASSUME NEW i \in 1 .. n PROVE line[i] \in Plain
    <3>1. line[i] # "f"
      <4>1. ASSUME line[i] = "f" PROVE FALSE
        <5>1. i = n BY <1>1, <4>1
        <5>2. line # <<>>
          <6>1. ASSUME line = <<>> PROVE FALSE BY <6>1
          <6> QED BY <6>1
        <5> QED BY <1>4, <4>1, <5>1, <5>2 DEF ForcesBreak, Last
      <4> QED BY <4>1
    <3> QED BY <3>1, <1>1, <1>3
  <2>2. line \in Seq(Plain) BY <1>1, <2>1, SeqOfParts
  <2> QED BY <1>1, <1>4, <2>2 DEF Body
<1>5. CASE ForcesBreak(line)
  <2>1. line # <<>> /\ line[n] = "f" /\ n >= 1 BY <1>1, <1>5, EmptySeq DEF ForcesBreak, Last
  <2> DEFINE p == Front(line)
  <2>2. p = SubSeq(line, 1, n - 1) BY DEF Front
  <2>3. \A i \in 1 .. n - 1 : line[i] \in Plain
    <3> TAKE i \in 1 .. n - 1
    <3>1. i \in 1 .. n /\ i # n BY <1>1
    <3> QED BY <3>1, <1>1, <1>3
  <2>4. p \in Seq(Plain) BY <1>1, <2>2, <2>3, SubSeqProperties
  <2>5. p \in Seq(Tokens) BY <1>2, <2>4, SeqMonotonic
  <2>6. line = p \o <<"f">>
    <3>1. 1 \in 1 .. n /\ n \in 1 .. n BY <1>1, <2>1
    <3>2. SubSeq(line, 1, n) = SubSeq(line, 1, n - 1) \o <<line[n]>>
      BY <1>1, <3>1, SubSeqRecursiveSecond
    <3>3. SubSeq(line, 1, n) = line BY <1>1, SubSeqFull
    <3> QED BY <2>1, <2>2, <3>2, <3>3
  <2>7. "f" \in Tokens /\ ~IsGlyph("f") /\ <<"f">> \in Seq(Tokens) BY DEF Tokens, IsGlyph
  <2>8. Glyphs(line) = Glyphs(p) \o Glyphs(<<"f">>) BY <2>5, <2>6, <2>7, GlyphsJoined
  <2>9. Glyphs(<<"f">>) = <<>> BY <2>7, GlyphsOfOne
  <2>10. Glyphs(p) \in Seq(Drawn)
    <3>1. Len(p) \in Nat BY <2>5, LenProperties
    <3> QED BY <3>1, GlyphsAre
  <2>11. Glyphs(p) \o <<>> = Glyphs(p) BY <2>10, ConcatEmptySeq
  <2> QED BY <1>1, <1>5, <2>4, <2>5, <2>8, <2>9, <2>11 DEF Body
<1> QED BY <1>4, <1>5

LEMMA RowsOfPlain ==
  ASSUME NEW q \in Seq(Plain), NEW r \in 0 .. MaxLines, r < MaxLines
  PROVE  Rows(q, r, r) /\ Paged(q) /\ Begins(q)
<1> DEFINE n == Len(q)
           row == [i \in 1 .. n + 1 |-> r]
<1>1. n \in Nat /\ \A i \in 1 .. n : q[i] \in Plain BY LenProperties, ElementOfSeq
<1>2. \A t \in Plain : t # "f" /\ t # "n" BY DEF Plain
<1>3. row \in [1 .. n + 1 -> 0 .. MaxLines] /\ \A i \in 1 .. n + 1 : row[i] = r OBVIOUS
<1>4. 1 \in 1 .. n + 1 /\ n + 1 \in 1 .. n + 1 BY <1>1
<1>5. \A i \in 1 .. n : i \in 1 .. n + 1 /\ i + 1 \in 1 .. n + 1 BY <1>1
<1>6. \A i \in 2 .. n : i \in 1 .. n BY <1>1
<1>7. q # <<>> => 1 \in 1 .. n BY <1>1, EmptySeq
<1> HIDE DEF row, n
<1>8. RowsAre(q, row) BY <1>1, <1>2, <1>3, <1>5 DEF RowsAre, RowAfter, n
<1>9. Rows(q, r, r) BY <1>3, <1>4, <1>8 DEF Rows, n
<1>10. Paged(q) BY <1>1, <1>2, <1>6 DEF Paged, n
<1>11. Begins(q) BY <1>1, <1>2, <1>7 DEF Begins
<1> QED BY <1>9, <1>10, <1>11

LEMMA BothBreaks == <<"n">> \o <<"f">> = <<"n", "f">>
<1> DEFINE p == <<"n">>
           q == <<"f">>
           r == <<"n", "f">>
           j == p \o q
<1>1. p \in Seq(Tokens) /\ q \in Seq(Tokens) /\ r \in Seq(Tokens) BY DEF Tokens
<1>2. Len(p) = 1 /\ Len(q) = 1 /\ Len(r) = 2 /\ r[1] = p[1] /\ r[2] = q[1] OBVIOUS
<1> HIDE DEF p, q, r
<1>3. /\ j \in Seq(Tokens) /\ Len(j) = Len(p) + Len(q)
      /\ \A i \in 1 .. Len(p) + Len(q) : j[i] = IF i <= Len(p) THEN p[i] ELSE q[i - Len(p)]
  BY <1>1, ConcatProperties
<1> HIDE DEF j
<1>4. Len(j) = 2 /\ j[1] = r[1] /\ j[2] = r[2] BY <1>2, <1>3
<1>5. \A i \in 1 .. 2 : i = 1 \/ i = 2 OBVIOUS
<1>6. j = r BY <1>1, <1>2, <1>3, <1>4, <1>5, SeqEqual
<1> QED BY <1>6 DEF j, p, q, r

LEMMA RowsOfBreaks ==
  /\ \A r \in 0 .. MaxLines : r < MaxLines => Rows(<<"n">>, r, r + 1)
  /\ \A r \in 0 .. MaxLines : r < MaxLines => Rows(<<"n", "f">>, r, 0)
  /\ \A r \in 0 .. MaxLines : Rows(<<"f">>, r, 0)
<1>1. MaxLines \in Nat BY MessagesAssumption
<1>2. ASSUME NEW t \in {"n", "f"}, NEW r \in 0 .. MaxLines, RowAfter(t, r) \in 0 .. MaxLines
      PROVE  Rows(<<t>>, r, RowAfter(t, r))
  <2> DEFINE row == [i \in 1 .. 2 |-> IF i = 1 THEN r ELSE RowAfter(t, r)]
  <2>1. Len(<<t>>) = 1 /\ 1 + 1 = 2 /\ <<t>>[1] = t OBVIOUS
  <2>2. row \in [1 .. 2 -> 0 .. MaxLines] /\ row[1] = r /\ row[2] = RowAfter(t, r) BY <1>2
  <2>3. \A i \in 1 .. 1 : i = 1 OBVIOUS
  <2>4. ~IsGlyph(t) BY DEF IsGlyph
  <2> HIDE DEF row
  <2>5. RowsAre(<<t>>, row) BY <2>1, <2>2, <2>3, <2>4 DEF RowsAre
  <2> QED BY <2>1, <2>2, <2>5 DEF Rows
<1>3. ASSUME NEW r \in 0 .. MaxLines PROVE Rows(<<"f">>, r, 0)
  <2>1. RowAfter("f", r) = 0 /\ 0 \in 0 .. MaxLines BY <1>1 DEF RowAfter
  <2> QED BY <2>1, <1>2
<1>4. ASSUME NEW r \in 0 .. MaxLines, r < MaxLines
      PROVE  Rows(<<"n">>, r, r + 1) /\ Rows(<<"n", "f">>, r, 0)
  <2>1. RowAfter("n", r) = r + 1 /\ r + 1 \in 0 .. MaxLines BY <1>1, <1>4 DEF RowAfter
  <2>2. Rows(<<"n">>, r, r + 1) BY <2>1, <1>2
  <2>3. Rows(<<"f">>, r + 1, 0) BY <2>1, <1>3
  <2>4. <<"n">> \in Seq(Tokens) /\ <<"f">> \in Seq(Tokens) BY DEF Tokens
  <2>5. <<"n">> \o <<"f">> = <<"n", "f">> BY BothBreaks
  <2> QED BY <2>2, <2>3, <2>4, <2>5, RowsJoined
<1> QED BY <1>3, <1>4

(* What AppendLine has laid out so far: text of whole lines, the last of   *)
(* which may have ended a page.                                            *)
Laid(acc) ==
  /\ Rows(acc.text, 0, acc.rows) /\ Paged(acc.text) /\ Begins(acc.text)
  /\ acc.text # <<>> => acc.text[Len(acc.text)] \in {"n", "f"}
LaidTexts == {acc \in [text : Seq(Tokens), rows : 0 .. MaxLines - 1] : Laid(acc)}

LEMMA LineLaid ==
  ASSUME NEW acc \in LaidTexts, NEW line \in Lines
  PROVE  /\ AppendLine(acc, line) \in LaidTexts
         /\ AppendLine(acc, line).text # <<>>
         /\ Glyphs(AppendLine(acc, line).text) = Glyphs(acc.text) \o Glyphs(line)
<1> DEFINE full == ForcesBreak(line) \/ acc.rows + 1 = MaxLines
           brk == IF full THEN <<"n", "f">> ELSE <<"n">>
           rows == IF full THEN 0 ELSE acc.rows + 1
           p == acc.text \o Body(line)
           r == p \o brk
<1>1. AppendLine(acc, line) = [text |-> r, rows |-> rows]
  BY DEF AppendLine, ForcesBreak, Body
<1>2. /\ acc.text \in Seq(Tokens) /\ acc.rows \in 0 .. MaxLines - 1 /\ Laid(acc)
      /\ MaxLines \in Nat
  BY MessagesAssumption DEF LaidTexts
<1>3. acc.rows \in 0 .. MaxLines /\ acc.rows < MaxLines BY <1>2
<1>4. /\ Body(line) \in Seq(Plain) /\ Body(line) \in Seq(Tokens)
      /\ Glyphs(Body(line)) = Glyphs(line)
  BY BodyIs
<1>5. /\ Rows(Body(line), acc.rows, acc.rows) /\ Paged(Body(line)) /\ Begins(Body(line))
  BY <1>3, <1>4, RowsOfPlain
<1>6. p \in Seq(Tokens) BY <1>2, <1>4, ConcatProperties
<1>7. Rows(p, 0, acc.rows) BY <1>2, <1>4, <1>5, RowsJoined DEF Laid
<1>8. Paged(p) /\ Begins(p)
  <2>1. Body(line) # <<>> => Body(line)[1] # "f" BY <1>5 DEF Begins
  <2> QED BY <1>2, <1>4, <1>5, <2>1, PagesJoined DEF Laid
<1>9. /\ brk \in Seq(Tokens) /\ Len(brk) \in 1 .. 2 /\ brk[1] = "n" /\ brk # <<>>
      /\ brk[Len(brk)] \in {"n", "f"} /\ Paged(brk)
  <2>1. CASE full
    <3>1. brk = <<"n", "f">> BY <2>1
    <3> HIDE DEF brk
    <3>2. /\ Len(brk) = 2 /\ brk[1] = "n" /\ brk[2] = "f" BY <3>1
    <3>3. brk \in Seq(Tokens) BY <3>1 DEF Tokens
    <3>4. brk # <<>> BY <3>1
    <3>5. \A i \in 2 .. 2 : i - 1 = 1 OBVIOUS
    <3>6. Paged(brk) BY <3>2, <3>5 DEF Paged
    <3> QED BY <3>2, <3>3, <3>4, <3>6
  <2>2. CASE ~full
    <3>1. brk = <<"n">> BY <2>2
    <3> HIDE DEF brk
    <3>2. Len(brk) = 1 /\ brk[1] = "n" BY <3>1
    <3>3. brk \in Seq(Tokens) BY <3>1 DEF Tokens
    <3>4. brk # <<>> BY <3>1
    <3>5. 2 .. 1 = {} OBVIOUS
    <3>6. Paged(brk) BY <3>2, <3>5 DEF Paged
    <3> QED BY <3>2, <3>3, <3>4, <3>6
  <2> QED BY <2>1, <2>2
<1>10. Rows(brk, acc.rows, rows) /\ rows \in 0 .. MaxLines - 1
  <2>1. CASE full
    <3>1. brk = <<"n", "f">> /\ rows = 0 BY <2>1
    <3>2. 0 \in 0 .. MaxLines - 1 BY <1>2
    <3> QED BY <1>3, <3>1, <3>2, RowsOfBreaks
  <2>2. CASE ~full
    <3>1. brk = <<"n">> /\ rows = acc.rows + 1 BY <2>2
    <3>2. acc.rows + 1 \in 0 .. MaxLines - 1 BY <1>2, <2>2
    <3> QED BY <1>3, <3>1, <3>2, RowsOfBreaks
  <2> QED BY <2>1, <2>2
<1>11. Glyphs(brk) = <<>>
  <2>1. <<"n">> \in Seq(Tokens) /\ <<"f">> \in Seq(Tokens) /\ "n" \in Tokens /\ "f" \in Tokens
    BY DEF Tokens
  <2>2. Glyphs(<<"n">>) = <<>> /\ Glyphs(<<"f">>) = <<>> BY <2>1, GlyphsOfOne DEF IsGlyph
  <2>3. <<"n">> \o <<"f">> = <<"n", "f">> BY BothBreaks
  <2>4. Glyphs(<<"n", "f">>) = <<>> \o <<>> BY <2>1, <2>2, <2>3, GlyphsJoined
  <2>5. <<>> \o <<>> = <<>> OBVIOUS
  <2> QED BY <2>2, <2>4, <2>5
<1> HIDE DEF full, brk, rows
<1>12. r \in Seq(Tokens) /\ Rows(r, 0, rows)
  BY <1>6, <1>7, <1>9, <1>10, ConcatProperties, RowsJoined
<1>13. Paged(r) /\ Begins(r)
  <2>1. brk[1] # "f" BY <1>9
  <2> QED BY <1>6, <1>8, <1>9, <2>1, PagesJoined
<1> HIDE DEF p
<1>14. r # <<>> /\ r[Len(r)] \in {"n", "f"}
  <2>1. /\ Len(r) = Len(p) + Len(brk) /\ Len(p) \in Nat
        /\ \A i \in 1 .. Len(p) + Len(brk) :
             r[i] = IF i <= Len(p) THEN p[i] ELSE brk[i - Len(p)]
    BY <1>6, <1>9, ConcatProperties, LenProperties
  <2>2. /\ Len(r) \in 1 .. Len(p) + Len(brk) /\ ~(Len(r) <= Len(p))
        /\ Len(r) - Len(p) = Len(brk)
    BY <2>1, <1>9
  <2>3. r # <<>>
    <3>1. ASSUME r = <<>> PROVE FALSE
      <4>1. Len(r) = 0 BY <3>1
      <4> QED BY <4>1, <2>1, <2>2
    <3> QED BY <3>1
  <2> QED BY <1>9, <2>1, <2>2, <2>3
<1>15. Glyphs(r) = Glyphs(acc.text) \o Glyphs(line)
  <2>1. Glyphs(r) = Glyphs(p) \o Glyphs(brk) BY <1>6, <1>9, GlyphsJoined
  <2>2. Glyphs(p) = Glyphs(acc.text) \o Glyphs(line) BY <1>2, <1>4, GlyphsJoined DEF p
  <2>3. Glyphs(p) \in Seq(Drawn)
    <3>1. Len(p) \in Nat BY <1>6, LenProperties
    <3> QED BY <3>1, GlyphsAre
  <2>4. Glyphs(p) \o <<>> = Glyphs(p) BY <2>3, ConcatEmptySeq
  <2> QED BY <1>11, <2>1, <2>2, <2>4
<1> HIDE DEF r
<1>16. [text |-> r, rows |-> rows] \in LaidTexts
  BY <1>10, <1>12, <1>13, <1>14 DEF LaidTexts, Laid
<1> QED BY <1>1, <1>14, <1>15, <1>16

(* The two recursions over the lines: what is laid out, and its glyphs     *)
NoText == [text |-> <<>>, rows |-> 0]

LEMMA NoTextLaid == NoText \in LaidTexts
<1>1. MaxLines \in Nat \ {0} BY MessagesAssumption
<1>2. <<>> \in Seq(Tokens) /\ 0 \in 0 .. MaxLines - 1 /\ 0 \in 0 .. MaxLines BY <1>1
<1>3. Len(<<>>) = 0 /\ 2 .. 0 = {} OBVIOUS
<1>4. Rows(<<>>, 0, 0) BY <1>2, RowsOfNone
<1>5. Paged(<<>>) /\ Begins(<<>>) BY <1>3 DEF Paged, Begins
<1> QED BY <1>2, <1>4, <1>5 DEF NoText, LaidTexts, Laid

LEMMA AppendLinesAre ==
  ASSUME NEW lines, Len(lines) \in Nat, \A i \in 1 .. Len(lines) : lines[i] \in Lines
  PROVE  \E u : /\ u \in [0 .. Len(lines) -> LaidTexts] /\ u[0] = NoText
                /\ \A i \in 1 .. Len(lines) : u[i] = AppendLine(u[i - 1], lines[i])
                /\ AppendLines(lines) = u[Len(lines)]
<1> DEFINE n == Len(lines)
           D == LaidTexts
           step == [i \in 1 .. n |-> [acc \in D |-> AppendLine(acc, lines[i])]]
           Eq(u) == u = [i \in 0 .. n |->
                          IF i = 0 THEN [text |-> <<>>, rows |-> 0]
                          ELSE AppendLine(u[i - 1], lines[i])]
           v == CHOOSE u : Eq(u)
<1>1. NoText \in D /\ n \in Nat BY NoTextLaid
<1>2. step \in [1 .. n -> [D -> D]] BY LineLaid
<1>3. \A i \in 1 .. n : \A acc \in D : step[i][acc] = AppendLine(acc, lines[i]) OBVIOUS
<1> HIDE DEF step, D, n
<1>4. PICK f \in [0 .. n -> D] : f[0] = NoText /\ \A i \in 1 .. n : f[i] = step[i][f[i - 1]]
  <2>1. \E f : Repeats(f, D, NoText, n, step) BY <1>1, <1>2, Recursion
  <2> QED BY <2>1 DEF Repeats
<1>5. \A i \in 1 .. n : i - 1 \in 0 .. n /\ i \in 0 .. n BY <1>1
<1>6. \A i \in 1 .. n : f[i - 1] \in D BY <1>4, <1>5
<1>7. \A i \in 1 .. n : f[i] = AppendLine(f[i - 1], lines[i]) BY <1>3, <1>4, <1>6
<1>8. \A i \in 0 .. n : i # 0 => i \in 1 .. n BY <1>1
<1>9. Eq(f)
  <2>1. \A i \in 0 .. n : f[i] = IF i = 0 THEN [text |-> <<>>, rows |-> 0]
                                 ELSE AppendLine(f[i - 1], lines[i])
    BY <1>4, <1>7, <1>8 DEF NoText
  <2> QED BY <1>4, <2>1
<1>10. Eq(v) BY <1>9
<1>11. v[0] = NoText /\ \A i \in 1 .. n : v[i] = AppendLine(v[i - 1], lines[i])
  <2>1. 0 \in 0 .. n /\ \A i \in 1 .. n : i # 0 BY <1>1
  <2> QED BY <1>5, <1>10, <2>1 DEF NoText
<1>12. DOMAIN v = 0 .. n /\ v = [i \in 0 .. n |-> v[i]] BY <1>10
<1>13. AppendLines(lines) = v[n] BY DEF AppendLines, n
<1> HIDE DEF v
<1>14. \A i \in 0 .. n : v[i] = f[i]
  <2>1. v[0] = f[0] /\ \A i \in 1 .. n : SameStep(v, f, i) BY <1>4, <1>7, <1>11 DEF SameStep
  <2> QED BY <1>1, <2>1, RecursionIsOne
<1>15. v = f BY <1>4, <1>12, <1>14
<1> QED BY <1>4, <1>7, <1>13, <1>15 DEF n, D

LEMMA GlyphsOfLinesAre ==
  ASSUME NEW lines, Len(lines) \in Nat, \A i \in 1 .. Len(lines) : lines[i] \in Lines
  PROVE  \E w : /\ w \in [0 .. Len(lines) -> Seq(Drawn)] /\ w[0] = <<>>
                /\ \A i \in 1 .. Len(lines) : w[i] = w[i - 1] \o Glyphs(lines[i])
                /\ GlyphsOfLines(lines) = w[Len(lines)]
<1> DEFINE n == Len(lines)
           D == Seq(Drawn)
           step == [i \in 1 .. n |-> [g \in D |-> g \o Glyphs(lines[i])]]
           Eq(u) == u = [i \in 0 .. n |->
                          IF i = 0 THEN <<>> ELSE u[i - 1] \o Glyphs(lines[i])]
           v == CHOOSE u : Eq(u)
<1>1. <<>> \in D /\ n \in Nat OBVIOUS
<1>2. step \in [1 .. n -> [D -> D]]
  <2>1. ASSUME NEW i \in 1 .. n, NEW g \in D PROVE g \o Glyphs(lines[i]) \in D
    <3>1. lines[i] \in Seq(Tokens) BY BodyIs
    <3>2. Len(lines[i]) \in Nat BY <3>1, LenProperties
    <3>3. Glyphs(lines[i]) \in Seq(Drawn) BY <3>2, GlyphsAre
    <3> QED BY <3>3, ConcatProperties
  <2> QED BY <2>1
<1>3. \A i \in 1 .. n : \A g \in D : step[i][g] = g \o Glyphs(lines[i]) OBVIOUS
<1> HIDE DEF step, D, n
<1>4. PICK f \in [0 .. n -> D] : f[0] = <<>> /\ \A i \in 1 .. n : f[i] = step[i][f[i - 1]]
  <2>1. \E f : Repeats(f, D, <<>>, n, step) BY <1>1, <1>2, Recursion
  <2> QED BY <2>1 DEF Repeats
<1>5. \A i \in 1 .. n : i - 1 \in 0 .. n /\ i \in 0 .. n BY <1>1
<1>6. \A i \in 1 .. n : f[i - 1] \in D BY <1>4, <1>5
<1>7. \A i \in 1 .. n : f[i] = f[i - 1] \o Glyphs(lines[i]) BY <1>3, <1>4, <1>6
<1>8. \A i \in 0 .. n : i # 0 => i \in 1 .. n BY <1>1
<1>9. Eq(f)
  <2>1. \A i \in 0 .. n : f[i] = IF i = 0 THEN <<>> ELSE f[i - 1] \o Glyphs(lines[i])
    BY <1>4, <1>7, <1>8
  <2> QED BY <1>4, <2>1
<1>10. Eq(v) BY <1>9
<1>11. v[0] = <<>> /\ \A i \in 1 .. n : v[i] = v[i - 1] \o Glyphs(lines[i])
  <2>1. 0 \in 0 .. n /\ \A i \in 1 .. n : i # 0 BY <1>1
  <2> QED BY <1>5, <1>10, <2>1
<1>12. DOMAIN v = 0 .. n /\ v = [i \in 0 .. n |-> v[i]] BY <1>10
<1>13. GlyphsOfLines(lines) = v[n] BY DEF GlyphsOfLines, n
<1> HIDE DEF v
<1>14. \A i \in 0 .. n : v[i] = f[i]
  <2>1. v[0] = f[0] /\ \A i \in 1 .. n : SameStep(v, f, i) BY <1>4, <1>7, <1>11 DEF SameStep
  <2> QED BY <1>1, <2>1, RecursionIsOne
<1>15. v = f BY <1>4, <1>12, <1>14
<1> QED BY <1>4, <1>7, <1>13, <1>15 DEF n, D

(* So the text of lines has the glyphs of the lines.                       *)
LEMMA LinesLaid ==
  ASSUME NEW lines, Len(lines) \in Nat, \A i \in 1 .. Len(lines) : lines[i] \in Lines
  PROVE  /\ AppendLines(lines) \in LaidTexts
         /\ Glyphs(AppendLines(lines).text) = GlyphsOfLines(lines)
         /\ IF Len(lines) = 0 THEN AppendLines(lines) = NoText
            ELSE AppendLines(lines).text # <<>>
<1> DEFINE n == Len(lines)
<1>1. PICK u : /\ u \in [0 .. n -> LaidTexts] /\ u[0] = NoText
               /\ \A i \in 1 .. n : u[i] = AppendLine(u[i - 1], lines[i])
               /\ AppendLines(lines) = u[n]
  BY AppendLinesAre
<1>2. PICK w : /\ w \in [0 .. n -> Seq(Drawn)] /\ w[0] = <<>>
               /\ \A i \in 1 .. n : w[i] = w[i - 1] \o Glyphs(lines[i])
               /\ GlyphsOfLines(lines) = w[n]
  BY GlyphsOfLinesAre
<1> HIDE DEF n
<1>3. n \in Nat /\ n \in 0 .. n BY DEF n
<1>4. \A i \in 1 .. n : lines[i] \in Lines /\ u[i - 1] \in LaidTexts
  <2> TAKE i \in 1 .. n
  <2>1. i - 1 \in 0 .. n BY <1>3
  <2> QED BY <2>1, <1>1 DEF n
<1> DEFINE T == {i \in 0 .. n : Glyphs(u[i].text) = w[i]}
<1>5. 0 \in T
  <2>1. 0 \in 0 .. n BY <1>3
  <2> QED BY <2>1, <1>1, <1>2, GlyphsOfNone DEF NoText
<1>6. ASSUME NEW i \in 1 .. n, i - 1 \in T PROVE i \in T
  <2>1. i \in 0 .. n BY <1>3
  <2>2. Glyphs(u[i].text) = Glyphs(u[i - 1].text) \o Glyphs(lines[i]) BY <1>1, <1>4, LineLaid
  <2>3. Glyphs(u[i - 1].text) = w[i - 1] BY <1>6
  <2>4. w[i] = w[i - 1] \o Glyphs(lines[i]) BY <1>2
  <2> QED BY <2>1, <2>2, <2>3, <2>4
<1> HIDE DEF T
<1>7. \A i \in 0 .. n : i \in T BY <1>3, <1>5, <1>6, UpTo
<1>8. Glyphs(u[n].text) = w[n] BY <1>3, <1>7 DEF T
<1>9. ASSUME n # 0 PROVE u[n].text # <<>>
  <2>1. n \in 1 .. n BY <1>3, <1>9
  <2> QED BY <2>1, <1>1, <1>4, LineLaid
<1> QED BY <1>1, <1>2, <1>3, <1>8, <1>9 DEF n

LEMMA LinesAre ==
  ASSUME NEW say, Sayable(say)
  PROVE  /\ Len(LinesOf(say)) \in Nat
         /\ \A i \in 1 .. Len(LinesOf(say)) : LinesOf(say)[i] \in Lines
         /\ LinesOf(say) = <<>> <=> Len(LinesOf(say)) = 0
         /\ LinesOf(say) = <<>> <=> say.lines = <<>> /\ say.choices = <<>>
<1> DEFINE S == Seq(Tokens)
           p == say.lines
           q == [i \in DOMAIN say.choices |-> <<"c">>]
           r == p \o q
<1>1. /\ p \in Seq(Seq(Tokens \ {"n"})) /\ say.choices \in Seq(BOOLEAN)
      /\ \A i \in DOMAIN p : \A j \in DOMAIN p[i] : p[i][j] = "f" => j = Len(p[i])
  BY DEF Sayable, Sayings
<1>2. \A i \in 1 .. Len(p) : p[i] \in Lines
  <2> TAKE i \in 1 .. Len(p)
  <2>1. p[i] \in Seq(Tokens \ {"n"}) /\ i \in DOMAIN p BY <1>1, ElementOfSeq, LenProperties
  <2> QED BY <1>1, <2>1 DEF Lines
<1>3. <<"c">> \in Lines
  <2>1. "c" \in Tokens \ {"n"} /\ <<"c">>[1] # "f" /\ DOMAIN <<"c">> = {1} BY DEF Tokens
  <2> QED BY <2>1 DEF Lines
<1>4. Len(p) \in Nat /\ (p = <<>> <=> Len(p) = 0) BY <1>1, LenProperties, EmptySeq
<1>5. /\ DOMAIN say.choices = 1 .. Len(say.choices) /\ Len(say.choices) \in Nat
      /\ (say.choices = <<>> <=> Len(say.choices) = 0)
  BY <1>1, LenProperties, EmptySeq
<1>6. q \in [1 .. Len(say.choices) -> Lines] BY <1>3, <1>5
<1>7. q \in Seq(Lines) /\ Len(q) = Len(say.choices)
  <2>1. q \in Seq(Lines) BY <1>5, <1>6, SeqDef
  <2>2. Len(q) \in Nat /\ DOMAIN q = 1 .. Len(q) BY <2>1, LenProperties
  <2>3. DOMAIN q = 1 .. Len(say.choices) BY <1>5
  <2> HIDE DEF q
  <2> QED BY <1>5, <2>1, <2>2, <2>3
<1>8. p \in Seq(Lines) BY <1>1, <1>2, SeqOfParts
<1> HIDE DEF p, q
<1>9. r \in Seq(Lines) /\ Len(r) = Len(p) + Len(q) BY <1>7, <1>8, ConcatProperties
<1>10. LinesOf(say) = r BY DEF LinesOf, p, q
<1> HIDE DEF r
<1>11. \A i \in 1 .. Len(r) : r[i] \in Lines BY <1>9, ElementOfSeq
<1>12. r = <<>> <=> Len(r) = 0 BY <1>9, EmptySeq
<1>13. Len(r) = 0 <=> p = <<>> /\ say.choices = <<>> BY <1>4, <1>5, <1>7, <1>9
<1>14. Len(r) \in Nat BY <1>9, LenProperties
<1>15. r = <<>> <=> say.lines = <<>> /\ say.choices = <<>> BY <1>12, <1>13 DEF p
<1> QED BY <1>10, <1>11, <1>12, <1>14, <1>15, Zenon

(* The text of a message: its tokens, its pages, and its glyphs            *)
Paginated(q, from) ==
  /\ q # <<>> => q[Len(q)] = "f"
  /\ Paged(q) /\ \E to : Rows(q, from, to)

LEMMA TextIs ==
  ASSUME NEW say, Sayable(say)
  PROVE  /\ TextOf(say) \in Seq(Tokens) /\ TextOf(say) # <<>>
         /\ Paginated(TextOf(say), 0)
         /\ LinesOf(say) # <<>> => Head(TextOf(say)) # "f"
         /\ Glyphs(TextOf(say)) = GlyphsOfLines(LinesOf(say))
<1> DEFINE lines == LinesOf(say)
           acc == AppendLines(lines)
           t == acc.text
<1>1. /\ acc \in LaidTexts /\ Glyphs(t) = GlyphsOfLines(lines)
      /\ lines # <<>> => t # <<>>
  BY LinesAre, LinesLaid
<1> HIDE DEF lines, acc
<1>2. /\ t \in Seq(Tokens) /\ acc.rows \in 0 .. MaxLines /\ Rows(t, 0, acc.rows)
      /\ Paged(t) /\ Begins(t) /\ (t # <<>> => t[Len(t)] \in {"n", "f"})
  <2>1. MaxLines \in Nat BY MessagesAssumption
  <2>2. acc.rows \in 0 .. MaxLines - 1 BY <1>1 DEF LaidTexts
  <2> QED BY <1>1, <2>1, <2>2 DEF LaidTexts, Laid
<1> HIDE DEF t
<1>3. TextOf(say) = IF t # <<>> /\ t[Len(t)] = "f" THEN t ELSE Append(t, "f")
  BY DEF TextOf, t, acc, lines, Last
<1>4. CASE t # <<>> /\ t[Len(t)] = "f"
  <2>1. TextOf(say) = t BY <1>3, <1>4
  <2>2. Paginated(t, 0) BY <1>2, <1>4 DEF Paginated
  <2>3. Head(t) # "f" BY <1>2, <1>4 DEF Begins
  <2> QED BY <1>1, <1>2, <1>4, <2>1, <2>2, <2>3 DEF lines
<1>5. CASE ~(t # <<>> /\ t[Len(t)] = "f")
  <2> DEFINE f == <<"f">>
             r == t \o f
  <2>1. f \in Seq(Tokens) /\ f # <<>> /\ Len(f) = 1 /\ f[1] = "f" /\ Paged(f)
    <3>1. 2 .. 1 = {} /\ Len(f) = 1 OBVIOUS
    <3>2. Paged(f) BY <3>1 DEF Paged
    <3> QED BY <3>2 DEF Tokens
  <2>2. TextOf(say) = r
    <3>1. "f" \in Tokens BY DEF Tokens
    <3>2. Append(t, "f") = t \o <<"f">> BY <1>2, <3>1, AppendIsConcat
    <3> QED BY <1>3, <1>5, <3>2
  <2>3. Rows(r, 0, 0)
    <3>1. Rows(f, acc.rows, 0) BY <1>2, RowsOfBreaks
    <3> QED BY <1>2, <2>1, <3>1, RowsJoined
  <2>4. Glyphs(r) = Glyphs(t)
    <3>1. Glyphs(r) = Glyphs(t) \o Glyphs(f) BY <1>2, <2>1, GlyphsJoined
    <3>2. "f" \in Tokens /\ ~IsGlyph("f") BY DEF Tokens, IsGlyph
    <3>3. Glyphs(f) = <<>> BY <3>2, GlyphsOfOne
    <3>4. Len(t) \in Nat BY <1>2, LenProperties
    <3>5. Glyphs(t) \in Seq(Drawn) BY <3>4, GlyphsAre
    <3>6. Glyphs(t) \o <<>> = Glyphs(t) BY <3>5, ConcatEmptySeq
    <3> QED BY <3>1, <3>3, <3>6
  <2> HIDE DEF f
  <2>5. /\ r \in Seq(Tokens) /\ Len(r) = Len(t) + Len(f) /\ Len(t) \in Nat
        /\ \A i \in 1 .. Len(t) + Len(f) : r[i] = IF i <= Len(t) THEN t[i] ELSE f[i - Len(t)]
    BY <1>2, <2>1, ConcatProperties, LenProperties
  <2>6. Len(r) \in 1 .. Len(t) + Len(f) /\ ~(Len(r) <= Len(t)) /\ Len(r) - Len(t) = 1
    BY <2>1, <2>5
  <2>7. r[Len(r)] = "f" BY <2>1, <2>5, <2>6
  <2>8. r # <<>>
    <3>1. ASSUME r = <<>> PROVE FALSE
      <4>1. Len(r) = 0 BY <3>1
      <4> QED BY <4>1, <2>5, <2>6
    <3> QED BY <3>1
  <2>9. Paged(r)
    <3>1. CASE t = <<>>
      <4>1. Len(t) = 0 BY <3>1
      <4>2. Len(r) = 1 /\ 2 .. 1 = {} BY <2>1, <2>5, <4>1
      <4> QED BY <4>2 DEF Paged
    <3>2. CASE t # <<>>
      <4>1. t[Len(t)] = "n" BY <1>2, <1>5, <3>2
      <4> QED BY <1>2, <2>1, <3>2, <4>1, PagesJoined
    <3> QED BY <3>1, <3>2
  <2>10. ASSUME lines # <<>> PROVE Head(r) # "f"
    <3>1. t # <<>> /\ Len(t) >= 1 /\ t[1] # "f"
      <4>1. t # <<>> BY <1>1, <2>10 DEF t
      <4> QED BY <1>2, <4>1, EmptySeq DEF Begins
    <3>2. 1 \in 1 .. Len(t) + Len(f) /\ 1 <= Len(t) BY <2>1, <2>5, <3>1
    <3>3. r[1] = t[1] BY <2>5, <3>2
    <3>4. Head(r) = r[1] BY <2>5, <2>8
    <3> QED BY <3>1, <3>3, <3>4
  <2> HIDE DEF r
  <2>11. Paginated(r, 0) BY <2>3, <2>7, <2>9 DEF Paginated
  <2>12. Glyphs(r) = GlyphsOfLines(lines) BY <1>1, <2>4 DEF t
  <2> QED BY <2>2, <2>5, <2>8, <2>10, <2>11, <2>12 DEF lines
<1> QED BY <1>4, <1>5

LEMMA HeadRead ==
  ASSUME NEW q \in Seq(Tokens), q # <<>>, NEW r, Paginated(q, r)
  PROVE  /\ RowAfter(Head(q), r) \in 0 .. MaxLines
         /\ Paginated(Tail(q), RowAfter(Head(q), r))
         /\ IsGlyph(Head(q)) => r < MaxLines
         /\ Tail(q) = <<>> => Head(q) = "f"
         /\ Tail(q) # <<>> => Head(Tail(q)) = q[2] /\ (q[2] = "f" => Head(q) = "n")
<1> DEFINE n == Len(q)
           p == Tail(q)
<1>1. n \in Nat /\ n >= 1 /\ Head(q) = q[1] BY EmptySeq
<1>2. p \in Seq(Tokens) /\ Len(p) = n - 1 /\ \A i \in 1 .. n - 1 : p[i] = q[i + 1]
  <2>1. p \in Seq(Tokens) /\ Len(p) = n - 1 /\ \A i \in 1 .. Len(p) : p[i] = q[i + 1]
    BY HeadTailProperties
  <2> QED BY <2>1
<1>3. PICK c : Rows(q, r, c) BY DEF Paginated
<1>4. /\ RowAfter(Head(q), r) \in 0 .. MaxLines /\ Rows(p, RowAfter(Head(q), r), c)
      /\ IsGlyph(Head(q)) => r < MaxLines
  BY <1>3, RowsOfHead
<1>5. q[n] = "f" /\ Paged(q) BY DEF Paginated
<1> HIDE DEF n, p
<1>6. p # <<>> <=> n - 1 >= 1 BY <1>1, <1>2, EmptySeq
<1>7. ASSUME p # <<>> PROVE p[Len(p)] = "f"
  <2>1. n - 1 \in 1 .. n - 1 /\ (n - 1) + 1 = n BY <1>1, <1>6, <1>7
  <2> QED BY <2>1, <1>2, <1>5
<1>8. Paged(p)
  <2> SUFFICES ASSUME NEW i \in 2 .. Len(p), p[i] = "f" PROVE p[i - 1] = "n"
    BY DEF Paged
  <2>1. /\ i \in 1 .. n - 1 /\ i - 1 \in 1 .. n - 1 /\ i + 1 \in 2 .. n
        /\ (i + 1) - 1 = i /\ (i - 1) + 1 = i
    BY <1>1, <1>2
  <2>2. p[i] = q[i + 1] /\ p[i - 1] = q[i] BY <2>1, <1>2
  <2> QED BY <2>1, <2>2, <1>5 DEF Paged, n
<1>9. ASSUME p = <<>> PROVE Head(q) = "f"
  <2>1. n = 1 BY <1>1, <1>6, <1>9
  <2> QED BY <2>1, <1>1, <1>5
<1>10. ASSUME p # <<>> PROVE Head(p) = q[2] /\ (q[2] = "f" => Head(q) = "n")
  <2>1. 1 \in 1 .. n - 1 /\ 2 \in 2 .. n /\ 1 + 1 = 2 /\ 2 - 1 = 1 BY <1>1, <1>6, <1>10
  <2>2. Head(p) = p[1] BY <1>2, <1>10
  <2>3. p[1] = q[2] BY <2>1, <1>2
  <2>4. q[2] = "f" => q[1] = "n" BY <2>1, <1>5 DEF Paged, n
  <2> QED BY <2>2, <2>3, <2>4, <1>1
<1> QED BY <1>4, <1>7, <1>8, <1>9, <1>10 DEF Paginated, p

LEMMA PaginatedNone == ASSUME NEW r \in 0 .. MaxLines PROVE Paginated(<<>>, r)
<1>1. Len(<<>>) = 0 /\ 2 .. 0 = {} OBVIOUS
<1>2. Paged(<<>>) BY <1>1 DEF Paged
<1> QED BY <1>2, RowsOfNone DEF Paginated

-----------------------------------------------------------------------------
(* The invariant *)

Windows ==
  [visible : BOOLEAN, closing : BOOLEAN, frames : 0 .. OpenFrames, wait : Nat,
   pause : BOOLEAN, choosing : BOOLEAN, number : BOOLEAN, kill : BOOLEAN,
   printable : BOOLEAN, waited : BOOLEAN, close_started : BOOLEAN,
   close_finished : BOOLEAN]
PendingMessages == [asker : Speakers \cup {NoOne}, say : Sayings, former : BOOLEAN]
Pages == [rows : 0 .. MaxLines, read : BOOLEAN, killed : BOOLEAN]
Minds == [at : {"idle", "wants", "waits", "new", "gone"}, say : Sayings,
          asks : SUBSET Nat, sub : Nat]
Nights == {"none", "units", "foreground"}

Shape ==
  /\ pc \in {"units", "window", "typing", "inn", "foreground", "crashed"}
  /\ who \in 1 .. Len(Parallels) /\ inn \in Nights /\ (pc = "inn" => inn # "none")
  /\ window \in Windows /\ text \in Seq(Tokens)
  /\ message \in PendingMessages /\ speaker \in [Speakers -> Minds]
  /\ drawn \in Seq(Drawn) /\ page \in Pages
  /\ answer \in [Speakers -> Nat] /\ outdated \in [Speakers -> BOOLEAN]
  /\ Sayable(message.say) /\ \A s \in Speakers : Sayable(speaker[s].say)
  /\ speaker[Foreground].at \notin {"new", "gone"}

(* A message that has something to show holds the window open until it is  *)
(* finished; only then it closes.                                          *)
Told == message.asker # NoOne /\ IsActive(message.say)
Open == window.visible /\ ~window.closing

Opened ==
  /\ Told => Open
  /\ text # <<>> => Told
  /\ window.closing => window.frames > 0
  /\ window.pause \/ window.choosing \/ window.number => Open
  /\ window.close_started => window.visible
  /\ pc = "typing" => Open /\ ~window.close_started

(* At the end of a page the window waits for the player, has his answer or *)
(* met the code that needs none.                                           *)
Ended ==
  /\ (text = <<>> \/ Head(text) = "f") /\ Told
     => page.read \/ page.killed \/ window.pause \/ window.choosing \/ window.number
  /\ window.kill /\ text # <<>> => page.killed

(* Who has asked waits, or is not the one any more that asked; and in the  *)
(* frame in which a window begins to close it asks for a number at most,   *)
(* and that for the foreground.                                            *)
AskerWaits ==
  /\ message.asker \in Speakers
  /\ speaker[message.asker].at = "waits" \/ message.former
Question == message.say.choices # <<>> \/ message.say.digits > 0

Asking ==
  /\ ~(window.pause /\ (window.choosing \/ window.number))
  /\ ~(window.choosing /\ window.number)
  /\ window.choosing => message.say.choices # <<>>
  /\ window.choosing \/ window.number => AskerWaits
  /\ message.asker # NoOne /\ Question => AskerWaits
  /\ window.close_started =>
       /\ ~window.choosing
       /\ window.number => speaker[Foreground].at = "waits"
       /\ window.closing \/ drawn = <<>>

(* An index that is not the sentinel is the answer to what its speaker     *)
(* waits for, unless it answers a former page.                             *)
Answers(s) ==
  /\ ~outdated[s] =>
       /\ speaker[s].sub = answer[s]
       /\ \/ speaker[s].sub = subcommand_sentinel
          \/ speaker[s].at = "waits" /\ speaker[s].sub \in speaker[s].asks
  /\ message.asker = s /\ ~message.former /\ message.say.choices # <<>>
     => speaker[s].asks = Options(message.say)

(* What is drawn and what is left of the text are the whole message.       *)
Written ==
  /\ message.asker # NoOne
     => drawn \o Glyphs(text) = GlyphsOfLines(LinesOf(message.say))
  /\ Paginated(text, page.rows)

IInv ==
  /\ Shape /\ Opened /\ Ended /\ Asking
  /\ \A s \in Speakers : Answers(s)
  /\ Written

-----------------------------------------------------------------------------
(* What may be said *)

LEMMA SpeakersAre ==
  /\ Foreground \in Speakers /\ NoOne \notin Speakers /\ Changing \subseteq Speakers
  /\ Foreground \notin Changing /\ Len(Parallels) \in Nat /\ Len(Parallels) >= 1
  /\ \A i \in 1 .. Len(Parallels) : Parallels[i] \in Speakers /\ Parallels[i] # Foreground
<1>1. /\ Parallels \in Seq(ToSet(Parallels)) /\ Parallels # <<>>
      /\ Changing \subseteq ToSet(Parallels)
      /\ Foreground \notin ToSet(Parallels) /\ NoOne \notin ToSet(Parallels) \cup {Foreground}
  BY MessagesAssumption
<1>2. Len(Parallels) \in Nat /\ Len(Parallels) >= 1 BY <1>1, EmptySeq, LenProperties
<1>3. \A i \in 1 .. Len(Parallels) : Parallels[i] \in ToSet(Parallels) BY <1>1, ElementOfSeq
<1> QED BY <1>1, <1>2, <1>3 DEF Speakers

LEMMA NothingSayable == Sayable(Silence) /\ Silence \in Sayings
<1>1. Silence \in Sayings
  <2>1. <<>> \in Seq(Seq(Tokens \ {"n"})) /\ <<>> \in Seq(BOOLEAN) /\ 0 \in 0 .. 5 OBVIOUS
  <2> QED BY <2>1 DEF Silence, Sayings
<1>2. DOMAIN <<>> = {} OBVIOUS
<1> QED BY <1>1, <1>2 DEF Silence, Sayable

LEMMA ShownIs ==
  ASSUME NEW say, Sayable(say)
  PROVE  /\ Sayable(Shown(say)) /\ Shown(say).kind = say.kind
         /\ Sayable(Left(say))
         /\ say.kind = "inn" => Shown(say) = say /\ IsActive(say) /\ say.digits = 0
         /\ say.kind = "level" => ~(say.choices # <<>>) /\ say.digits = 0
<1>1. say \in Sayings BY DEF Sayable
<1>2. <<>> \in Seq(Seq(Tokens \ {"n"})) /\ <<>> \in Seq(BOOLEAN) /\ DOMAIN <<>> = {} OBVIOUS
<1>3. say.kind = "inn" \/ say.kind = "free inn" => Shown(say) = say
  BY DEF Sayable, Shown, Silence
<1>4. Sayable(Shown(say)) /\ Shown(say).kind = say.kind
  <2>1. CASE Shown(say) = say BY <2>1
  <2>2. CASE Shown(say) # say
    <3> DEFINE other == [say EXCEPT !.choices = <<>>, !.digits = 0]
    <3>1. Shown(say) = other BY <2>2 DEF Shown
    <3>2. other \in Sayings BY <1>1, <1>2 DEF Sayings
    <3>3. /\ other.kind = say.kind /\ other.lines = say.lines /\ other.choices = <<>>
          /\ other.digits = 0
      BY <1>1 DEF Sayings
    <3>4. say.kind # "inn" /\ say.kind # "free inn" BY <1>3, <2>2
    <3> HIDE DEF other
    <3>5. Sayable(other) BY <3>2, <3>3, <3>4 DEF Sayable
    <3> QED BY <3>1, <3>3, <3>5
  <2> QED BY <2>1, <2>2
<1>5. Sayable(Left(say))
  <2>1. CASE Shown(say) = say BY <2>1, NothingSayable DEF Left
  <2>2. CASE Shown(say) # say
    <3> DEFINE other == [say EXCEPT !.lines = <<>>]
    <3>1. Left(say) = other BY <2>2 DEF Left
    <3>2. other \in Sayings BY <1>1, <1>2 DEF Sayings
    <3>3. /\ other.kind = say.kind /\ other.lines = <<>> /\ other.choices = say.choices
          /\ other.digits = say.digits /\ other.cancel = say.cancel
      BY <1>1 DEF Sayings
    <3>4. say.kind # "inn" /\ say.kind # "free inn" BY <1>3, <2>2
    <3> HIDE DEF other
    <3>5. Sayable(other) BY <1>2, <3>2, <3>3, <3>4 DEF Sayable
    <3> QED BY <3>1, <3>5
  <2> QED BY <2>1, <2>2
<1>6. ASSUME say.kind = "inn" PROVE IsActive(say) /\ say.digits = 0
  <2>1. Len(say.choices) = 2 /\ say.digits = 0 BY <1>6 DEF Sayable
  <2>2. say.choices # <<>>
    <3>1. ASSUME say.choices = <<>> PROVE FALSE
      <4>1. Len(say.choices) = 0 BY <3>1
      <4> QED BY <4>1, <2>1
    <3> QED BY <3>1
  <2> QED BY <2>1, <2>2, LinesAre DEF IsActive
<1>7. say.kind = "level" => ~(say.choices # <<>>) /\ say.digits = 0 BY DEF Sayable
<1> QED BY <1>3, <1>4, <1>5, <1>6, <1>7

LEMMA AnswerIs ==
  ASSUME NEW say, Sayable(say)
  PROVE  /\ Options(say) \in SUBSET Nat
         /\ say.choices # <<>>
            => \A result \in Results(say) : Stored(say, result) \in Options(say)
         /\ say.choices # <<>> \/ say.digits > 0 => IsActive(say)
<1> DEFINE n == Len(say.choices)
<1>1. say.choices \in Seq(BOOLEAN) /\ say.cancel \in 0 .. 5 BY DEF Sayable, Sayings
<1>2. n \in Nat /\ DOMAIN say.choices = 1 .. n /\ (say.choices # <<>> => n >= 1)
  BY <1>1, LenProperties, EmptySeq
<1> HIDE DEF n
<1>3. Options(say) = {i - 1 : i \in 1 .. n} \cup (IF say.cancel = 5 THEN {4} ELSE {})
  BY <1>2 DEF Options
<1>4. Options(say) \in SUBSET Nat BY <1>2, <1>3
<1>5. ASSUME say.choices # <<>>, NEW result \in Results(say)
      PROVE  Stored(say, result) \in Options(say)
  <2>1. result \in Options(say)
    <3>1. say.cancel \in {0, 5} \cup (1 .. n) BY <1>2, <1>5 DEF Sayable
    <3>2. CASE result \in {i - 1 : i \in {j \in DOMAIN say.choices : say.choices[j]}}
      BY <3>2, <1>2, <1>3
    <3>3. CASE result \in (IF say.cancel > 0 THEN {say.cancel - 1} ELSE {})
      <4>1. say.cancel > 0 /\ result = say.cancel - 1 BY <3>3
      <4>2. CASE say.cancel = 5 BY <4>1, <4>2, <1>3
      <4>3. CASE say.cancel \in 1 .. n BY <4>1, <4>3, <1>3
      <4> QED BY <1>1, <3>1, <4>1, <4>2, <4>3
    <3> QED BY <1>5, <3>2, <3>3 DEF Results
  <2>2. CASE say.kind = "inn" /\ result # 0
    <3>1. n = 2 BY <2>2 DEF Sayable, n
    <3>2. 2 \in 1 .. n /\ 2 - 1 = 1 BY <3>1
    <3>3. Stored(say, result) = 1 BY <2>2 DEF Stored
    <3> QED BY <1>3, <3>2, <3>3
  <2>3. CASE ~(say.kind = "inn" /\ result # 0) BY <2>1, <2>3 DEF Stored
  <2> QED BY <2>2, <2>3
<1>6. say.choices # <<>> \/ say.digits > 0 => IsActive(say) BY LinesAre DEF IsActive
<1> QED BY <1>4, <1>5, <1>6

LEMMA Initially == ASSUME Init PROVE IInv
<1>1. OpenFrames \in Nat /\ MaxLines \in Nat BY MessagesAssumption
<1>2. Closed \in Windows
  <2>1. 0 \in 0 .. OpenFrames BY <1>1
  <2> QED BY <2>1 DEF Closed, Windows
<1>3. NewPage \in Pages /\ NewPage.rows = 0
  <2>1. 0 \in 0 .. MaxLines BY <1>1
  <2> QED BY <2>1 DEF NewPage, Pages
<1>4. NoMessage \in PendingMessages /\ NoMessage.asker = NoOne /\ NoMessage.say = Silence
  BY NothingSayable DEF NoMessage, PendingMessages
<1>5. /\ speaker \in [Speakers -> Minds]
      /\ \A s \in Speakers : /\ speaker[s].say = Silence /\ speaker[s].at = "idle"
                             /\ speaker[s].sub = subcommand_sentinel
  BY NothingSayable DEF Init, NoCommands, Minds, subcommand_sentinel
<1>6. Shape
  <2>1. <<>> \in Seq(Tokens) /\ <<>> \in Seq(Drawn) OBVIOUS
  <2>2. 1 \in 1 .. Len(Parallels) BY SpeakersAre
  <2>3. subcommand_sentinel \in Nat BY DEF subcommand_sentinel
  <2>4. speaker[Foreground].at \notin {"new", "gone"} BY <1>5, SpeakersAre
  <2>5. Sayable(message.say) /\ \A s \in Speakers : Sayable(speaker[s].say)
    BY <1>4, <1>5, NothingSayable DEF Init
  <2> QED BY <1>2, <1>3, <1>4, <1>5, <2>1, <2>2, <2>3, <2>4, <2>5 DEF Init, Shape, Nights
<1>7. ~Told /\ text = <<>> BY <1>4 DEF Init, Told
<1>8. Opened BY <1>7 DEF Init, Closed, Opened
<1>9. Ended BY <1>7 DEF Ended
<1>10. Asking
  <2>1. message.asker = NoOne BY <1>4 DEF Init
  <2>2. /\ ~window.pause /\ ~window.choosing /\ ~window.number /\ ~window.close_started
    BY DEF Init, Closed
  <2> QED BY <2>1, <2>2 DEF Asking
<1>11. ASSUME NEW s \in Speakers PROVE Answers(s)
  <2>1. message.asker # s BY <1>4, SpeakersAre DEF Init
  <2>2. answer[s] = subcommand_sentinel BY DEF Init
  <2> QED BY <1>5, <2>1, <2>2 DEF Answers
<1>12. Written
  <2>1. message.asker = NoOne /\ page.rows = 0 /\ 0 \in 0 .. MaxLines
    BY <1>1, <1>3, <1>4 DEF Init
  <2> QED BY <1>7, <2>1, PaginatedNone DEF Written
<1> QED BY <1>6, <1>8, <1>9, <1>10, <1>11, <1>12 DEF IInv

-----------------------------------------------------------------------------
(* The window *)

LEMMA AnimatedIs ==
  ASSUME Shape, Opened
  PROVE  /\ Animated \in Windows /\ ~Animated.close_started
         /\ Animated.pause = window.pause /\ Animated.choosing = window.choosing
         /\ Animated.number = window.number /\ Animated.kill = window.kill
         /\ Animated.wait = window.wait
         /\ Open => Animated.visible /\ ~Animated.closing
         /\ Animated.closing => Animated.frames > 0
         /\ Ready => Animated.visible /\ ~Animated.closing
<1> DEFINE w == [window EXCEPT !.close_started = FALSE, !.close_finished = FALSE]
           v == Animate(w)
<1>1. window \in Windows /\ OpenFrames \in Nat /\ (window.closing => window.frames > 0)
  BY MessagesAssumption DEF Shape, Opened
<1>2. /\ w \in Windows /\ ~w.close_started
      /\ w.pause = window.pause /\ w.choosing = window.choosing /\ w.number = window.number
      /\ w.kill = window.kill /\ w.wait = window.wait /\ w.visible = window.visible
      /\ w.closing = window.closing /\ w.frames = window.frames
  BY <1>1 DEF Windows
<1> HIDE DEF w
<1>3. w.frames \in 0 .. OpenFrames /\ w.closing \in BOOLEAN /\ w.visible \in BOOLEAN
  BY <1>2 DEF Windows
<1>4. /\ v \in Windows /\ ~v.close_started
      /\ v.pause = w.pause /\ v.choosing = w.choosing /\ v.number = w.number
      /\ v.kill = w.kill /\ v.wait = w.wait
      /\ w.visible /\ ~w.closing => v.visible /\ ~v.closing
      /\ v.closing => v.frames > 0
      /\ v.visible /\ v.frames = 0 => ~v.closing
  <2>1. CASE w.frames = 0
    <3>1. v = w BY <2>1 DEF Animate
    <3>2. ~w.closing BY <1>1, <1>2, <2>1
    <3> HIDE DEF v
    <3> QED BY <1>2, <3>1, <3>2
  <2>2. CASE w.frames # 0 /\ w.closing /\ w.frames = 1
    <3>1. v = [w EXCEPT !.frames = 0, !.closing = FALSE, !.visible = FALSE]
      BY <2>2 DEF Animate
    <3>2. 0 \in 0 .. OpenFrames BY <1>1
    <3> HIDE DEF v
    <3>3. v \in Windows BY <1>2, <3>1, <3>2 DEF Windows
    <3>4. /\ v.close_started = w.close_started
          /\ v.pause = w.pause /\ v.choosing = w.choosing /\ v.number = w.number
          /\ v.kill = w.kill /\ v.wait = w.wait /\ ~v.closing
      BY <1>2, <3>1 DEF Windows
    <3> QED BY <1>2, <2>2, <3>3, <3>4
  <2>3. CASE w.frames # 0 /\ ~(w.closing /\ w.frames = 1)
    <3>1. v = [w EXCEPT !.frames = @ - 1] BY <2>3 DEF Animate
    <3>2. w.frames - 1 \in 0 .. OpenFrames BY <1>1, <1>3, <2>3
    <3> HIDE DEF v
    <3>3. v \in Windows BY <1>2, <3>1, <3>2 DEF Windows
    <3>4. /\ v.close_started = w.close_started /\ v.visible = w.visible
          /\ v.pause = w.pause /\ v.choosing = w.choosing /\ v.number = w.number
          /\ v.kill = w.kill /\ v.wait = w.wait /\ v.closing = w.closing
          /\ v.frames = w.frames - 1
      BY <1>2, <3>1 DEF Windows
    <3>5. w.closing => w.frames - 1 > 0 BY <1>1, <1>2, <1>3, <2>3
    <3> QED BY <1>2, <3>3, <3>4, <3>5
  <2> QED BY <2>1, <2>2, <2>3
<1> HIDE DEF v
<1>5. Animated = [v EXCEPT !.close_finished = IsClosing /\ ~(v.frames > 0 /\ v.closing)]
  BY DEF Animated, v, w
<1>6. (IsClosing /\ ~(v.frames > 0 /\ v.closing)) \in BOOLEAN OBVIOUS
<1> DEFINE b == IsClosing /\ ~(v.frames > 0 /\ v.closing)
<1> HIDE DEF b
<1>7. Animated = [v EXCEPT !.close_finished = b] /\ b \in BOOLEAN BY <1>5, <1>6 DEF b
<1>8. Animated \in Windows BY <1>4, <1>7 DEF Windows
<1>9. /\ Animated.close_started = v.close_started /\ Animated.visible = v.visible
      /\ Animated.pause = v.pause /\ Animated.choosing = v.choosing
      /\ Animated.number = v.number /\ Animated.kill = v.kill
      /\ Animated.wait = v.wait /\ Animated.closing = v.closing /\ Animated.frames = v.frames
  BY <1>4, <1>7 DEF Windows
<1> QED BY <1>2, <1>4, <1>8, <1>9 DEF Ready, Open

Places == {"units", "window", "typing", "inn", "foreground", "crashed"}
SameMinds == \A s \in Speakers : /\ speaker'[s].at = speaker[s].at
                                 /\ speaker'[s].say = speaker[s].say
                                 /\ speaker'[s].asks = speaker[s].asks

(* What all steps of Window_Message::Update have in common: the window is  *)
(* animated, and a flag goes down only when the player has read the page.  *)
Looks ==
  /\ UNCHANGED <<who, text, message, drawn>>
  /\ pc' \in Places /\ inn' \in Nights /\ (pc' = "inn" => inn' # "none")
  /\ window' \in Windows /\ ~window'.close_started /\ window'.kill = window.kill
  /\ window'.closing => window'.frames > 0
  /\ Open \/ pc' = "typing" => window'.visible /\ ~window'.closing
  /\ window'.pause => window.pause
  /\ window'.choosing => window.choosing
  /\ window'.number => window.number
  /\ page' \in Pages /\ page'.rows = page.rows /\ page'.killed = page.killed
  /\ page'.read \/ /\ page'.read = page.read /\ window'.pause = window.pause
                   /\ window'.choosing = window.choosing /\ window'.number = window.number
  /\ speaker' \in [Speakers -> Minds] /\ SameMinds
  /\ answer' \in [Speakers -> Nat] /\ outdated' \in [Speakers -> BOOLEAN]

LEMMA LooksKeep ==
  ASSUME IInv, Looks
  PROVE  Shape' /\ Opened' /\ Ended' /\ Asking' /\ Written'
<1>1. Shape /\ Opened /\ Ended /\ Asking /\ Written BY DEF IInv
<1>2. /\ text' = text /\ message' = message /\ drawn' = drawn /\ who' = who
      /\ \A s \in Speakers : speaker'[s].at = speaker[s].at /\ speaker'[s].say = speaker[s].say
  BY DEF Looks, SameMinds
<1>3. Shape'
  <2>1. /\ Sayable(message'.say) /\ \A s \in Speakers : Sayable(speaker'[s].say)
        /\ speaker'[Foreground].at \notin {"new", "gone"}
    BY <1>1, <1>2, SpeakersAre DEF Shape
  <2>2. /\ pc' \in Places /\ inn' \in Nights /\ (pc' = "inn" => inn' # "none") /\ window' \in Windows /\ page' \in Pages
        /\ speaker' \in [Speakers -> Minds]
        /\ answer' \in [Speakers -> Nat] /\ outdated' \in [Speakers -> BOOLEAN]
    BY DEF Looks
  <2> QED BY <1>1, <1>2, <2>1, <2>2 DEF Shape, Places
<1>4. Told' <=> Told BY <1>2 DEF Told
<1>5. Opened'
  <2>1. Told' => Open' BY <1>1, <1>4 DEF Looks, Opened, Open
  <2>2. text' # <<>> => Told' BY <1>1, <1>2, <1>4 DEF Opened
  <2>3. window'.closing => window'.frames > 0 BY DEF Looks
  <2>4. window'.pause \/ window'.choosing \/ window'.number => Open'
    BY <1>1 DEF Looks, Opened, Open
  <2>5. ~window'.close_started /\ (pc' = "typing" => Open') BY DEF Looks, Open
  <2> QED BY <2>1, <2>2, <2>3, <2>4, <2>5 DEF Opened
<1>6. Ended'
  <2>1. /\ (text' = <<>> \/ Head(text') = "f") /\ Told'
           => page'.read \/ page'.killed \/ window'.pause \/ window'.choosing \/ window'.number
    BY <1>1, <1>2, <1>4 DEF Looks, Ended
  <2>2. window'.kill /\ text' # <<>> => page'.killed BY <1>1, <1>2 DEF Looks, Ended
  <2> QED BY <2>1, <2>2 DEF Ended
<1>7. Asking'
  <2>1. AskerWaits => AskerWaits'
    BY <1>2 DEF AskerWaits
  <2>2. /\ window'.pause => window.pause
        /\ window'.choosing => window.choosing
        /\ window'.number => window.number
        /\ ~window'.close_started
    BY DEF Looks
  <2>3. Question' <=> Question BY <1>2 DEF Question
  <2> QED BY <1>1, <1>2, <2>1, <2>2, <2>3 DEF Asking
<1>8. Written' BY <1>1, <1>2 DEF Looks, Written
<1> QED BY <1>3, <1>5, <1>6, <1>7, <1>8

LEMMA AnswersKept ==
  ASSUME IInv, SameMinds, message' = message, UNCHANGED <<answer, outdated>>,
         NEW s \in Speakers,
         speaker'[s].sub = speaker[s].sub
  PROVE  Answers(s)'
<1>1. Answers(s) BY DEF IInv
<1>2. speaker'[s].at = speaker[s].at /\ speaker'[s].asks = speaker[s].asks BY DEF SameMinds
<1> QED BY <1>1, <1>2 DEF Answers

(* The steps that leave the speakers alone.                                *)
LEMMA Watches ==
  ASSUME IInv, Passes \/ NoKey \/ Types \/ Confirms \/ Enters
  PROVE  IInv'
<1>1. Shape /\ Opened BY DEF IInv
<1>2. /\ Animated \in Windows /\ ~Animated.close_started
      /\ Animated.pause = window.pause /\ Animated.choosing = window.choosing
      /\ Animated.number = window.number /\ Animated.kill = window.kill
      /\ Animated.wait = window.wait
      /\ Open => Animated.visible /\ ~Animated.closing
      /\ Animated.closing => Animated.frames > 0
      /\ Ready => Animated.visible /\ ~Animated.closing
  BY <1>1, AnimatedIs
<1> DEFINE w == Animated
           ready == Ready
<1> HIDE DEF w, ready
<1>3. /\ w \in Windows /\ ~w.close_started
      /\ w.pause = window.pause /\ w.choosing = window.choosing
      /\ w.number = window.number /\ w.kill = window.kill /\ w.wait = window.wait
      /\ Open => w.visible /\ ~w.closing
      /\ w.closing => w.frames > 0
      /\ ready => w.visible /\ ~w.closing
  BY <1>2 DEF w, ready
<1>4. /\ UNCHANGED <<who, text, message, drawn, speaker, answer, outdated, inn>>
      /\ pc' \in Places /\ (pc' = "inn" => inn # "none")
      /\ pc' = "typing" => ready
      /\ window' \in Windows
      /\ window'.visible = w.visible /\ window'.closing = w.closing
      /\ window'.frames = w.frames /\ window'.close_started = w.close_started
      /\ window'.kill = w.kill
      /\ window'.pause => w.pause
      /\ window'.choosing => w.choosing
      /\ window'.number => w.number
      /\ page' \in Pages /\ page'.rows = page.rows /\ page'.killed = page.killed
      /\ page'.read \/ /\ page'.read = page.read /\ window'.pause = w.pause
                       /\ window'.choosing = w.choosing /\ window'.number = w.number
  <2>1. page \in Pages BY <1>1 DEF Shape
  <2>2. CASE Passes
    <3> DEFINE wait == IF ready THEN w.wait - 1 ELSE w.wait
    <3>1. window' = [w EXCEPT !.wait = wait] BY <1>3, <2>2 DEF Passes, w, ready, Windows
    <3>2. ready => window.wait > 0 BY <2>2 DEF Passes, ready
    <3>3. wait \in Nat BY <1>3, <3>2 DEF Windows
    <3> HIDE DEF wait
    <3>4. /\ UNCHANGED <<who, text, message, drawn, speaker, answer, outdated, inn, page>>
          /\ pc' \in {"inn", "foreground"} /\ (pc' = "inn" => inn # "none")
      BY <2>2 DEF Passes, EndWindow, history
    <3> QED BY <1>3, <2>1, <3>1, <3>3, <3>4 DEF Windows, Places
  <2>3. CASE NoKey
    <3>1. /\ UNCHANGED <<who, text, message, drawn, speaker, answer, outdated, inn, page>>
          /\ pc' \in {"inn", "foreground"} /\ (pc' = "inn" => inn # "none") /\ window' = w
      BY <2>3 DEF NoKey, EndWindow, history, w
    <3> QED BY <1>3, <2>1, <3>1 DEF Places
  <2>4. CASE Types
    <3>1. /\ UNCHANGED <<who, text, message, drawn, speaker, answer, outdated, inn, page>>
          /\ pc' = "typing" /\ window' = w /\ ready
      BY <2>4 DEF Types, AtWork, history, w, ready
    <3> QED BY <1>3, <2>1, <3>1 DEF Places
  <2>5. CASE Confirms
    <3>1. /\ UNCHANGED <<who, text, message, drawn, speaker, answer, outdated, inn>>
          /\ pc' = "typing" /\ window' = [w EXCEPT !.pause = FALSE] /\ ready
          /\ page' = [page EXCEPT !.read = TRUE]
      BY <2>5 DEF Confirms, AtWork, w, ready
    <3> QED BY <1>3, <2>1, <3>1 DEF Places, Windows, Pages
  <2>6. CASE Enters
    <3>1. /\ UNCHANGED <<who, text, message, drawn, speaker, answer, outdated, inn>>
          /\ pc' = "typing" /\ window' = [w EXCEPT !.number = FALSE] /\ ready
          /\ page' = [page EXCEPT !.read = TRUE]
      BY <2>6 DEF Enters, AtWork, w, ready
    <3> QED BY <1>3, <2>1, <3>1 DEF Places, Windows, Pages
  <2> QED BY <2>2, <2>3, <2>4, <2>5, <2>6
<1>5. SameMinds BY <1>4 DEF SameMinds
<1>6. Looks
  <2>1. /\ speaker \in [Speakers -> Minds] /\ answer \in [Speakers -> Nat]
        /\ outdated \in [Speakers -> BOOLEAN] /\ inn \in Nights
    BY <1>1 DEF Shape
  <2> QED BY <1>3, <1>4, <1>5, <2>1 DEF Looks
<1>7. \A s \in Speakers : Answers(s)' BY <1>4, <1>5, AnswersKept
<1> QED BY <1>6, <1>7, LooksKeep DEF IInv

(* The player answers: his choice is one of the options that its asker     *)
(* waits for, if it is still the one that has asked.                       *)
LEMMA Chosen == ASSUME IInv, Chooses PROVE IInv'
<1>1. Shape /\ Opened /\ Asking BY DEF IInv
<1>2. /\ Animated \in Windows /\ ~Animated.close_started
      /\ Animated.pause = window.pause /\ Animated.choosing = window.choosing
      /\ Animated.number = window.number /\ Animated.kill = window.kill
      /\ Animated.wait = window.wait
      /\ Open => Animated.visible /\ ~Animated.closing
      /\ Animated.closing => Animated.frames > 0
      /\ Ready => Animated.visible /\ ~Animated.closing
  BY <1>1, AnimatedIs
<1> DEFINE w == Animated
           a == message.asker
           say == message.say
<1> HIDE DEF w
<1>3. /\ w \in Windows /\ ~w.close_started
      /\ w.number = window.number /\ w.kill = window.kill /\ w.pause = window.pause
      /\ w.closing => w.frames > 0
      /\ w.visible /\ ~w.closing
  BY <1>2 DEF w, Chooses, AtWork
<1>4. window.choosing /\ say.choices # <<>> /\ AskerWaits
  BY <1>1 DEF Chooses, Asking
<1>5. a \in Speakers /\ (message.former \/ speaker[a].at = "waits")
  BY <1>4 DEF AskerWaits
<1>6. PICK result \in Results(say) :
        /\ speaker' = [speaker EXCEPT ![a].sub = Stored(say, result)]
        /\ answer' = [answer EXCEPT ![a] = Stored(say, result)]
        /\ outdated' = [outdated EXCEPT ![a] = message.former]
        /\ inn' = IF say.kind = "inn" /\ result = 0 THEN "foreground" ELSE "none"
  BY DEF Chooses
<1> DEFINE sub == Stored(say, result)
<1>7. sub \in Options(say) /\ sub \in Nat
  <2>1. Sayable(say) BY <1>1 DEF Shape
  <2> QED BY <1>4, <1>6, <2>1, AnswerIs
<1> HIDE DEF sub
<1>8. /\ speaker' = [speaker EXCEPT ![a].sub = sub]
      /\ answer' = [answer EXCEPT ![a] = sub]
      /\ outdated' = [outdated EXCEPT ![a] = message.former]
      /\ inn' \in Nights
  BY <1>6 DEF sub, Nights
<1>9. /\ speaker \in [Speakers -> Minds] /\ answer \in [Speakers -> Nat]
      /\ outdated \in [Speakers -> BOOLEAN] /\ page \in Pages
      /\ message \in PendingMessages
  BY <1>1 DEF Shape
<1>10. message.former \in BOOLEAN BY <1>9 DEF PendingMessages
<1>11. /\ speaker' \in [Speakers -> Minds] /\ SameMinds
       /\ speaker'[a].sub = sub
       /\ \A t \in Speakers \ {a} : speaker'[t].sub = speaker[t].sub
  <2>1. [speaker[a] EXCEPT !.sub = sub] \in Minds BY <1>5, <1>7, <1>9 DEF Minds
  <2>2. speaker' = [speaker EXCEPT ![a] = [speaker[a] EXCEPT !.sub = sub]] BY <1>8
  <2>3. /\ [speaker[a] EXCEPT !.sub = sub].at = speaker[a].at
        /\ [speaker[a] EXCEPT !.sub = sub].say = speaker[a].say
        /\ [speaker[a] EXCEPT !.sub = sub].asks = speaker[a].asks
        /\ [speaker[a] EXCEPT !.sub = sub].sub = sub
    <3>1. speaker[a] \in Minds BY <1>5, <1>9
    <3> QED BY <3>1 DEF Minds
  <2>4. \A t \in Speakers \ {a} : speaker'[t] = speaker[t] BY <1>9, <2>2
  <2>5. speaker'[a] = [speaker[a] EXCEPT !.sub = sub] BY <1>5, <1>9, <2>2
  <2>6. speaker' \in [Speakers -> Minds] BY <1>9, <2>1, <2>2
  <2>7. SameMinds BY <2>3, <2>4, <2>5 DEF SameMinds
  <2> QED BY <2>3, <2>4, <2>5, <2>6, <2>7
<1>12. /\ answer' \in [Speakers -> Nat] /\ outdated' \in [Speakers -> BOOLEAN]
       /\ answer'[a] = sub /\ outdated'[a] = message.former
       /\ \A t \in Speakers \ {a} : answer'[t] = answer[t] /\ outdated'[t] = outdated[t]
  BY <1>5, <1>7, <1>8, <1>9, <1>10
<1>13. /\ UNCHANGED <<who, text, message, drawn>> /\ pc' = "typing"
       /\ window' = [w EXCEPT !.choosing = FALSE] /\ page' = [page EXCEPT !.read = TRUE]
  BY DEF Chooses, w
<1>14. Looks
  <2>1. /\ window' \in Windows /\ ~window'.close_started /\ window'.kill = window.kill
        /\ window'.closing = w.closing /\ window'.frames = w.frames
        /\ window'.visible = w.visible /\ window'.pause = w.pause /\ ~window'.choosing
        /\ window'.number = w.number
    BY <1>3, <1>13 DEF Windows
  <2>2. page' \in Pages /\ page'.rows = page.rows /\ page'.killed = page.killed /\ page'.read
    BY <1>9, <1>13 DEF Pages
  <2> QED BY <1>3, <1>8, <1>11, <1>12, <1>13, <2>1, <2>2 DEF Looks, Places
<1>15. ASSUME NEW t \in Speakers PROVE Answers(t)'
  <2>1. Answers(t) BY DEF IInv
  <2>2. message' = message BY <1>13
  <2>3. speaker'[t].at = speaker[t].at /\ speaker'[t].asks = speaker[t].asks
    BY <1>11 DEF SameMinds
  <2>4. CASE t # a
    <3>1. /\ speaker'[t].sub = speaker[t].sub /\ answer'[t] = answer[t]
          /\ outdated'[t] = outdated[t]
      BY <1>11, <1>12, <2>4
    <3> QED BY <2>1, <2>2, <2>3, <3>1 DEF Answers
  <2>5. CASE t = a
    <3>1. ~message.former => speaker[a].at = "waits" /\ speaker[a].asks = Options(say)
      BY <1>4, <1>5, <2>1, <2>5 DEF Answers
    <3> QED BY <1>7, <1>11, <1>12, <2>1, <2>2, <2>3, <2>5, <3>1 DEF Answers
  <2> QED BY <2>4, <2>5
<1> QED BY <1>14, <1>15, LooksKeep DEF IInv

LEMMA Excepted ==
  ASSUME NEW S, NEW T, NEW f \in [S -> T], NEW a \in S, NEW v \in T, NEW g,
         g = [f EXCEPT ![a] = v]
  PROVE  g \in [S -> T] /\ \A s \in S : g[s] = IF s = a THEN v ELSE f[s]
OBVIOUS

LEMMA AnswersSame ==
  ASSUME NEW s \in Speakers, Answers(s), UNCHANGED <<message, speaker, answer, outdated>>
  PROVE  Answers(s)'
BY DEF Answers

(* Nobody is asked, the night is over, or nothing happens.                 *)
LEMMA Stands ==
  ASSUME IInv, NobodyAsked \/ FinishInn \/ UNCHANGED vars
  PROVE  IInv'
<1>1. Shape /\ Opened /\ Ended /\ Asking /\ Written BY DEF IInv
<1>2. /\ UNCHANGED <<who, window, text, message, drawn, page, speaker, answer, outdated>>
      /\ inn' \in Nights /\ pc' \in Places /\ (pc' = "typing" => pc = "typing")
      /\ pc' = "inn" => inn' # "none"
  <2>1. inn \in Nights /\ pc \in Places /\ (pc = "inn" => inn # "none")
    BY <1>1 DEF Shape, Places
  <2>2. CASE NobodyAsked BY <2>1, <2>2 DEF NobodyAsked, shown, Places
  <2>3. CASE FinishInn BY <2>1, <2>3 DEF FinishInn, shown, Places, Nights
  <2>4. CASE UNCHANGED vars BY <2>1, <2>4 DEF vars, shown
  <2> QED BY <2>2, <2>3, <2>4
<1>3. Shape' BY <1>1, <1>2 DEF Shape, Places
<1>4. Opened' BY <1>1, <1>2 DEF Opened, Told, Open
<1>5. Ended' BY <1>1, <1>2 DEF Ended, Told
<1>6. Asking' BY <1>1, <1>2 DEF Asking, AskerWaits, Question
<1>7. Written' BY <1>1, <1>2 DEF Written
<1>8. ASSUME NEW s \in Speakers PROVE Answers(s)'
  <2>1. Answers(s) BY DEF IInv
  <2> QED BY <1>2, <2>1, AnswersSame
<1> QED BY <1>3, <1>4, <1>5, <1>6, <1>7, <1>8 DEF IInv

-----------------------------------------------------------------------------
(* The text *)

(* What all steps of UpdateMessage but its end have in common: the window  *)
(* stays open, what it asks is what the message asks, and the flags go up  *)
(* where the page ends.                                                    *)
Prints ==
  /\ UNCHANGED <<who, inn, message, speaker, answer, outdated>>
  /\ pc = "typing" /\ pc' \in Places /\ (pc' = "inn" => inn # "none")
  /\ text' \in Seq(Tokens) /\ (text' # <<>> => text # <<>>)
  /\ drawn' \in Seq(Drawn) /\ page' \in Pages
  /\ window' \in Windows /\ window'.visible = window.visible
  /\ window'.closing = window.closing /\ window'.frames = window.frames
  /\ window'.close_started = window.close_started
  /\ ~(window'.pause /\ (window'.choosing \/ window'.number))
  /\ ~(window'.choosing /\ window'.number)
  /\ window'.choosing => message.say.choices # <<>>
  /\ window'.choosing \/ window'.number => AskerWaits
  /\ Ended' /\ Written'

LEMMA PrintsKeep == ASSUME IInv, Prints PROVE IInv'
<1>1. Shape /\ Opened /\ Asking BY DEF IInv
<1>2. /\ UNCHANGED <<who, inn, message, speaker, answer, outdated>>
      /\ pc = "typing" /\ pc' \in Places /\ (pc' = "inn" => inn # "none")
      /\ text' \in Seq(Tokens) /\ (text' # <<>> => text # <<>>)
      /\ drawn' \in Seq(Drawn) /\ page' \in Pages
      /\ window' \in Windows /\ window'.visible = window.visible
      /\ window'.closing = window.closing /\ window'.frames = window.frames
      /\ window'.close_started = window.close_started
  BY DEF Prints
<1>3. Shape' BY <1>1, <1>2 DEF Shape, Places
<1>4. Opened' BY <1>1, <1>2 DEF Opened, Told, Open
<1>5. Asking'
  <2>1. ~window'.close_started BY <1>1, <1>2 DEF Opened
  <2>2. AskerWaits => AskerWaits' BY <1>2 DEF AskerWaits
  <2>3. message'.asker # NoOne /\ Question' => AskerWaits'
    BY <1>1, <1>2, <2>2 DEF Asking, Question
  <2> QED BY <1>2, <2>1, <2>2, <2>3 DEF Prints, Asking
<1>6. ASSUME NEW s \in Speakers PROVE Answers(s)'
  <2>1. Answers(s) BY DEF IInv
  <2> QED BY <1>2, <2>1, AnswersSame
<1> QED BY <1>3, <1>4, <1>5, <1>6 DEF IInv, Prints

(* Where a token is read                                                   *)
LEMMA AtToken ==
  ASSUME IInv, Typing, text # <<>>
  PROVE  /\ Told /\ Head(text) \in Tokens /\ Tail(text) \in Seq(Tokens)
         /\ ~window.pause /\ ~window.choosing /\ ~window.number
         /\ window \in Windows /\ page \in Pages /\ drawn \in Seq(Drawn)
         /\ message \in PendingMessages
         /\ Paginated(Tail(text), RowAfter(Head(text), page.rows))
         /\ RowAfter(Head(text), page.rows) \in 0 .. MaxLines
         /\ Tail(text) = <<>> => Head(text) = "f"
         /\ Tail(text) # <<>> => Head(Tail(text)) = text[2]
         /\ Tail(text) # <<>> /\ text[2] = "f" => Head(text) = "n"
         /\ window.kill => page.killed
<1>1. Shape /\ Opened /\ Ended /\ Written BY DEF IInv
<1>2. text \in Seq(Tokens) /\ Paginated(text, page.rows) BY <1>1 DEF Shape, Written
<1>3. Told /\ (window.kill => page.killed) BY <1>1 DEF Opened, Ended
<1>4. Head(text) \in Tokens /\ Tail(text) \in Seq(Tokens) BY <1>2, GlyphsOfHead
<1>5. ~window.pause /\ ~window.choosing /\ ~window.number BY DEF Typing, Stopped
<1>6. /\ window \in Windows /\ page \in Pages /\ drawn \in Seq(Drawn)
      /\ message \in PendingMessages
  BY <1>1 DEF Shape
<1>7. /\ RowAfter(Head(text), page.rows) \in 0 .. MaxLines
      /\ Paginated(Tail(text), RowAfter(Head(text), page.rows))
      /\ Tail(text) = <<>> => Head(text) = "f"
      /\ Tail(text) # <<>> => Head(Tail(text)) = text[2] /\ (text[2] = "f" => Head(text) = "n")
  BY <1>2, HeadRead
<1> QED BY <1>3, <1>4, <1>5, <1>6, <1>7

LEMMA TypingStopped == ASSUME IInv, StopsTyping PROVE IInv'
<1>1. Shape /\ Opened /\ Ended /\ Asking /\ Written BY DEF IInv
<1>2. window \in Windows /\ text \in Seq(Tokens) /\ drawn \in Seq(Drawn) /\ page \in Pages
  BY <1>1 DEF Shape
<1> DEFINE wait == IF window.wait > 0 THEN window.wait - 1 ELSE window.wait
<1>3. window' = [window EXCEPT !.wait = wait] BY DEF StopsTyping
<1>4. wait \in Nat BY <1>2 DEF Windows
<1> HIDE DEF wait
<1>5. /\ window' \in Windows /\ window'.visible = window.visible
      /\ window'.closing = window.closing /\ window'.frames = window.frames
      /\ window'.close_started = window.close_started
      /\ window'.pause = window.pause /\ window'.choosing = window.choosing
      /\ window'.number = window.number /\ window'.kill = window.kill
  BY <1>2, <1>3, <1>4 DEF Windows
<1>6. /\ UNCHANGED <<who, inn, message, speaker, answer, outdated, text, drawn, page>>
      /\ pc = "typing" /\ pc' \in Places /\ (pc' = "inn" => inn # "none")
  BY DEF StopsTyping, TypingStays, EndWindow, Places
<1>7. Ended' BY <1>1, <1>5, <1>6 DEF Ended, Told
<1>8. Written' BY <1>1, <1>6 DEF Written
<1>9. Prints BY <1>1, <1>2, <1>5, <1>6, <1>7, <1>8 DEF Prints, Asking
<1> QED BY <1>9, PrintsKeep

LEMMA GlyphDrawn == ASSUME IInv, DrawGlyph PROVE IInv'
<1>1. Shape /\ Opened /\ Ended /\ Asking /\ Written BY DEF IInv
<1>2. Typing /\ text # <<>> /\ IsGlyph(Head(text)) BY DEF DrawGlyph
<1>3. /\ Told /\ Head(text) \in Tokens /\ Tail(text) \in Seq(Tokens)
      /\ ~window.pause /\ ~window.choosing /\ ~window.number
      /\ window \in Windows /\ page \in Pages /\ drawn \in Seq(Drawn)
      /\ Paginated(Tail(text), RowAfter(Head(text), page.rows))
      /\ Tail(text) = <<>> => Head(text) = "f"
      /\ Tail(text) # <<>> => Head(Tail(text)) = text[2]
      /\ Tail(text) # <<>> /\ text[2] = "f" => Head(text) = "n"
      /\ window.kill => page.killed
  BY <1>2, AtToken
<1>4. /\ UNCHANGED <<who, inn, message, speaker, answer, outdated, pc, page>> /\ pc = "typing"
      /\ pc' \in Places
  BY <1>2 DEF DrawGlyph, TypingStays, Typing, Places
<1>5. CASE PutsBack
  <2>1. /\ window' = [window EXCEPT !.waited = TRUE, !.wait = 1]
        /\ UNCHANGED <<text, drawn>>
    BY <1>5 DEF DrawGlyph
  <2>2. /\ window' \in Windows /\ window'.visible = window.visible
        /\ window'.closing = window.closing /\ window'.frames = window.frames
        /\ window'.close_started = window.close_started
        /\ window'.pause = window.pause /\ window'.choosing = window.choosing
        /\ window'.number = window.number /\ window'.kill = window.kill
    BY <1>3, <2>1 DEF Windows
  <2>3. Ended' BY <1>1, <1>4, <2>1, <2>2 DEF Ended, Told
  <2>4. Written' BY <1>1, <1>4, <2>1 DEF Written
  <2>5. text \in Seq(Tokens) BY <1>1 DEF Shape
  <2>6. Prints BY <1>1, <1>3, <1>4, <2>1, <2>2, <2>3, <2>4, <2>5 DEF Prints, Asking
  <2> QED BY <2>6, PrintsKeep
<1>6. CASE ~PutsBack
  <2>1. PICK frames \in Waits :
          window' = [window EXCEPT !.wait = frames, !.waited = frames > 0, !.printable = TRUE]
    BY <1>6 DEF DrawGlyph
  <2>2. text' = Tail(text) /\ drawn' = Append(drawn, Head(text))
    BY <1>6 DEF DrawGlyph, NextToken
  <2>3. frames \in Nat BY MessagesAssumption
  <2> DEFINE b == frames > 0
  <2>4. b \in BOOLEAN OBVIOUS
  <2> HIDE DEF b
  <2>5. window' = [window EXCEPT !.wait = frames, !.waited = b, !.printable = TRUE]
    BY <2>1 DEF b
  <2>6. /\ window' \in Windows /\ window'.visible = window.visible
        /\ window'.closing = window.closing /\ window'.frames = window.frames
        /\ window'.close_started = window.close_started
        /\ window'.pause = window.pause /\ window'.choosing = window.choosing
        /\ window'.number = window.number /\ window'.kill = window.kill
    BY <1>3, <2>3, <2>4, <2>5 DEF Windows
  <2>7. Head(text) \in Drawn BY <1>2 DEF IsGlyph, Drawn
  <2>8. drawn' \in Seq(Drawn) BY <1>3, <2>2, <2>7
  <2>9. Ended'
    <3>1. ~(text' = <<>> \/ Head(text') = "f")
      BY <1>2, <1>3, <2>2 DEF IsGlyph
    <3> QED BY <1>3, <1>4, <2>6, <3>1 DEF Ended
  <2>10. drawn' \o Glyphs(text') = drawn \o Glyphs(text)
    <3> DEFINE g == Glyphs(Tail(text))
               t == Head(text)
    <3>1. Len(Tail(text)) \in Nat BY <1>3, LenProperties
    <3>2. g \in Seq(Drawn) BY <1>3, <3>1, GlyphsAre
    <3>3. text \in Seq(Tokens) BY <1>1 DEF Shape
    <3>4. Glyphs(text) = <<t>> \o g BY <1>2, <3>3, GlyphsOfHead
    <3>5. t \in Drawn BY <2>7
    <3>6. drawn' = Append(drawn, t) /\ Glyphs(text') = g BY <2>2
    <3> HIDE DEF g, t
    <3>7. <<t>> \in Seq(Drawn) BY <3>5
    <3>8. Append(drawn, t) = drawn \o <<t>> BY <1>3, <3>5, AppendIsConcat
    <3>9. (drawn \o <<t>>) \o g = drawn \o (<<t>> \o g)
      BY <1>3, <3>2, <3>7, ConcatAssociative
    <3> QED BY <3>4, <3>6, <3>8, <3>9
  <2>11. RowAfter(Head(text), page.rows) = page.rows BY <1>2 DEF IsGlyph, RowAfter
  <2>12. Written' BY <1>1, <1>3, <1>4, <2>2, <2>10, <2>11 DEF Written
  <2>13. Prints
    BY <1>2, <1>3, <1>4, <2>2, <2>6, <2>8, <2>9, <2>12 DEF Prints
  <2> QED BY <2>13, PrintsKeep
<1> QED BY <1>5, <1>6

LEMMA CodeRead == ASSUME IInv, MessageCode PROVE IInv'
<1>1. Shape /\ Opened /\ Ended /\ Asking /\ Written BY DEF IInv
<1>2. Typing /\ text # <<>> /\ Head(text) \in {"!", "^"} BY DEF MessageCode, Reads
<1>3. /\ Told /\ Head(text) \in Tokens /\ Tail(text) \in Seq(Tokens)
      /\ ~window.pause /\ ~window.choosing /\ ~window.number
      /\ window \in Windows /\ page \in Pages /\ drawn \in Seq(Drawn)
      /\ Paginated(Tail(text), RowAfter(Head(text), page.rows))
      /\ Tail(text) = <<>> => Head(text) = "f"
      /\ Tail(text) # <<>> => Head(Tail(text)) = text[2]
      /\ Tail(text) # <<>> /\ text[2] = "f" => Head(text) = "n"
      /\ window.kill => page.killed
  BY <1>2, AtToken
<1>4. /\ UNCHANGED <<who, inn, message, speaker, answer, outdated, pc, drawn>> /\ pc = "typing"
      /\ pc' \in Places /\ text' = Tail(text)
  BY <1>2 DEF MessageCode, TypingStays, Typing, Places, NextToken
<1> DEFINE pauses == Head(text) = "!"
           kills == window.kill \/ Head(text) = "^"
           killed == page.killed \/ Head(text) = "^"
<1>5. PICK frames \in Waits :
        window' = [window EXCEPT !.wait = frames, !.waited = frames > 0,
                     !.printable = FALSE, !.pause = pauses, !.kill = kills]
  BY <1>3 DEF MessageCode
<1>6. page' = [page EXCEPT !.killed = killed] BY DEF MessageCode
<1>7. frames \in Nat BY MessagesAssumption
<1> DEFINE b == frames > 0
<1>8. b \in BOOLEAN /\ pauses \in BOOLEAN /\ kills \in BOOLEAN /\ killed \in BOOLEAN
      /\ (kills => killed)
  BY <1>3 DEF Pages, Windows
<1> HIDE DEF b, pauses, kills, killed
<1>9. window' = [window EXCEPT !.wait = frames, !.waited = b, !.printable = FALSE,
                   !.pause = pauses, !.kill = kills]
  BY <1>5 DEF b
<1>10. /\ window' \in Windows /\ window'.visible = window.visible
       /\ window'.closing = window.closing /\ window'.frames = window.frames
       /\ window'.close_started = window.close_started
       /\ window'.choosing = window.choosing
       /\ window'.number = window.number /\ window'.kill = kills
  BY <1>3, <1>7, <1>8, <1>9 DEF Windows
<1>11. page' \in Pages /\ page'.rows = page.rows /\ page'.killed = killed
  BY <1>3, <1>6, <1>8 DEF Pages
<1>12. Ended'
  <2>1. ~(text' = <<>> \/ Head(text') = "f") BY <1>2, <1>3, <1>4
  <2> QED BY <1>8, <1>10, <1>11, <2>1 DEF Ended
<1>13. Written'
  <2>1. text \in Seq(Tokens) BY <1>1 DEF Shape
  <2>2. Glyphs(text) = Glyphs(Tail(text)) BY <1>2, <2>1, GlyphsOfHead DEF IsGlyph
  <2>3. RowAfter(Head(text), page.rows) = page.rows BY <1>2 DEF RowAfter
  <2> QED BY <1>1, <1>3, <1>4, <1>11, <2>2, <2>3 DEF Written
<1>14. Prints BY <1>2, <1>3, <1>4, <1>10, <1>11, <1>12, <1>13 DEF Prints
<1> QED BY <1>14, PrintsKeep

LEMMA FlagsSet ==
  ASSUME NEW w \in Windows, NEW a \in BOOLEAN, NEW b \in BOOLEAN, NEW c \in BOOLEAN
  PROVE  [w EXCEPT !.choosing = a, !.number = b, !.pause = c, !.kill = FALSE] \in Windows
BY DEF Windows

(* The end of a page asks what its message asks, or for a key unless the   *)
(* text says otherwise.                                                    *)
LEMMA LineEnded == ASSUME IInv, NewLine PROVE IInv'
<1>1. Shape /\ Opened /\ Ended /\ Asking /\ Written BY DEF IInv
<1>2. Typing /\ text # <<>> /\ Head(text) = "n" BY DEF NewLine, Reads
<1>3. /\ Told /\ Head(text) \in Tokens /\ Tail(text) \in Seq(Tokens)
      /\ ~window.pause /\ ~window.choosing /\ ~window.number
      /\ window \in Windows /\ page \in Pages /\ drawn \in Seq(Drawn)
      /\ Paginated(Tail(text), RowAfter(Head(text), page.rows))
      /\ RowAfter(Head(text), page.rows) \in 0 .. MaxLines
      /\ Tail(text) = <<>> => Head(text) = "f"
      /\ Tail(text) # <<>> => Head(Tail(text)) = text[2]
      /\ window.kill => page.killed
  BY <1>2, AtToken
<1>4. /\ UNCHANGED <<who, inn, message, speaker, answer, outdated, pc, drawn>> /\ pc = "typing"
      /\ pc' \in Places /\ text' = Tail(text)
  BY <1>2 DEF NewLine, TypingStays, Typing, Places, NextToken
<1>5. RowAfter(Head(text), page.rows) = page.rows + 1 BY <1>2 DEF RowAfter
<1>6. page' \in Pages /\ page'.rows = page.rows + 1 /\ page'.killed = page.killed
  <2>1. page' = [page EXCEPT !.rows = @ + 1, !.read = FALSE] BY DEF NewLine
  <2>2. page.rows + 1 \in 0 .. MaxLines BY <1>3, <1>5
  <2> QED BY <1>3, <2>1, <2>2 DEF Pages
<1> DEFINE end_page == text[2] = "f"
           asks == message.say.choices # <<>>
           number == ~asks /\ message.say.digits > 0
           wait == IF window.printable THEN 0 ELSE IF end_page THEN 2 ELSE 1
           line == [window EXCEPT !.printable = FALSE, !.waited = TRUE, !.wait = wait]
<1>7. window' = IF end_page THEN OnFinishPage(line) ELSE line BY DEF NewLine
<1>8. /\ line \in Windows /\ line.visible = window.visible
      /\ line.closing = window.closing /\ line.frames = window.frames
      /\ line.close_started = window.close_started
      /\ line.pause = window.pause /\ line.choosing = window.choosing
      /\ line.number = window.number /\ line.kill = window.kill
  <2>1. wait \in Nat OBVIOUS
  <2> HIDE DEF wait
  <2> QED BY <1>3, <2>1 DEF Windows
<1>9. OnFinishPage(line) = [line EXCEPT !.choosing = asks, !.number = number,
        !.pause = ~asks /\ ~number /\ ~line.kill, !.kill = FALSE]
  BY DEF OnFinishPage
<1> HIDE DEF line
<1>10. asks \in BOOLEAN /\ number \in BOOLEAN OBVIOUS
<1>11. asks \/ number => AskerWaits
  <2>1. asks \/ number => Question BY DEF Question
  <2> QED BY <1>1, <1>3, <2>1 DEF Asking, Told
<1>12. number => ~asks OBVIOUS
<1> HIDE DEF number
<1>13. Written'
  <2>1. text \in Seq(Tokens) BY <1>1 DEF Shape
  <2>2. Glyphs(text) = Glyphs(Tail(text)) BY <1>2, <2>1, GlyphsOfHead DEF IsGlyph
  <2> QED BY <1>1, <1>3, <1>4, <1>5, <1>6, <2>2 DEF Written
<1>14. CASE end_page
  <2> DEFINE p == ~asks /\ ~number /\ ~line.kill
  <2>1. p \in BOOLEAN OBVIOUS
  <2>2. p <=> ~asks /\ ~number /\ ~line.kill OBVIOUS
  <2>3. window' = [line EXCEPT !.choosing = asks, !.number = number, !.pause = p,
                     !.kill = FALSE]
    BY <1>7, <1>9, <1>14
  <2> HIDE DEF p, asks
  <2>4. /\ window' \in Windows /\ window'.visible = window.visible
        /\ window'.closing = window.closing /\ window'.frames = window.frames
        /\ window'.close_started = window.close_started
        /\ window'.choosing = asks /\ window'.number = number /\ window'.pause = p
        /\ ~window'.kill
    <3>1. line \in Windows /\ asks \in BOOLEAN /\ number \in BOOLEAN /\ p \in BOOLEAN
      BY <1>8, <1>10, <2>1
    <3>2. window' \in Windows BY <2>3, <3>1, FlagsSet
    <3>3. /\ window'.visible = line.visible
          /\ window'.closing = line.closing /\ window'.frames = line.frames
          /\ window'.close_started = line.close_started
      BY <1>8, <2>3 DEF Windows
    <3>4. window'.choosing = asks BY <1>8, <2>3 DEF Windows
    <3>5. window'.number = number BY <1>8, <2>3 DEF Windows
    <3>6. window'.pause = p BY <1>8, <2>3 DEF Windows
    <3>7. ~window'.kill BY <1>8, <2>3 DEF Windows
    <3> QED BY <1>8, <3>2, <3>3, <3>4, <3>5, <3>6, <3>7
  <2>5. Ended'
    <3>1. page'.killed \/ window'.pause \/ window'.choosing \/ window'.number
      BY <1>3, <1>6, <1>8, <2>2, <2>4
    <3> QED BY <2>4, <3>1 DEF Ended
  <2>6. /\ ~(window'.pause /\ (window'.choosing \/ window'.number))
        /\ ~(window'.choosing /\ window'.number)
        /\ window'.choosing => message.say.choices # <<>>
        /\ window'.choosing \/ window'.number => AskerWaits
    BY <1>11, <1>12, <2>2, <2>4 DEF asks
  <2>7. Prints BY <1>2, <1>3, <1>4, <1>6, <1>13, <2>4, <2>5, <2>6 DEF Prints
  <2> QED BY <2>7, PrintsKeep
<1>15. CASE ~end_page
  <2>1. window' = line BY <1>7, <1>15
  <2>2. Ended'
    <3>1. ~(text' = <<>> \/ Head(text') = "f") BY <1>2, <1>3, <1>4, <1>15
    <3> QED BY <1>3, <1>6, <1>8, <2>1, <3>1 DEF Ended
  <2>3. Prints BY <1>2, <1>3, <1>4, <1>6, <1>8, <1>13, <2>1, <2>2 DEF Prints
  <2> QED BY <2>3, PrintsKeep
<1> QED BY <1>14, <1>15

LEMMA PageBroken == ASSUME IInv, PageBreak PROVE IInv'
<1>1. Shape /\ Opened /\ Ended /\ Asking /\ Written BY DEF IInv
<1>2. Typing /\ text # <<>> /\ Head(text) = "f" BY DEF PageBreak, Reads
<1>3. /\ Told /\ Head(text) \in Tokens /\ Tail(text) \in Seq(Tokens)
      /\ ~window.pause /\ ~window.choosing /\ ~window.number
      /\ window \in Windows /\ page \in Pages /\ drawn \in Seq(Drawn)
      /\ message \in PendingMessages
      /\ Paginated(Tail(text), RowAfter(Head(text), page.rows))
      /\ Tail(text) # <<>> => Head(Tail(text)) = text[2]
      /\ Tail(text) # <<>> /\ text[2] = "f" => Head(text) = "n"
      /\ window.kill => page.killed
  BY <1>2, AtToken
<1>4. /\ UNCHANGED <<who, inn, message, speaker, answer, outdated, pc, drawn>> /\ pc = "typing"
      /\ pc' \in Places /\ text' = Tail(text)
  BY <1>2 DEF PageBreak, TypingStays, Typing, Places, NextToken
<1>5. Glyphs(text) = Glyphs(Tail(text))
  <2>1. text \in Seq(Tokens) BY <1>1 DEF Shape
  <2> QED BY <1>2, <2>1, GlyphsOfHead DEF IsGlyph
<1>6. CASE Tail(text) = <<>>
  <2>1. UNCHANGED <<window, page>> BY <1>6 DEF PageBreak
  <2>2. Ended' BY <1>1, <1>2, <1>3, <1>4, <1>6, <2>1 DEF Ended, Told
  <2>3. Written'
    <3>1. page.rows \in 0 .. MaxLines BY <1>3 DEF Pages
    <3>2. Paginated(text', page'.rows) BY <1>4, <1>6, <2>1, <3>1, PaginatedNone
    <3> QED BY <1>1, <1>4, <1>5, <3>2 DEF Written
  <2>4. Prints BY <1>1, <1>3, <1>4, <2>1, <2>2, <2>3 DEF Prints, Asking
  <2> QED BY <2>4, PrintsKeep
<1>7. CASE Tail(text) # <<>>
  <2> DEFINE number == message.say.digits > 0 /\ LinesOf(message.say) = <<>>
  <2>1. /\ window' = [window EXCEPT !.choosing = FALSE, !.pause = FALSE, !.kill = FALSE,
                        !.number = number, !.printable = FALSE, !.waited = TRUE, !.wait = 1]
        /\ page' = NewPage
    <3>1. window' = [InsertNewPage(window, message.say) EXCEPT !.wait = 1] /\ page' = NewPage
      BY <1>7 DEF PageBreak
    <3> QED BY <3>1 DEF InsertNewPage
  <2>2. number \in BOOLEAN OBVIOUS
  <2>3. number => AskerWaits
    <3>1. number => Question BY DEF Question
    <3> QED BY <1>1, <1>3, <3>1 DEF Asking, Told
  <2> HIDE DEF number
  <2>4. /\ window' \in Windows /\ window'.visible = window.visible
        /\ window'.closing = window.closing /\ window'.frames = window.frames
        /\ window'.close_started = window.close_started
        /\ ~window'.choosing /\ ~window'.pause /\ ~window'.kill /\ window'.number = number
    BY <1>3, <2>1, <2>2 DEF Windows
  <2>5. page' \in Pages /\ page'.rows = 0
    <3>1. 0 \in 0 .. MaxLines BY MessagesAssumption
    <3> QED BY <2>1, <3>1 DEF NewPage, Pages
  <2>6. RowAfter(Head(text), page.rows) = 0 BY <1>2 DEF RowAfter
  <2>7. Ended'
    <3>1. ~(text' = <<>> \/ Head(text') = "f") BY <1>2, <1>3, <1>4, <1>7
    <3> QED BY <2>4, <3>1 DEF Ended
  <2>8. Written' BY <1>1, <1>3, <1>4, <1>5, <2>5, <2>6 DEF Written
  <2>9. Prints BY <1>2, <1>3, <1>4, <2>3, <2>4, <2>5, <2>7, <2>8 DEF Prints
  <2> QED BY <2>9, PrintsKeep
<1> QED BY <1>6, <1>7

(* The message is over, and its window closes.                             *)
LEMMA Finished == ASSUME IInv, FinishMessageProcessing PROVE IInv'
<1>1. Shape /\ Opened /\ Ended /\ Asking /\ Written BY DEF IInv
<1>2. OpenFrames \in Nat /\ OpenFrames >= 2 BY MessagesAssumption
<1> DEFINE w == [window EXCEPT !.pause = FALSE, !.choosing = FALSE,
                   !.kill = FALSE, !.number = FALSE, !.closing = TRUE,
                   !.frames = OpenFrames, !.close_started = TRUE]
<1>3. window \in Windows /\ page \in Pages /\ text = <<>> /\ pc = "typing" /\ window.visible
  BY <1>1 DEF Shape, FinishMessageProcessing, Typing, Opened, Open
<1>4. /\ w \in Windows /\ w.visible /\ w.closing /\ w.frames = OpenFrames
      /\ ~w.pause /\ ~w.choosing /\ ~w.kill /\ ~w.number
  <2>1. OpenFrames \in 0 .. OpenFrames BY <1>2
  <2> QED BY <1>3, <2>1 DEF Windows
<1>5. window' = Animate(w) BY DEF FinishMessageProcessing
<1> HIDE DEF w
<1>6. window' = [w EXCEPT !.frames = @ - 1]
  <2>1. w.frames # 0 /\ w.frames # 1 BY <1>2, <1>4
  <2> QED BY <1>5, <2>1 DEF Animate
<1>7. /\ window' \in Windows /\ window'.visible /\ window'.closing /\ window'.frames > 0
      /\ ~window'.pause /\ ~window'.choosing /\ ~window'.kill /\ ~window'.number
  <2>1. w.frames - 1 \in 0 .. OpenFrames /\ w.frames - 1 > 0 BY <1>2, <1>4
  <2> QED BY <1>4, <1>6, <2>1 DEF Windows
<1>8. /\ UNCHANGED <<who, inn, text, speaker, drawn, page, answer, outdated>>
      /\ pc' \in Places /\ pc' # "typing" /\ message' = NoMessage
      /\ pc' = "inn" => inn # "none"
  BY DEF FinishMessageProcessing, EndWindow, history, Places
<1>9. message' \in PendingMessages /\ message'.asker = NoOne /\ Sayable(message'.say)
  BY <1>8, NothingSayable DEF NoMessage, PendingMessages
<1>10. Shape' BY <1>1, <1>7, <1>8, <1>9 DEF Shape, Places
<1>11. ~Told' BY <1>9 DEF Told
<1>12. Opened' BY <1>3, <1>7, <1>8, <1>11 DEF Opened
<1>13. Ended' BY <1>3, <1>7, <1>11 DEF Ended
<1>14. Asking' BY <1>7, <1>9 DEF Asking
<1>15. ASSUME NEW s \in Speakers PROVE Answers(s)'
  <2>1. Answers(s) BY DEF IInv
  <2>2. message'.asker # s BY <1>9, SpeakersAre
  <2> QED BY <1>8, <2>1, <2>2 DEF Answers
<1>16. Written'
  <2>1. page'.rows \in 0 .. MaxLines BY <1>3, <1>8 DEF Pages
  <2>2. Paginated(text', page'.rows) BY <1>3, <1>8, <2>1, PaginatedNone
  <2> QED BY <1>9, <2>2 DEF Written
<1> QED BY <1>10, <1>12, <1>13, <1>14, <1>15, <1>16 DEF IInv

-----------------------------------------------------------------------------
(* The interpreters *)

LEMMA NowIs ==
  ASSUME Shape, Updating
  PROVE  /\ Now \in Speakers /\ Me \in Minds /\ Sayable(Me.say)
         /\ pc \in Places \ {"typing", "inn"}
<1>1. Now \in Speakers
  <2>1. CASE pc = "foreground" BY <2>1, SpeakersAre DEF Now
  <2>2. CASE pc # "foreground"
    <3>1. who \in 1 .. Len(Parallels) BY DEF Shape
    <3> QED BY <2>2, <3>1, SpeakersAre DEF Now
  <2> QED BY <2>1, <2>2
<1> QED BY <1>1 DEF Shape, Me, Updating, Places

LEMMA PendingIs == ASSUME Shape, Opened PROVE IsMessagePending <=> Open
<1>1. window \in Windows BY DEF Shape
<1> QED BY <1>1 DEF Opened, IsMessagePending, IsClosing, Open, Windows

LEMMA EndOfUpdate ==
  ASSUME Shape, Updating, EndUpdate \/ UNCHANGED <<pc, who>>
  PROVE  who' \in 1 .. Len(Parallels) /\ pc' \in Places \ {"typing", "inn"}
<1>1. /\ who \in 1 .. Len(Parallels) /\ Len(Parallels) \in Nat /\ Len(Parallels) >= 1
      /\ pc \in {"units", "foreground"}
  BY SpeakersAre DEF Shape, Updating
<1>2. CASE EndUpdate /\ pc = "foreground"
  <2>1. who' = 1 /\ pc' = "units" BY <1>2 DEF EndUpdate
  <2> QED BY <1>1, <2>1 DEF Places
<1>3. CASE EndUpdate /\ pc # "foreground" /\ who < Len(Parallels)
  <2>1. who' = who + 1 /\ pc' = pc BY <1>3 DEF EndUpdate
  <2> QED BY <1>1, <1>3, <2>1 DEF Places
<1>4. CASE EndUpdate /\ pc # "foreground" /\ ~(who < Len(Parallels))
  <2>1. who' = who /\ pc' = "window" BY <1>4 DEF EndUpdate
  <2> QED BY <1>1, <2>1 DEF Places
<1>5. CASE UNCHANGED <<pc, who>> BY <1>1, <1>5 DEF Places
<1> QED BY <1>2, <1>3, <1>4, <1>5

(* The steps that leave the message window alone; while it is open who     *)
(* waits goes on waiting.                                                  *)
Thinks ==
  /\ UNCHANGED <<window, text, message, drawn, page>>
  /\ who' \in 1 .. Len(Parallels) /\ pc' \in Places /\ pc' # "typing"
  /\ inn' \in Nights /\ (pc' = "inn" => inn' # "none")
  /\ speaker' \in [Speakers -> Minds]
  /\ \A s \in Speakers : Sayable(speaker'[s].say)
  /\ speaker'[Foreground].at \notin {"new", "gone"}
  /\ answer' \in [Speakers -> Nat] /\ outdated' \in [Speakers -> BOOLEAN]
  /\ Open => \A s \in Speakers : speaker[s].at = "waits" => speaker'[s].at = "waits"

LEMMA ThinksKeep ==
  ASSUME IInv, Thinks
  PROVE  Shape' /\ Opened' /\ Ended' /\ Asking' /\ Written'
<1>1. Shape /\ Opened /\ Ended /\ Asking /\ Written BY DEF IInv
<1>2. /\ UNCHANGED <<window, text, message, drawn, page>>
      /\ who' \in 1 .. Len(Parallels) /\ pc' \in Places /\ pc' # "typing"
      /\ inn' \in Nights /\ (pc' = "inn" => inn' # "none")
  BY DEF Thinks
<1>3. Shape' BY <1>1, <1>2 DEF Thinks, Shape, Places
<1>4. Opened' BY <1>1, <1>2 DEF Opened, Told, Open
<1>5. Ended' BY <1>1, <1>2 DEF Ended, Told
<1>6. Written' BY <1>1, <1>2 DEF Written
<1>7. message \in PendingMessages /\ Sayable(message.say) BY <1>1 DEF Shape
<1>8. Asking'
  <2>1. Open /\ AskerWaits => AskerWaits' BY <1>2 DEF Thinks, AskerWaits
  <2>2. window.choosing \/ window.number => Open BY <1>1 DEF Opened
  <2>3. message.asker # NoOne /\ Question => Open
    <3>1. Question => IsActive(message.say) BY <1>7, AnswerIs DEF Question
    <3> QED BY <1>1, <3>1 DEF Opened, Told
  <2>4. window.close_started /\ window.number => speaker'[Foreground].at = "waits"
    BY <1>1, <2>2, SpeakersAre DEF Thinks, Asking
  <2>5. Question' <=> Question BY <1>2 DEF Question
  <2> QED BY <1>1, <1>2, <2>1, <2>2, <2>3, <2>4, <2>5 DEF Asking
<1> QED BY <1>3, <1>4, <1>5, <1>6, <1>8

(* One command of an interpreter, or none.                                 *)
LEMMA Commands ==
  ASSUME IInv, PushPage \/ Breaks \/ Rests \/ WantsToSay \/ MayNotShow
  PROVE  IInv'
<1>1. Shape BY DEF IInv
<1>2. /\ Updating /\ (EndUpdate \/ UNCHANGED <<pc, who>>)
      /\ UNCHANGED <<inn, window, text, message, drawn, page, answer, outdated>>
  BY DEF PushPage, Breaks, Rests, WantsToSay, MayNotShow, Stays, shown, Runs
<1>3. Now \in Speakers /\ Me \in Minds /\ Sayable(Me.say) BY <1>1, <1>2, NowIs
<1>4. who' \in 1 .. Len(Parallels) /\ pc' \in Places \ {"typing", "inn"}
  BY <1>1, <1>2, EndOfUpdate
<1>5. /\ speaker \in [Speakers -> Minds] /\ speaker[Foreground].at \notin {"new", "gone"}
      /\ \A s \in Speakers : Sayable(speaker[s].say)
      /\ answer \in [Speakers -> Nat] /\ outdated \in [Speakers -> BOOLEAN]
      /\ inn \in Nights
  BY <1>1 DEF Shape
<1> DEFINE n == Now
<1> HIDE DEF n
<1>6. \/ speaker' = speaker
      \/ \E mind \in Minds :
           /\ speaker' = [speaker EXCEPT ![n] = mind]
           /\ speaker[n].at # "waits" /\ mind.asks = speaker[n].asks
           /\ mind.sub = speaker[n].sub /\ mind.at \in {"idle", "wants"}
           /\ Sayable(mind.say)
  <2>1. CASE PushPage
    <3> DEFINE mind == [speaker[n] EXCEPT !.at = "idle"]
    <3>1. speaker' = [speaker EXCEPT ![n] = mind] /\ speaker[n].at = "new"
      BY <2>1 DEF PushPage, n, Me
    <3>2. speaker[n] \in Minds /\ Sayable(speaker[n].say) BY <1>3 DEF n, Me
    <3>3. /\ mind \in Minds /\ mind.asks = speaker[n].asks /\ mind.sub = speaker[n].sub
          /\ mind.at = "idle" /\ mind.say = speaker[n].say
      BY <3>2 DEF Minds
    <3> QED BY <3>1, <3>2, <3>3
  <2>2. CASE WantsToSay
    <3>1. PICK say \in Says[Now] :
            speaker' = [speaker EXCEPT ![Now].at = "wants", ![Now].say = say]
      BY <2>2 DEF WantsToSay
    <3>2. Sayable(say) BY <1>3, <3>1, SaysAssumption
    <3>3. say \in Sayings BY <3>2 DEF Sayable
    <3> DEFINE mind == [speaker[n] EXCEPT !.at = "wants", !.say = say]
    <3>4. speaker[n] \in Minds /\ speaker[n].at = "idle" /\ n \in Speakers
      BY <1>3, <2>2 DEF WantsToSay, Runs, n, Me
    <3>5. /\ mind \in Minds /\ mind.asks = speaker[n].asks /\ mind.sub = speaker[n].sub
          /\ mind.at = "wants" /\ mind.say = say
      BY <3>3, <3>4 DEF Minds
    <3>6. speaker' = [speaker EXCEPT ![n].at = "wants", ![n].say = say] BY <3>1 DEF n
    <3>7. speaker' = [speaker EXCEPT ![n] = mind] BY <1>5, <3>4, <3>6 DEF Minds
    <3> QED BY <3>2, <3>4, <3>5, <3>7
  <2>3. CASE Breaks \/ Rests \/ MayNotShow BY <2>3 DEF Breaks, Rests, MayNotShow
  <2> QED BY <2>1, <2>2, <2>3
<1>7. /\ speaker' \in [Speakers -> Minds]
      /\ \A s \in Speakers : /\ Sayable(speaker'[s].say)
                             /\ speaker'[s].asks = speaker[s].asks
                             /\ speaker'[s].sub = speaker[s].sub
                             /\ speaker[s].at = "waits" => speaker'[s].at = "waits"
      /\ speaker'[Foreground].at \notin {"new", "gone"}
  <2>1. CASE speaker' = speaker BY <1>5, <2>1
  <2>2. CASE \E mind \in Minds :
               /\ speaker' = [speaker EXCEPT ![n] = mind]
               /\ speaker[n].at # "waits" /\ mind.asks = speaker[n].asks
               /\ mind.sub = speaker[n].sub /\ mind.at \in {"idle", "wants"}
               /\ Sayable(mind.say)
    <3>1. PICK mind \in Minds :
               /\ speaker' = [speaker EXCEPT ![n] = mind]
               /\ speaker[n].at # "waits" /\ mind.asks = speaker[n].asks
               /\ mind.sub = speaker[n].sub /\ mind.at \in {"idle", "wants"}
               /\ Sayable(mind.say)
      BY <2>2
    <3>2. /\ speaker' \in [Speakers -> Minds]
          /\ \A s \in Speakers : speaker'[s] = IF s = n THEN mind ELSE speaker[s]
      BY <1>5, <3>1
    <3> QED BY <1>5, <3>1, <3>2, SpeakersAre
  <2> QED BY <1>6, <2>1, <2>2
<1>8. Thinks BY <1>2, <1>4, <1>5, <1>7 DEF Thinks
<1>9. ASSUME NEW s \in Speakers PROVE Answers(s)'
  <2>1. Answers(s) BY DEF IInv
  <2> QED BY <1>2, <1>7, <2>1 DEF Answers
<1> QED BY <1>8, <1>9, ThinksKeep DEF IInv

(* Who goes on after the message has no open window any more.              *)
LEMMA WentOn == ASSUME IInv, GoesOn PROVE IInv'
<1>1. Shape /\ Opened BY DEF IInv
<1>2. Updating /\ Me.at = "waits" /\ ~Held(Now) BY DEF GoesOn, Runs
<1>3. /\ Now \in Speakers /\ Me \in Minds /\ Sayable(Me.say)
      /\ pc \in Places \ {"typing", "inn"}
  BY <1>1, <1>2, NowIs
<1>4. ~Open
  <2>1. CASE Now = Foreground BY <1>1, <1>2, <2>1, PendingIs DEF Held
  <2>2. CASE Now # Foreground
    <3>1. ~IsMessageActive BY <1>2, <2>2 DEF Held, Me
    <3> QED BY <3>1 DEF IsMessageActive, Open
  <2> QED BY <2>1, <2>2
<1> DEFINE n == Now
           me == speaker[n]
           taken == me.sub \in me.asks
           at == IF me.say = Silence THEN "idle" ELSE "wants"
           sub == IF taken THEN subcommand_sentinel ELSE me.sub
           next == [me EXCEPT !.at = at, !.asks = {}, !.sub = sub]
           gone == outdated[n] /\ ~taken
<1> HIDE DEF n
<1>5. n \in Speakers /\ me \in Minds /\ Sayable(me.say) /\ me.at = "waits"
  BY <1>2, <1>3 DEF n, Me
<1>6. /\ speaker' = [speaker EXCEPT ![n] = next]
      /\ answer' = [answer EXCEPT ![n] = subcommand_sentinel]
      /\ outdated' = [outdated EXCEPT ![n] = gone]
      /\ UNCHANGED <<pc, who, inn, window, text, message, drawn, page>>
  BY DEF GoesOn, Me, n, shown
<1>7. /\ next \in Minds /\ next.at \in {"idle", "wants"} /\ next.asks = {}
      /\ next.sub = sub /\ next.say = me.say
  <2>1. sub \in Nat BY <1>5 DEF Minds, subcommand_sentinel
  <2>2. at \in {"idle", "wants"} OBVIOUS
  <2> HIDE DEF sub, at
  <2> QED BY <1>5, <2>1, <2>2 DEF Minds
<1>8. /\ speaker \in [Speakers -> Minds] /\ speaker[Foreground].at \notin {"new", "gone"}
      /\ \A s \in Speakers : Sayable(speaker[s].say)
      /\ answer \in [Speakers -> Nat] /\ outdated \in [Speakers -> BOOLEAN]
      /\ who \in 1 .. Len(Parallels) /\ message \in PendingMessages /\ Sayable(message.say)
      /\ inn \in Nights
  BY <1>1 DEF Shape
<1>9. gone \in BOOLEAN BY <1>5, <1>8
<1> HIDE DEF next, gone
<1>10. /\ speaker' \in [Speakers -> Minds]
       /\ \A s \in Speakers : speaker'[s] = IF s = n THEN next ELSE speaker[s]
       /\ answer' \in [Speakers -> Nat]
       /\ \A s \in Speakers : answer'[s] = IF s = n THEN subcommand_sentinel ELSE answer[s]
       /\ outdated' \in [Speakers -> BOOLEAN]
       /\ \A s \in Speakers : outdated'[s] = IF s = n THEN gone ELSE outdated[s]
  <2>1. subcommand_sentinel \in Nat BY DEF subcommand_sentinel
  <2>2. /\ speaker' \in [Speakers -> Minds]
        /\ \A s \in Speakers : speaker'[s] = IF s = n THEN next ELSE speaker[s]
    BY <1>5, <1>6, <1>7, <1>8, Excepted
  <2>3. /\ answer' \in [Speakers -> Nat]
        /\ \A s \in Speakers :
             answer'[s] = IF s = n THEN subcommand_sentinel ELSE answer[s]
    BY <1>5, <1>6, <1>8, <2>1, Excepted
  <2>4. /\ outdated' \in [Speakers -> BOOLEAN]
        /\ \A s \in Speakers : outdated'[s] = IF s = n THEN gone ELSE outdated[s]
    BY <1>5, <1>6, <1>8, <1>9, Excepted
  <2> QED BY <2>2, <2>3, <2>4
<1>11. Thinks
  <2>1. \A s \in Speakers : Sayable(speaker'[s].say) BY <1>5, <1>7, <1>8, <1>10
  <2>2. speaker'[Foreground].at \notin {"new", "gone"} BY <1>7, <1>8, <1>10, SpeakersAre
  <2> QED BY <1>3, <1>4, <1>6, <1>8, <1>10, <2>1, <2>2 DEF Thinks
<1>12. ASSUME NEW s \in Speakers PROVE Answers(s)'
  <2>1. Answers(s) BY DEF IInv
  <2>2. CASE s # n BY <1>6, <1>10, <2>1, <2>2 DEF Answers
  <2>3. CASE s = n
    <3>1. ~(message.asker = n /\ message.say.choices # <<>>)
      <4>1. message.say.choices # <<>> => IsActive(message.say) BY <1>8, AnswerIs
      <4>2. n # NoOne BY <1>5, SpeakersAre
      <4> QED BY <1>1, <1>4, <4>1, <4>2 DEF Opened, Told
    <3>2. ~gone => next.sub = subcommand_sentinel
      <4>1. CASE taken BY <1>7, <4>1
      <4>2. CASE ~taken
        <5>1. ~gone => ~outdated[n] BY <1>8, <4>2 DEF gone
        <5>2. ~outdated[n] => me.sub = subcommand_sentinel BY <2>1, <2>3, <4>2 DEF Answers
        <5> QED BY <1>7, <4>2, <5>1, <5>2
      <4> QED BY <4>1, <4>2
    <3>3. message' = message BY <1>6
    <3> QED BY <1>10, <2>3, <3>1, <3>2, <3>3 DEF Answers
  <2> QED BY <2>2, <2>3
<1> QED BY <1>11, <1>12, ThinksKeep DEF IInv

(* A page changes: its speaker is cleared, and what it has asked is asked  *)
(* by a former one.                                                        *)
LEMMA PageChanged == ASSUME IInv, ChangesPage PROVE IInv'
<1>1. Shape /\ Opened /\ Ended /\ Asking /\ Written BY DEF IInv
<1>2. Updating /\ UNCHANGED <<inn, window, text, drawn, page>> BY DEF ChangesPage, Runs
<1>3. PICK p \in Changing, at \in {"new", "gone"} :
        /\ speaker' = [speaker EXCEPT ![p] = NoCommands(at)]
        /\ answer' = [answer EXCEPT ![p] = subcommand_sentinel]
        /\ outdated' = [outdated EXCEPT ![p] = FALSE]
        /\ message' = [message EXCEPT !.former = @ \/ message.asker = p]
        /\ IF p = Now THEN EndUpdate ELSE UNCHANGED <<pc, who>>
  BY DEF ChangesPage
<1>4. who' \in 1 .. Len(Parallels) /\ pc' \in Places \ {"typing", "inn"}
  BY <1>1, <1>2, <1>3, EndOfUpdate
<1>5. /\ speaker \in [Speakers -> Minds] /\ speaker[Foreground].at \notin {"new", "gone"}
      /\ \A s \in Speakers : Sayable(speaker[s].say)
      /\ answer \in [Speakers -> Nat] /\ outdated \in [Speakers -> BOOLEAN]
      /\ message \in PendingMessages /\ Sayable(message.say)
  BY <1>1 DEF Shape
<1>6. p \in Speakers /\ p # Foreground BY SpeakersAre
<1> DEFINE mind == NoCommands(at)
           former == message.former \/ message.asker = p
<1>7. /\ mind \in Minds /\ mind.at \in {"new", "gone"} /\ mind.say = Silence
      /\ mind.sub = subcommand_sentinel
  BY NothingSayable DEF NoCommands, Minds, subcommand_sentinel
<1>8. former \in BOOLEAN BY <1>5 DEF PendingMessages
<1>9. message' = [message EXCEPT !.former = former] BY <1>3
<1>10. former <=> message.former \/ message.asker = p OBVIOUS
<1> HIDE DEF mind, former
<1>11. /\ message' \in PendingMessages /\ message'.asker = message.asker
       /\ message'.say = message.say /\ message'.former = former
  BY <1>5, <1>8, <1>9 DEF PendingMessages
<1>12. /\ speaker' \in [Speakers -> Minds]
       /\ \A s \in Speakers : speaker'[s] = IF s = p THEN mind ELSE speaker[s]
       /\ answer' \in [Speakers -> Nat]
       /\ \A s \in Speakers : answer'[s] = IF s = p THEN subcommand_sentinel ELSE answer[s]
       /\ outdated' \in [Speakers -> BOOLEAN]
       /\ \A s \in Speakers : outdated'[s] = IF s = p THEN FALSE ELSE outdated[s]
  <2>1. subcommand_sentinel \in Nat BY DEF subcommand_sentinel
  <2>2. speaker' = [speaker EXCEPT ![p] = mind] BY <1>3 DEF mind
  <2>3. /\ speaker' \in [Speakers -> Minds]
        /\ \A s \in Speakers : speaker'[s] = IF s = p THEN mind ELSE speaker[s]
    BY <1>5, <1>6, <1>7, <2>2, Excepted
  <2>4. /\ answer' \in [Speakers -> Nat]
        /\ \A s \in Speakers :
             answer'[s] = IF s = p THEN subcommand_sentinel ELSE answer[s]
    BY <1>3, <1>5, <1>6, <2>1, Excepted
  <2>5. /\ outdated' \in [Speakers -> BOOLEAN]
        /\ \A s \in Speakers : outdated'[s] = IF s = p THEN FALSE ELSE outdated[s]
    BY <1>3, <1>5, <1>6, Excepted
  <2> QED BY <2>3, <2>4, <2>5
<1>13. Shape'
  <2>1. \A s \in Speakers : Sayable(speaker'[s].say)
    BY <1>5, <1>7, <1>12, NothingSayable
  <2>2. speaker'[Foreground].at \notin {"new", "gone"} BY <1>5, <1>6, <1>12, SpeakersAre
  <2> QED BY <1>1, <1>2, <1>4, <1>5, <1>11, <1>12, <2>1, <2>2 DEF Shape, Places
<1>14. Told' <=> Told BY <1>11 DEF Told
<1>15. Opened' BY <1>1, <1>2, <1>4, <1>14 DEF Opened, Open
<1>16. Ended' BY <1>1, <1>2, <1>14 DEF Ended
<1>17. Written' BY <1>1, <1>2, <1>11 DEF Written
<1>18. Asking'
  <2>1. AskerWaits => AskerWaits'
    <3>1. CASE message.asker = p BY <1>6, <1>10, <1>11, <3>1 DEF AskerWaits
    <3>2. CASE message.asker # p BY <1>10, <1>11, <1>12, <3>2 DEF AskerWaits
    <3> QED BY <3>1, <3>2
  <2>2. Question' <=> Question BY <1>11 DEF Question
  <2>3. speaker'[Foreground] = speaker[Foreground] BY <1>6, <1>12, SpeakersAre
  <2> QED BY <1>1, <1>2, <1>11, <2>1, <2>2, <2>3 DEF Asking
<1>19. ASSUME NEW s \in Speakers PROVE Answers(s)'
  <2>1. Answers(s) BY DEF IInv
  <2>2. CASE s = p
    <3>1. message'.asker = s => message'.former BY <1>10, <1>11, <2>2
    <3> QED BY <1>7, <1>12, <2>2, <3>1 DEF Answers
  <2>3. CASE s # p
    <3>1. message'.asker = s /\ ~message'.former => message.asker = s /\ ~message.former
      BY <1>10, <1>11, <2>3
    <3> QED BY <1>11, <1>12, <2>1, <2>3, <3>1 DEF Answers
  <2> QED BY <2>2, <2>3
<1> QED BY <1>13, <1>15, <1>16, <1>17, <1>18, <1>19 DEF IInv

(* StartMessageProcessing: what must hold of the speakers for the window   *)
(* to go on asking for one thing only                                      *)
MayStart(s, say) ==
  /\ ~IsActive(say) => ~window.choosing
  /\ ~IsActive(say) /\ window.number => speaker'[s].at = "waits"
  /\ ~IsActive(say) /\ window.close_started /\ window.number
     => speaker'[Foreground].at = "waits"
  /\ say.choices # <<>> \/ say.digits > 0 => speaker'[s].at = "waits"
  /\ window.close_started /\ say.digits > 0 => speaker'[Foreground].at = "waits"

MindsAre ==
  /\ speaker' \in [Speakers -> Minds] /\ \A s \in Speakers : Sayable(speaker'[s].say)
  /\ speaker'[Foreground].at \notin {"new", "gone"}
  /\ answer' \in [Speakers -> Nat] /\ outdated' \in [Speakers -> BOOLEAN]

LEMMA MessageStarted ==
  ASSUME IInv, NEW s \in Speakers, NEW say, Sayable(say), Updating, UNCHANGED <<pc, who, inn>>,
         StartMessage(s, say), MindsAre, MayStart(s, say)
  PROVE  /\ Shape' /\ Opened' /\ Ended' /\ Asking' /\ Written'
         /\ message'.asker = s /\ message'.say = say
<1>1. Shape /\ Opened /\ Ended /\ Asking BY DEF IInv
<1>2. /\ message' = [asker |-> s, say |-> say, former |-> FALSE]
      /\ drawn' = <<>> /\ page' = NewPage
  BY DEF StartMessage
<1>3. say \in Sayings BY DEF Sayable
<1>4. message' \in PendingMessages /\ message'.asker = s /\ message'.say = say
  BY <1>2, <1>3 DEF PendingMessages
<1>5. OpenFrames \in Nat /\ MaxLines \in Nat /\ s # NoOne BY MessagesAssumption, SpeakersAre
<1>6. page' \in Pages /\ page'.rows = 0 /\ 0 \in 0 .. MaxLines
  <2>1. 0 \in 0 .. MaxLines BY <1>5
  <2> QED BY <1>2, <2>1 DEF NewPage, Pages
<1>7. window \in Windows /\ pc # "typing" /\ pc' # "typing" BY <1>1 DEF Shape, Updating
<1>8. Told' <=> IsActive(say) BY <1>4, <1>5 DEF Told
<1>9. Question' <=> say.choices # <<>> \/ say.digits > 0 BY <1>4 DEF Question
<1>10. AskerWaits' <=> speaker'[s].at = "waits"
  <2>1. ~message'.former BY <1>2
  <2> QED BY <1>4, <2>1 DEF AskerWaits
<1> DEFINE asks == say.digits > 0 /\ LinesOf(say) = <<>>
           frames == IF window.visible THEN 0 ELSE OpenFrames
           opened == [window EXCEPT !.visible = TRUE, !.closing = FALSE, !.frames = frames]
<1>11. CASE ~IsActive(say)
  <2>1. text' = <<>> /\ UNCHANGED window BY <1>11 DEF StartMessage
  <2>2. Shape'
    <3>1. <<>> \in Seq(Tokens) /\ <<>> \in Seq(Drawn) OBVIOUS
    <3> QED BY <1>1, <1>2, <1>4, <1>6, <2>1, <3>1 DEF Shape, MindsAre
  <2>3. Opened' BY <1>1, <1>7, <1>8, <1>11, <2>1 DEF Opened, Open
  <2>4. Ended' BY <1>8, <1>11, <2>1 DEF Ended
  <2>5. LinesOf(say) = <<>> BY <1>11 DEF IsActive
  <2>6. Written'
    <3>1. GlyphsOfLines(<<>>) = <<>>
      <4>1. Len(<<>>) = 0 /\ 1 .. 0 = {} OBVIOUS
      <4>2. PICK w : w[0] = <<>> /\ GlyphsOfLines(<<>>) = w[Len(<<>>)]
        BY <4>1, GlyphsOfLinesAre
      <4> QED BY <4>1, <4>2
    <3>2. <<>> \o <<>> = <<>> OBVIOUS
    <3>3. Paginated(text', page'.rows) BY <1>6, <2>1, PaginatedNone
    <3> QED BY <1>2, <1>4, <2>1, <2>5, <3>1, <3>2, <3>3, GlyphsOfNone DEF Written
  <2>7. Asking'
    <3>1. ~(say.choices # <<>> \/ say.digits > 0) BY <1>11, AnswerIs
    <3>2. ~window.choosing /\ (window.number => speaker'[s].at = "waits")
          /\ (window.close_started /\ window.number => speaker'[Foreground].at = "waits")
      BY <1>11 DEF MayStart
    <3> QED BY <1>1, <1>2, <1>4, <1>9, <1>10, <2>1, <3>1, <3>2 DEF Asking
  <2> QED BY <1>4, <2>2, <2>3, <2>4, <2>6, <2>7
<1>12. CASE IsActive(say)
  <2>1. /\ opened \in Windows /\ opened.visible /\ ~opened.closing
        /\ opened.close_started = window.close_started
    <3>1. frames \in 0 .. OpenFrames BY <1>5
    <3> HIDE DEF frames
    <3> QED BY <1>7, <3>1 DEF Windows
  <2>2. text' = TextOf(say) /\ window' = InsertNewPage(opened, say)
    BY <1>12 DEF StartMessage
  <2> HIDE DEF opened
  <2>3. window' = [opened EXCEPT !.choosing = FALSE, !.pause = FALSE, !.kill = FALSE,
                     !.number = asks, !.printable = FALSE, !.waited = TRUE]
    BY <2>2 DEF InsertNewPage
  <2>4. asks \in BOOLEAN /\ (asks => say.digits > 0) OBVIOUS
  <2>5. LinesOf(say) = <<>> => asks BY <1>12 DEF IsActive
  <2> HIDE DEF asks
  <2>6. /\ window' \in Windows /\ window'.visible /\ ~window'.closing
        /\ ~window'.choosing /\ ~window'.pause /\ ~window'.kill /\ window'.number = asks
        /\ window'.close_started = window.close_started
    BY <2>1, <2>3, <2>4 DEF Windows
  <2>7. /\ text' \in Seq(Tokens) /\ text' # <<>> /\ Paginated(text', 0)
        /\ LinesOf(say) # <<>> => Head(text') # "f"
        /\ Glyphs(text') = GlyphsOfLines(LinesOf(say))
    BY <2>2, TextIs
  <2>8. Shape'
    <3>1. <<>> \in Seq(Drawn) OBVIOUS
    <3> QED BY <1>1, <1>2, <1>4, <1>6, <2>6, <2>7, <3>1 DEF Shape, MindsAre
  <2>9. Opened' BY <1>7, <1>8, <1>12, <2>6 DEF Opened, Open
  <2>10. Ended' BY <2>5, <2>6, <2>7 DEF Ended
  <2>11. Written'
    <3>1. Len(text') \in Nat BY <2>7, LenProperties
    <3>2. Glyphs(text') \in Seq(Drawn) BY <2>7, <3>1, GlyphsAre
    <3>3. <<>> \o Glyphs(text') = Glyphs(text') BY <3>2, ConcatEmptySeq
    <3> QED BY <1>2, <1>4, <1>6, <2>7, <3>3 DEF Written
  <2>12. Asking'
    <3>1. window'.number => speaker'[s].at = "waits" BY <2>4, <2>6 DEF MayStart
    <3>2. Question' => speaker'[s].at = "waits" BY <1>9 DEF MayStart
    <3>3. window'.close_started /\ window'.number => speaker'[Foreground].at = "waits"
      BY <2>4, <2>6 DEF MayStart
    <3> QED BY <1>2, <1>10, <2>6, <3>1, <3>2, <3>3 DEF Asking
  <2> QED BY <1>4, <2>8, <2>9, <2>10, <2>11, <2>12
<1> QED BY <1>11, <1>12

LEMMA Spoken == ASSUME IInv, Speaks PROVE IInv'
<1>1. Shape /\ Opened /\ Asking BY DEF IInv
<1>2. Updating /\ Me.at = "wants" /\ Me.say.kind \in {"talk", "inn"} /\ Allowed(Now, Me.say)
  BY DEF Speaks, Runs
<1> DEFINE n == Now
           me == speaker[n]
           say == Shown(me.say)
           left == Left(me.say)
           options == Options(say)
           mind == [me EXCEPT !.at = "waits", !.say = left, !.asks = options]
<1> HIDE DEF n
<1>3. n \in Speakers /\ me \in Minds /\ Sayable(me.say) /\ me.at = "wants"
  BY <1>1, <1>2, NowIs DEF n, Me
<1>4. /\ Sayable(say) /\ say.kind = me.say.kind /\ Sayable(left)
      /\ say.kind = "inn" => IsActive(say) /\ say.digits = 0
  BY <1>3, ShownIs
<1>5. options \in SUBSET Nat /\ left \in Sayings BY <1>4, AnswerIs DEF Sayable
<1>6. /\ StartMessage(n, say) /\ UNCHANGED <<pc, who, inn, outdated>>
      /\ speaker' = [speaker EXCEPT ![n].at = "waits", ![n].say = left, ![n].asks = options]
      /\ answer' = [answer EXCEPT ![n] = subcommand_sentinel]
  BY DEF Speaks, n, Me
<1>7. /\ CanShowMessage(n = Foreground) \/ (say.kind = "inn" /\ n # Foreground)
  <2>1. say.kind \in {"talk", "inn"} /\ Allowed(n, me.say) BY <1>2, <1>4 DEF n, Me
  <2>2. CASE say.kind = "inn" BY <1>4, <2>1, <2>2 DEF Allowed, CanShowMessage
  <2>3. CASE say.kind # "inn" BY <1>4, <2>1, <2>3 DEF Allowed
  <2> QED BY <2>2, <2>3
<1>8. /\ speaker \in [Speakers -> Minds] /\ speaker[Foreground].at \notin {"new", "gone"}
      /\ \A s \in Speakers : Sayable(speaker[s].say)
      /\ answer \in [Speakers -> Nat] /\ outdated \in [Speakers -> BOOLEAN]
  BY <1>1 DEF Shape
<1> HIDE DEF say, left, options
<1>9. /\ mind \in Minds /\ mind.at = "waits" /\ mind.say = left /\ mind.asks = options
      /\ mind.sub = me.sub
  BY <1>3, <1>5 DEF Minds
<1>10. speaker' = [speaker EXCEPT ![n] = mind] BY <1>3, <1>6, <1>8 DEF Minds
<1> HIDE DEF mind
<1>11. /\ speaker' \in [Speakers -> Minds]
       /\ \A s \in Speakers : speaker'[s] = IF s = n THEN mind ELSE speaker[s]
       /\ answer' \in [Speakers -> Nat]
       /\ \A s \in Speakers : answer'[s] = IF s = n THEN subcommand_sentinel ELSE answer[s]
  <2>1. subcommand_sentinel \in Nat BY DEF subcommand_sentinel
  <2>2. /\ speaker' \in [Speakers -> Minds]
        /\ \A s \in Speakers : speaker'[s] = IF s = n THEN mind ELSE speaker[s]
    BY <1>3, <1>8, <1>9, <1>10, Excepted
  <2>3. /\ answer' \in [Speakers -> Nat]
        /\ \A s \in Speakers :
             answer'[s] = IF s = n THEN subcommand_sentinel ELSE answer[s]
    BY <1>3, <1>6, <1>8, <2>1, Excepted
  <2> QED BY <2>2, <2>3
<1>12. MindsAre
  <2>1. \A s \in Speakers : Sayable(speaker'[s].say) BY <1>4, <1>8, <1>9, <1>11
  <2>2. speaker'[Foreground].at \notin {"new", "gone"} BY <1>8, <1>9, <1>11, SpeakersAre
  <2> QED BY <1>6, <1>8, <1>11, <2>1, <2>2 DEF MindsAre
<1>13. speaker'[n].at = "waits" BY <1>3, <1>9, <1>11
<1>14. ASSUME window.close_started PROVE n = Foreground \/ (say.digits = 0 /\ IsActive(say))
  <2>1. IsMessageActive BY <1>1, <1>14 DEF Opened, IsMessageActive
  <2>2. CASE CanShowMessage(n = Foreground) BY <2>1, <2>2 DEF CanShowMessage
  <2>3. CASE say.kind = "inn" BY <1>4, <2>3
  <2> QED BY <1>7, <2>2, <2>3
<1>15. ASSUME ~IsActive(say) PROVE ~window.choosing
  <2>1. CanShowMessage(n = Foreground) BY <1>4, <1>7, <1>15
  <2>2. CASE window.close_started BY <1>1, <2>2 DEF Asking
  <2>3. CASE ~window.close_started
    <3>1. ~window.visible BY <2>1, <2>3 DEF CanShowMessage, IsMessageActive
    <3> QED BY <1>1, <3>1 DEF Opened, Open
  <2> QED BY <2>2, <2>3
<1>16. MayStart(n, say)
  <2>1. n = Foreground => speaker'[Foreground].at = "waits" BY <1>13
  <2>2. ASSUME window.close_started, ~IsActive(say) \/ say.digits > 0
        PROVE  speaker'[Foreground].at = "waits"
    <3>1. say.digits = 0 => ~(say.digits > 0) OBVIOUS
    <3> QED BY <1>14, <2>1, <2>2, <3>1
  <2> QED BY <1>13, <1>15, <2>2 DEF MayStart
<1>17. /\ Shape' /\ Opened' /\ Ended' /\ Asking' /\ Written'
       /\ message'.asker = n /\ message'.say = say
  BY <1>2, <1>3, <1>4, <1>6, <1>12, <1>16, MessageStarted
<1>18. ASSUME NEW s \in Speakers PROVE Answers(s)'
  <2>1. Answers(s) BY DEF IInv
  <2>2. CASE s # n BY <1>6, <1>11, <1>17, <2>1, <2>2 DEF Answers
  <2>3. CASE s = n
    <3>1. ~outdated[n] => me.sub = subcommand_sentinel BY <1>3, <2>1, <2>3 DEF Answers
    <3>2. mind.asks = Options(message'.say) BY <1>9, <1>17 DEF options
    <3> QED BY <1>6, <1>9, <1>11, <2>3, <3>1, <3>2 DEF Answers
  <2> QED BY <2>2, <2>3
<1> QED BY <1>17, <1>18 DEF IInv

(* An inn that is free: no window is open, and its guest has the answer.   *)
LEMMA StayedForFree == ASSUME IInv, StaysForFree PROVE IInv'
<1>1. Shape /\ Opened BY DEF IInv
<1>2. Updating /\ Me.at = "wants" /\ ~Open
  <2>1. Me.say.kind = "free inn" /\ Allowed(Now, Me.say) BY DEF StaysForFree
  <2>2. ~IsMessageActive BY <2>1 DEF Allowed
  <2> QED BY <2>2 DEF StaysForFree, Runs, IsMessageActive, Open
<1> DEFINE n == Now
           mind == [at |-> "waits", say |-> Silence, asks |-> {0, 1}, sub |-> 0]
<1> HIDE DEF n
<1>3. n \in Speakers BY <1>1, <1>2, NowIs DEF n
<1>4. /\ speaker' = [speaker EXCEPT ![n] = mind]
      /\ answer' = [answer EXCEPT ![n] = 0] /\ outdated' = [outdated EXCEPT ![n] = FALSE]
      /\ inn' = pc /\ pc' = "inn" /\ UNCHANGED <<who, window, text, message, drawn, page>>
  BY DEF StaysForFree, n, shown
<1>5. pc \in {"units", "foreground"} BY <1>2 DEF Updating
<1>6. /\ speaker \in [Speakers -> Minds] /\ speaker[Foreground].at \notin {"new", "gone"}
      /\ \A s \in Speakers : Sayable(speaker[s].say)
      /\ answer \in [Speakers -> Nat] /\ outdated \in [Speakers -> BOOLEAN]
      /\ who \in 1 .. Len(Parallels) /\ message \in PendingMessages /\ Sayable(message.say)
  BY <1>1 DEF Shape
<1>7. /\ mind \in Minds /\ mind.at = "waits" /\ mind.say = Silence /\ mind.sub = 0
      /\ 0 \in mind.asks
  BY NothingSayable DEF Minds
<1> HIDE DEF mind
<1>8. /\ speaker' \in [Speakers -> Minds]
      /\ \A s \in Speakers : speaker'[s] = IF s = n THEN mind ELSE speaker[s]
  BY <1>3, <1>4, <1>6, <1>7, Excepted
<1>9. /\ answer' \in [Speakers -> Nat]
      /\ \A s \in Speakers : answer'[s] = IF s = n THEN 0 ELSE answer[s]
  BY <1>3, <1>4, <1>6, Excepted
<1>10. /\ outdated' \in [Speakers -> BOOLEAN]
       /\ \A s \in Speakers : outdated'[s] = IF s = n THEN FALSE ELSE outdated[s]
  BY <1>3, <1>4, <1>6, Excepted
<1>11. Thinks
  <2>1. \A s \in Speakers : Sayable(speaker'[s].say) BY <1>6, <1>7, <1>8, NothingSayable
  <2>2. speaker'[Foreground].at \notin {"new", "gone"} BY <1>6, <1>7, <1>8, SpeakersAre
  <2> QED BY <1>2, <1>4, <1>5, <1>6, <1>8, <1>9, <1>10, <2>1, <2>2
          DEF Thinks, Places, Nights
<1>12. ASSUME NEW s \in Speakers PROVE Answers(s)'
  <2>1. Answers(s) BY DEF IInv
  <2>2. CASE s # n BY <1>4, <1>8, <1>9, <1>10, <2>1, <2>2 DEF Answers
  <2>3. CASE s = n
    <3>1. ~(message.asker = n /\ message.say.choices # <<>>)
      <4>1. message.say.choices # <<>> => IsActive(message.say) BY <1>6, AnswerIs
      <4>2. n # NoOne BY <1>3, SpeakersAre
      <4> QED BY <1>1, <1>2, <4>1, <4>2 DEF Opened, Told
    <3> QED BY <1>4, <1>7, <1>8, <1>9, <2>3, <3>1 DEF Answers
  <2> QED BY <2>2, <2>3
<1> QED BY <1>11, <1>12, ThinksKeep DEF IInv

(* A raise in level may replace what has not been shown of a question for  *)
(* a number of the foreground, which then waits.                           *)
LEMMA LevelRaised == ASSUME IInv, RaisesLevel PROVE IInv'
<1>1. Shape /\ Opened /\ Asking BY DEF IInv
<1>2. Updating /\ Me.at = "wants" /\ Me.say.kind = "level" /\ Allowed(Now, Me.say)
  BY DEF RaisesLevel, Runs
<1> DEFINE n == Now
           me == speaker[n]
           say == me.say
           mind == [me EXCEPT !.at = "idle", !.say = Silence]
<1> HIDE DEF n
<1>3. n \in Speakers /\ me \in Minds /\ Sayable(say) /\ me.at = "wants" /\ say.kind = "level"
  BY <1>1, <1>2, NowIs DEF n, Me
<1>4. ~(say.choices # <<>>) /\ say.digits = 0 /\ ~(say.digits > 0)
  <2>1. ~(say.choices # <<>>) /\ say.digits = 0 BY <1>3, ShownIs
  <2> QED BY <2>1
<1>5. /\ StartMessage(Foreground, say) /\ UNCHANGED <<pc, who, inn, outdated, answer>>
      /\ speaker' = [speaker EXCEPT ![n].at = "idle", ![n].say = Silence]
  BY DEF RaisesLevel, n, Me
<1>6. CanShowMessage(TRUE) BY <1>2 DEF Allowed
<1>7. /\ speaker \in [Speakers -> Minds] /\ speaker[Foreground].at \notin {"new", "gone"}
      /\ \A s \in Speakers : Sayable(speaker[s].say)
      /\ answer \in [Speakers -> Nat] /\ outdated \in [Speakers -> BOOLEAN]
  BY <1>1 DEF Shape
<1>8. /\ mind \in Minds /\ mind.at = "idle" /\ mind.say = Silence /\ mind.asks = me.asks
      /\ mind.sub = me.sub
  BY <1>3, NothingSayable DEF Minds
<1>9. speaker' = [speaker EXCEPT ![n] = mind] BY <1>3, <1>5, <1>7 DEF Minds
<1> HIDE DEF mind
<1>10. /\ speaker' \in [Speakers -> Minds]
       /\ \A s \in Speakers : speaker'[s] = IF s = n THEN mind ELSE speaker[s]
  BY <1>7, <1>8, <1>9
<1>11. MindsAre
  <2>1. \A s \in Speakers : Sayable(speaker'[s].say) BY <1>7, <1>8, <1>10, NothingSayable
  <2>2. speaker'[Foreground].at \notin {"new", "gone"} BY <1>7, <1>8, <1>10, SpeakersAre
  <2> QED BY <1>5, <1>7, <1>10, <2>1, <2>2 DEF MindsAre
<1>12. MayStart(Foreground, say)
  <2>1. window.close_started \/ (~window.choosing /\ ~window.number)
    <3>1. CASE window.close_started BY <3>1
    <3>2. CASE ~window.close_started
      <4>1. ~window.visible BY <1>6, <3>2 DEF CanShowMessage, IsMessageActive
      <4> QED BY <1>1, <4>1 DEF Opened, Open
    <3> QED BY <3>1, <3>2
  <2>2. window.close_started => ~window.choosing BY <1>1 DEF Asking
  <2>3. ASSUME window.close_started, window.number PROVE speaker'[Foreground].at = "waits"
    <3>1. speaker[Foreground].at = "waits" BY <1>1, <2>3 DEF Asking
    <3> QED BY <1>3, <1>10, <3>1, SpeakersAre
  <2> QED BY <1>4, <2>1, <2>2, <2>3 DEF MayStart
<1>13. /\ Shape' /\ Opened' /\ Ended' /\ Asking' /\ Written'
       /\ message'.asker = Foreground /\ message'.say = say
  BY <1>2, <1>3, <1>5, <1>11, <1>12, SpeakersAre, MessageStarted
<1>14. ASSUME NEW s \in Speakers PROVE Answers(s)'
  <2>1. Answers(s) BY DEF IInv
  <2>2. ~(message'.say.choices # <<>>) BY <1>4, <1>13
  <2>3. CASE s # n BY <1>5, <1>10, <2>1, <2>2, <2>3 DEF Answers
  <2>4. CASE s = n BY <1>3, <1>5, <1>8, <1>10, <2>1, <2>2, <2>4 DEF Answers
  <2> QED BY <2>3, <2>4
<1> QED BY <1>13, <1>14 DEF IInv

-----------------------------------------------------------------------------
LEMMA Inductive == ASSUME IInv, [Next]_vars PROVE IInv'
<1>1. CASE Interpret
  BY <1>1, Commands, PageChanged, Spoken, StayedForFree, LevelRaised, WentOn DEF Interpret
<1>2. CASE Window BY <1>2, Watches, Chosen, Stands DEF Window
<1>3. CASE Type
  BY <1>3, TypingStopped, Finished, GlyphDrawn, CodeRead, LineEnded, PageBroken DEF Type
<1>4. CASE FinishInn BY <1>4, Stands
<1>5. CASE Over BY <1>5, Stands DEF Over
<1>6. CASE UNCHANGED vars BY <1>6, Stands
<1> QED BY <1>1, <1>2, <1>3, <1>4, <1>5, <1>6 DEF Next

(* The invariant of the window, its message and those who speak.           *)
THEOREM SpecIInv == Spec => []IInv
<1>1. Init => IInv BY Initially
<1>2. IInv /\ [Next]_vars => IInv' BY Inductive
<1> QED BY <1>1, <1>2, PTL DEF Spec

LEMMA ConversationIs == ASSUME IInv PROVE Conversation
<1>1. /\ Shape /\ Opened /\ Ended /\ Asking /\ Written /\ \A s \in Speakers : Answers(s)
      /\ (IsMessagePending <=> Open)
  BY PendingIs DEF IInv
<1>2. TypeOK
  <2>1. window.frames \in 0 .. OpenFrames /\ page.rows \in 0 .. MaxLines
        /\ message.asker \in Speakers \cup {NoOne}
    BY <1>1 DEF Shape, Windows, Pages, PendingMessages
  <2>2. \A s \in Speakers : speaker[s] \in Minds BY <1>1 DEF Shape
  <2>3. ASSUME NEW s \in Speakers
        PROVE  speaker[s].at \in {"idle", "wants", "waits"}
                                 \cup (IF s = Foreground THEN {} ELSE {"new", "gone"})
    BY <1>1, <2>2 DEF Shape, Minds
  <2> QED BY <1>1, <2>1, <2>3 DEF TypeOK, Shape, Nights
<1>3. WholeText
  <2>1. drawn \o Glyphs(text) = GlyphsOfLines(LinesOf(message.say)) \/ message.asker = NoOne
    BY <1>1 DEF Written
  <2>2. ~IsMessagePending => text = <<>> BY <1>1 DEF Opened
  <2>3. text # <<>> /\ IsGlyph(Head(text)) => page.rows < MaxLines
    <3>1. text \in Seq(Tokens) /\ Paginated(text, page.rows) BY <1>1 DEF Shape, Written
    <3> QED BY <3>1, HeadRead
  <2> QED BY <2>1, <2>2, <2>3 DEF WholeText
<1>4. PageRead BY <1>1 DEF PageRead, Ended, Told, Typing, Stopped
<1>5. OneQuestion BY <1>1 DEF OneQuestion, Asking, AskerWaits
<1>6. Replaces
  <2> SUFFICES ASSUME Runs, Me.at = "wants", Allowed(Now, Me.say), IsMessagePending
               PROVE  \/ Me.say.kind = "inn" /\ Now # Foreground
                      \/ Me.say.kind = "level" /\ drawn = <<>>
    BY DEF Replaces
  <2>1. Now # Foreground BY DEF Runs, Held
  <2>2. window.visible /\ Open BY <1>1 DEF Open
  <2>3. IsMessageActive BY <2>2 DEF IsMessageActive
  <2>4. CASE Me.say.kind = "inn" BY <2>1, <2>4
  <2>5. CASE Me.say.kind = "level"
    <3>1. window.close_started BY <2>3, <2>5 DEF Allowed, CanShowMessage
    <3> QED BY <1>1, <2>2, <2>5, <3>1 DEF Asking, Open
  <2>6. CASE Me.say.kind # "inn" /\ Me.say.kind # "level"
    BY <2>1, <2>3, <2>6 DEF Allowed, CanShowMessage
  <2> QED BY <2>4, <2>5, <2>6
<1>7. ASSUME NEW s \in Speakers PROVE Answered(s)
  <2>1. Answers(s) BY <1>1
  <2> QED BY <2>1 DEF Answers, Answered
<1> QED BY <1>2, <1>3, <1>4, <1>5, <1>6, <1>7 DEF Conversation

(* Window_Message and the interpreters: whatever is said by how many       *)
(* parallel events, and however their pages change meanwhile, each glyph   *)
(* of a message is drawn once, in its order and on a row of the page; no   *)
(* page is cleared and no message ended before the player has read it and  *)
(* answered; one thing is asked at a time; and an interpreter goes on with *)
(* the answer to its own question.                                         *)
THEOREM ConversationHolds == Spec => []Conversation
<1>1. IInv => Conversation BY ConversationIs
<1> QED BY <1>1, SpecIInv, PTL
=============================================================================
