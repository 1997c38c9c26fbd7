-------------------------- MODULE ByteStreams_proofs --------------------------
(***************************************************************************)
(* Proofs about what is written by one process and taken to pieces by      *)
(* another, byte by byte and for any length: every path of one line gets   *)
(* to ascmd as it is shown, the Rust and the Go helper make the same of an *)
(* answer, a few named cases aside, Go refuses one that is cut, and        *)
(* last_file_line returns the last line of a log that grows while it is    *)
(* read.                                                                   *)
(***************************************************************************)
EXTENDS ByteStreams, SequenceTheorems, WellFoundedInduction, TLAPS

-----------------------------------------------------------------------------
(* Sequences put end to end, and strings.                                   *)

(* Of two numbers, the first is below the second.                           *)
Below == {mn \in Nat \X Nat : mn[1] < mn[2]}

(* Induction: a set with 0 that has n + 1 with n has all natural numbers.  *)
LEMMA SetInduction ==
    ASSUME NEW S, 0 \in S, \A n \in Nat : n \in S => n + 1 \in S
    PROVE  \A n \in Nat : n \in S
<1>1. IsWellFoundedOn(Below, Nat)
  BY NatLessThanWellFounded DEF OpToRel, Below
<1> SUFFICES ASSUME Nat \ S # {} PROVE FALSE
  OBVIOUS
<1>2. PICK n \in Nat \ S : \A m \in Nat \ S : ~(<<m, n>> \in Below)
  <2>1. Nat \ S \subseteq Nat
    OBVIOUS
  <2> QED BY <1>1, <2>1, WFMin
<1>3. n # 0 /\ n - 1 \in Nat /\ (n - 1) + 1 = n
  BY <1>2
<1>4. n - 1 \in Nat \ S
  BY <1>2, <1>3
<1>5. <<n - 1, n>> \in Nat \X Nat /\ <<n - 1, n>>[1] < <<n - 1, n>>[2]
  BY <1>3
<1>6. <<n - 1, n>> \in Below
  BY <1>5 DEF Below
<1> QED BY <1>2, <1>4, <1>6

(* The partial results g of putting the sequences seqs end to end.          *)
Flattens(g, seqs) == g = [i \in 1..Len(seqs) |-> IF i = 1 THEN seqs[i] ELSE g[i - 1] \o seqs[i]]

(* There are such partial results, for any number of sequences.             *)
LEMMA FlattensExists ==
    ASSUME NEW seqs, Len(seqs) \in Nat
    PROVE  \E g : Flattens(g, seqs)
<1> DEFINE Upto(g, n) == g = [i \in 1..n |-> IF i = 1 THEN seqs[i] ELSE g[i - 1] \o seqs[i]]
<1> DEFINE S == {n \in Nat : \E g : Upto(g, n)}
<1>1. 0 \in S
  <2>1. Upto([i \in 1..0 |-> 0], 0)
    OBVIOUS
  <2> QED BY <2>1
<1>2. ASSUME NEW n \in Nat, n \in S PROVE n + 1 \in S
  <2>1. PICK g : Upto(g, n)
    BY <1>2
  <2> DEFINE h == [i \in 1..(n + 1) |->
                     IF i = 1 THEN seqs[i] ELSE IF i = n + 1 THEN g[n] \o seqs[i] ELSE g[i]]
  <2>2. Upto(h, n + 1)
    <3>1. \A i \in 1..n : h[i] = g[i]
      BY <2>1
    <3>2. ASSUME NEW i \in 1..(n + 1)
          PROVE  h[i] = IF i = 1 THEN seqs[i] ELSE h[i - 1] \o seqs[i]
      <4>1. CASE i = n + 1 /\ i # 1
        <5>1. n \in 1..n /\ i - 1 = n
          BY <4>1
        <5>2. h[i] = g[n] \o seqs[i]
          BY <4>1, Zenon
        <5> QED BY <3>1, <4>1, <5>1, <5>2, Zenon
      <4>2. CASE i # n + 1 /\ i # 1
        <5>1. i \in 1..n /\ i - 1 \in 1..n
          BY <4>2
        <5>2. h[i] = g[i] /\ h[i - 1] = g[i - 1]
          BY <3>1, <5>1
        <5> QED BY <2>1, <4>2, <5>1, <5>2
      <4> QED BY <4>1, <4>2
    <3> QED BY <3>2, Zenon
  <2>3. \E f : Upto(f, n + 1)
    BY <2>2, Zenon
  <2>4. n + 1 \in Nat
    OBVIOUS
  <2> QED BY <2>3, <2>4, Zenon
<1>3. Len(seqs) \in S
  BY <1>1, <1>2, SetInduction
<1> QED BY <1>3 DEF Flattens

(* FlattenSeq returns the last of them.                                     *)
LEMMA FlattenIs ==
    ASSUME NEW seqs, Len(seqs) \in Nat \ {0}
    PROVE  \E g : Flattens(g, seqs) /\ FlattenSeq(seqs) = g[Len(seqs)]
<1> DEFINE G == CHOOSE g : Flattens(g, seqs)
<1>1. Flattens(G, seqs)
  BY FlattensExists
<1>2. FlattenSeq(seqs) = G[Len(seqs)]
  BY DEF FlattenSeq, Flattens
<1> QED BY <1>1, <1>2

(* Each of them is the one before, and one sequence more.                   *)
LEMMA FlattensSteps ==
    ASSUME NEW seqs, Len(seqs) \in Nat, NEW g, Flattens(g, seqs)
    PROVE  /\ Len(seqs) # 0 => g[1] = seqs[1]
           /\ \A n \in Nat \ {0} : n + 1 <= Len(seqs) => g[n + 1] = g[n] \o seqs[n + 1]
<1>1. \A i \in 1..Len(seqs) : g[i] = IF i = 1 THEN seqs[i] ELSE g[i - 1] \o seqs[i]
  BY Zenon DEF Flattens
<1>2. Len(seqs) # 0 => 1 \in 1..Len(seqs)
  OBVIOUS
<1>3. ASSUME NEW n \in Nat \ {0}, n + 1 <= Len(seqs) PROVE g[n + 1] = g[n] \o seqs[n + 1]
  <2>1. n + 1 \in 1..Len(seqs) /\ n + 1 # 1 /\ (n + 1) - 1 = n
    BY <1>3
  <2>2. g[n + 1] = g[(n + 1) - 1] \o seqs[n + 1]
    BY <1>1, <2>1, Zenon
  <2> QED BY <2>1, <2>2, Zenon
<1> QED BY <1>1, <1>2, <1>3, Zenon

(* One sequence more at the end of many adds its elements to the end.       *)
LEMMA FlattenOneMore ==
    ASSUME NEW X, NEW seqs \in Seq(Seq(X)), NEW t \in Seq(Seq(X)), Len(t) = Len(seqs) + 1,
           \A i \in 1..Len(seqs) : t[i] = seqs[i]
    PROVE  /\ FlattenSeq(seqs) \in Seq(X)
           /\ FlattenSeq(t) = FlattenSeq(seqs) \o t[Len(t)]
<1>1. Len(seqs) \in Nat /\ Len(t) \in Nat \ {0} /\ \A i \in 1..Len(t) : t[i] \in Seq(X)
  BY LenProperties, ElementOfSeq
<1>2. PICK h : Flattens(h, t) /\ FlattenSeq(t) = h[Len(t)]
  BY <1>1, FlattenIs
<1>3. CASE Len(seqs) = 0
  <2>1. seqs = <<>> /\ FlattenSeq(seqs) = <<>> /\ <<>> \in Seq(X)
    BY <1>3 DEF FlattenSeq
  <2>2. Len(t) = 1 /\ t[1] \in Seq(X)
    BY <1>1, <1>3
  <2>3. FlattenSeq(t) = t[1]
    BY <1>1, <1>2, <2>2, FlattensSteps
  <2> QED BY <2>1, <2>2, <2>3, ConcatEmptySeq
<1>4. CASE Len(seqs) # 0
  <2>1. PICK g : Flattens(g, seqs) /\ FlattenSeq(seqs) = g[Len(seqs)]
    BY <1>1, <1>4, FlattenIs
  <2> DEFINE S == {n \in Nat : n \in 1..Len(seqs) => g[n] \in Seq(X) /\ h[n] = g[n]}
  <2>2. 0 \in S
    OBVIOUS
  <2>3. ASSUME NEW n \in Nat, n \in S PROVE n + 1 \in S
    <3> SUFFICES ASSUME n + 1 <= Len(seqs) PROVE g[n + 1] \in Seq(X) /\ h[n + 1] = g[n + 1]
      BY <1>1
    <3>1. seqs[n + 1] \in Seq(X) /\ t[n + 1] = seqs[n + 1]
      BY <1>1
    <3>2. CASE n = 0
      <4>1. g[1] = seqs[1] /\ h[1] = t[1]
        BY <1>1, <1>2, <1>4, <2>1, FlattensSteps
      <4> QED BY <3>1, <3>2, <4>1
    <3>3. CASE n # 0
      <4>0. n \in Nat \ {0} /\ n + 1 <= Len(seqs) /\ n + 1 <= Len(t) /\ Len(t) \in Nat
        BY <1>1, <3>3
      <4>1. g[n + 1] = g[n] \o seqs[n + 1] /\ h[n + 1] = h[n] \o t[n + 1]
        BY <1>1, <1>2, <2>1, <4>0, FlattensSteps, Zenon
      <4>2. g[n] \in Seq(X) /\ h[n] = g[n]
        BY <1>1, <2>3, <3>3
      <4> QED BY <3>1, <4>1, <4>2, ConcatProperties
    <3> QED BY <3>2, <3>3
  <2>4. Len(seqs) \in S
    <3> HIDE DEF S
    <3> QED BY <1>1, <2>2, <2>3, SetInduction, Zenon
  <2>5. g[Len(seqs)] \in Seq(X) /\ h[Len(seqs)] = g[Len(seqs)]
    BY <1>1, <1>4, <2>4
  <2>6. h[Len(t)] = h[Len(seqs)] \o t[Len(t)]
    <3>1. Len(seqs) \in Nat \ {0} /\ Len(t) \in Nat /\ Len(seqs) + 1 <= Len(t)
      BY <1>1, <1>4
    <3>2. h[Len(seqs) + 1] = h[Len(seqs)] \o t[Len(seqs) + 1]
      BY <1>2, <3>1, FlattensSteps, Zenon
    <3> QED BY <3>2
  <2> QED BY <1>2, <2>1, <2>5, <2>6
<1> QED BY <1>3, <1>4

(* Two sequences of one element make one of two.                            *)
LEMMA Pair == ASSUME NEW X, NEW x \in X, NEW y \in X PROVE <<x>> \o <<y>> = <<x, y>>
<1> DEFINE l == <<x>> \o <<y>>  r == <<x, y>>
<1>1. <<x>> \in Seq(X) /\ <<y>> \in Seq(X) /\ r \in Seq(X) /\ Len(r) = 2 /\ r[1] = x /\ r[2] = y
  OBVIOUS
<1>2. l \in Seq(X) /\ Len(l) = 2
  BY <1>1, ConcatProperties
<1>3. l[1] = x /\ l[2] = y
  BY <1>1, ConcatProperties
<1> HIDE DEF l, r
<1>4. \A i \in 1..2 : l[i] = r[i]
  BY <1>1, <1>3
<1>5. l = r
  BY <1>1, <1>2, <1>4, SeqEqual
<1> QED BY <1>5 DEF l, r

(* A sequence that gets one element more at its end keeps the others.       *)
LEMMA OneMore ==
    \A X : \A s \in Seq(X), x \in X :
        /\ s \o <<x>> \in Seq(X) /\ Len(s \o <<x>>) = Len(s) + 1 /\ (s \o <<x>>)[Len(s) + 1] = x
        /\ \A i \in 1..Len(s) : (s \o <<x>>)[i] = s[i]
<1> SUFFICES ASSUME NEW X, NEW s \in Seq(X), NEW x \in X
    PROVE  /\ s \o <<x>> \in Seq(X) /\ Len(s \o <<x>>) = Len(s) + 1 /\ (s \o <<x>>)[Len(s) + 1] = x
           /\ \A i \in 1..Len(s) : (s \o <<x>>)[i] = s[i]
  OBVIOUS
<1>1. <<x>> \in Seq(X) /\ Len(<<x>>) = 1 /\ <<x>>[1] = x /\ Len(s) \in Nat
  OBVIOUS
<1>2. /\ s \o <<x>> \in Seq(X) /\ Len(s \o <<x>>) = Len(s) + 1
      /\ \A i \in 1..(Len(s) + 1) :
            (s \o <<x>>)[i] = IF i <= Len(s) THEN s[i] ELSE <<x>>[i - Len(s)]
  BY <1>1, ConcatProperties
<1> QED BY <1>1, <1>2

(* The characters of the format are four different ones; what is not UTF-8 *)
(* is none of them, and is shown as none of them.                           *)
LEMMA Letters ==
    /\ Backslash \in Char /\ Quote \in Char /\ Blank \in Char /\ Newline \in Char
    /\ Letter \in Char
    /\ Backslash # Quote /\ Blank # Quote /\ Blank # Backslash
    /\ Newline # Backslash /\ Newline # Quote /\ Newline # Blank
    /\ Newline # Letter /\ Newline # Raw
BY DEF Char, Backslash, Quote, Blank, Newline, Letter, Raw

(* Strings, and how they are put together: one name each, so that a proof   *)
(* uses the laws below and nothing else of them.                            *)
Word == Seq(Char)
Then(s, t) == s \o t
One(x) == <<x>>
Two(x, y) == <<x, y>>

(* The laws of strings.                                                     *)
LEMMA Words ==
    /\ <<>> \in Word
    /\ \A x \in Char : One(x) \in Word
    /\ \A s, t \in Word : Then(s, t) \in Word
    /\ \A s, t, u \in Word : Then(Then(s, t), u) = Then(s, Then(t, u))
    /\ \A s \in Word : Then(s, <<>>) = s /\ Then(<<>>, s) = s
    /\ \A x, y \in Char : Then(One(x), One(y)) = Two(x, y)
<1> USE DEF Word, Then, One, Two
<1>1. <<>> \in Word /\ \A x \in Char : One(x) \in Word
  OBVIOUS
<1>2. \A s, t \in Word : Then(s, t) \in Word
  BY ConcatProperties
<1>3. \A s, t, u \in Word : Then(Then(s, t), u) = Then(s, Then(t, u))
  BY ConcatAssociative
<1>4. \A s \in Word : Then(s, <<>>) = s /\ Then(<<>>, s) = s
  BY ConcatEmptySeq
<1>5. \A x, y \in Char : Then(One(x), One(y)) = Two(x, y)
  BY Pair
<1> QED BY <1>1, <1>2, <1>3, <1>4, <1>5

(* Nothing is replaced in the empty string.                                 *)
LEMMA ReplaceNothing == \A c, by : Replace(<<>>, c, by) = <<>>
BY DEF Replace, FlattenSeq

(* str::replace works from character to character: one more at the end adds *)
(* what it is replaced by.                                                  *)
LEMMA ReplaceGrows ==
    ASSUME NEW c, NEW by \in Word, NEW s \in Word, NEW x \in Char
    PROVE  /\ Replace(s, c, by) \in Word
           /\ x = c => Replace(Then(s, One(x)), c, by) = Then(Replace(s, c, by), by)
           /\ x # c => Replace(Then(s, One(x)), c, by) = Then(Replace(s, c, by), One(x))
<1> DEFINE u == Then(s, One(x))
<1>1. /\ u \in Word /\ Len(u) = Len(s) + 1
      /\ u[Len(s) + 1] = x /\ \A i \in 1..Len(s) : u[i] = s[i]
  BY OneMore DEF Word, Then, One
<1> HIDE DEF u
<1> DEFINE Each(r) == [i \in DOMAIN r |-> IF r[i] = c THEN by ELSE <<r[i]>>]
<1>3. ASSUME NEW r \in Word
      PROVE  /\ Each(r) \in Seq(Seq(Char)) /\ Len(Each(r)) = Len(r)
             /\ \A i \in 1..Len(r) : Each(r)[i] = IF r[i] = c THEN by ELSE <<r[i]>>
  <2>1. DOMAIN r = 1..Len(r) /\ Len(r) \in Nat /\ \A i \in 1..Len(r) : r[i] \in Char
    BY LenProperties, ElementOfSeq DEF Word
  <2>2. \A i \in 1..Len(r) : (IF r[i] = c THEN by ELSE <<r[i]>>) \in Seq(Char)
    BY <2>1 DEF Word
  <2> QED BY <2>1, <2>2
<1>4. FlattenSeq(Each(s)) \in Word /\ FlattenSeq(Each(u)) = FlattenSeq(Each(s)) \o Each(u)[Len(u)]
  <2>1. Each(s) \in Seq(Seq(Char)) /\ Len(Each(s)) = Len(s)
    BY <1>3
  <2>2. Each(u) \in Seq(Seq(Char)) /\ Len(Each(u)) = Len(s) + 1 /\ Len(u) = Len(s) + 1
    BY <1>1, <1>3
  <2>3. \A i \in 1..Len(s) : Each(u)[i] = Each(s)[i]
    BY <1>1, <1>3
  <2> HIDE DEF Each
  <2> QED BY <2>1, <2>2, <2>3, FlattenOneMore DEF Word
<1>5. Each(u)[Len(u)] = IF x = c THEN by ELSE <<x>>
  BY <1>1, <1>3
<1>6. Replace(s, c, by) = FlattenSeq(Each(s)) /\ Replace(u, c, by) = FlattenSeq(Each(u))
  BY Zenon DEF Replace
<1> HIDE DEF Each
<1>8. /\ x = c => Each(u)[Len(u)] = by
      /\ x # c => Each(u)[Len(u)] = <<x>>
  BY <1>5
<1>9. /\ Replace(s, c, by) \in Word
      /\ x = c => Replace(u, c, by) = Then(Replace(s, c, by), by)
      /\ x # c => Replace(u, c, by) = Then(Replace(s, c, by), One(x))
  BY <1>4, <1>6, <1>8, Zenon DEF Then, One
<1> QED BY <1>9, Zenon DEF u

(* What it returns is a string.                                             *)
LEMMA ReplaceIsWord == \A c : \A by, s \in Word : Replace(s, c, by) \in Word
<1> SUFFICES ASSUME NEW c, NEW by \in Word, NEW s \in Word PROVE Replace(s, c, by) \in Word
  OBVIOUS
<1> QED BY ReplaceGrows, Letters

(* The same for all strings at once.                                        *)
LEMMA ReplaceOneMore ==
    \A c : \A by, s \in Word, x \in Char :
        /\ x = c => Replace(Then(s, One(x)), c, by) = Then(Replace(s, c, by), by)
        /\ x # c => Replace(Then(s, One(x)), c, by) = Then(Replace(s, c, by), One(x))
<1> SUFFICES ASSUME NEW c, NEW by \in Word, NEW s \in Word, NEW x \in Char
    PROVE  /\ x = c => Replace(Then(s, One(x)), c, by) = Then(Replace(s, c, by), by)
           /\ x # c => Replace(Then(s, One(x)), c, by) = Then(Replace(s, c, by), One(x))
  BY Zenon
<1> QED BY ReplaceGrows

(* What path_to_arg writes between the quotes.                             *)
Escape(p) == Replace(Replace(p, Backslash, Two(Backslash, Backslash)), Quote, Two(Backslash, Quote))
Code(x) == IF x \in {Backslash, Quote} THEN Two(Backslash, x) ELSE One(x)

(* What path_to_arg writes of one character.                                *)
LEMMA Codes ==
    \A x \in Char :
        /\ Code(x) \in Word
        /\ x \in {Backslash, Quote} => Code(x) = Then(One(Backslash), One(x))
        /\ x \notin {Backslash, Quote} => Code(x) = One(x)
BY Letters, Words DEF Code

(* path_to_arg, from character to character: although backslashes are       *)
(* replaced first and quotes after, each character is written by itself.    *)
LEMMA EscapeOneMore ==
    \A s \in Word, x \in Char :
        /\ Escape(<<>>) = <<>> /\ Escape(s) \in Word
        /\ Escape(Then(s, One(x))) = Then(Escape(s), Code(x))
<1> SUFFICES ASSUME NEW s \in Word, NEW x \in Char
    PROVE  /\ Escape(<<>>) = <<>> /\ Escape(s) \in Word
           /\ Escape(Then(s, One(x))) = Then(Escape(s), Code(x))
  OBVIOUS
<1> DEFINE B(p) == Replace(p, Backslash, Two(Backslash, Backslash))
<1> DEFINE Q(p) == Replace(p, Quote, Two(Backslash, Quote))
<1>1. Two(Backslash, Backslash) \in Word /\ Two(Backslash, Quote) \in Word
  BY Letters, Words
<1>2. \A p \in Word, y \in Char :
         /\ y = Backslash => B(Then(p, One(y))) = Then(B(p), Two(Backslash, Backslash))
         /\ y # Backslash => B(Then(p, One(y))) = Then(B(p), One(y))
  BY <1>1, ReplaceOneMore
<1>3. \A p \in Word, y \in Char :
         /\ y = Quote => Q(Then(p, One(y))) = Then(Q(p), Two(Backslash, Quote))
         /\ y # Quote => Q(Then(p, One(y))) = Then(Q(p), One(y))
  BY <1>1, ReplaceOneMore
<1>4. Escape(<<>>) = Q(B(<<>>)) /\ Escape(s) = Q(B(s))
      /\ Escape(Then(s, One(x))) = Q(B(Then(s, One(x))))
  BY DEF Escape
<1>6. Q(B(<<>>)) = <<>> /\ B(s) \in Word /\ Q(B(s)) \in Word
  BY <1>1, ReplaceNothing, ReplaceIsWord
<1> HIDE DEF B, Q
<1>5. Q(B(Then(s, One(x)))) = Then(Q(B(s)), Code(x))
  <2>1. CASE x = Backslash
    <3>1. B(Then(s, One(x))) = Then(Then(B(s), One(x)), One(x))
      BY <1>2, <1>6, <2>1, Words
    <3>2. x # Quote /\ Then(B(s), One(x)) \in Word /\ One(x) \in Word
      BY <1>6, <2>1, Letters, Words
    <3>3. Q(Then(Then(B(s), One(x)), One(x))) = Then(Then(Q(B(s)), One(x)), One(x))
      BY <1>3, <1>6, <3>2
    <3>4. Then(Then(Q(B(s)), One(x)), One(x)) = Then(Q(B(s)), Code(x))
      BY <1>6, <2>1, <3>2, Words, Codes
    <3> QED BY <3>1, <3>3, <3>4
  <2>2. CASE x = Quote
    <3>1. B(Then(s, One(x))) = Then(B(s), One(x))
      BY <1>2, <2>2, Letters
    <3>2. Q(Then(B(s), One(x))) = Then(Q(B(s)), Two(Backslash, x))
      BY <1>3, <1>6, <2>2
    <3> QED BY <2>2, <3>1, <3>2 DEF Code
  <2>3. CASE x # Quote /\ x # Backslash
    <3>1. B(Then(s, One(x))) = Then(B(s), One(x))
      BY <1>2, <2>3
    <3>2. Q(Then(B(s), One(x))) = Then(Q(B(s)), One(x))
      BY <1>3, <1>6, <2>3
    <3> QED BY <2>3, <3>1, <3>2 DEF Code
  <2> QED BY <2>1, <2>2, <2>3
<1> QED BY <1>4, <1>5, <1>6

(* What path_to_arg writes is a string.                                     *)
LEMMA EscapeIsWord == \A s \in Word : Escape(s) \in Word
<1> SUFFICES ASSUME NEW s \in Word PROVE Escape(s) \in Word
  OBVIOUS
<1> QED BY EscapeOneMore, Letters

(* The same seen from the front, where ascmd reads.                         *)
LEMMA EscapeHead ==
    \A s \in Word, x \in Char : Escape(Then(One(x), s)) = Then(Code(x), Escape(s))
<1> DEFINE S == {n \in Nat : \A t \in Word, x \in Char :
                   Len(t) = n => Escape(Then(One(x), t)) = Then(Code(x), Escape(t))}
<1>1. 0 \in S
  <2> SUFFICES ASSUME NEW t \in Word, NEW x \in Char, Len(t) = 0
               PROVE  Escape(Then(One(x), t)) = Then(Code(x), Escape(t))
    OBVIOUS
  <2>1. t = <<>>
    BY DEF Word
  <2>2. Then(One(x), t) = Then(t, One(x)) /\ Code(x) \in Word
    BY <2>1, Words, Codes
  <2>3. Escape(Then(t, One(x))) = Then(<<>>, Code(x)) /\ Escape(t) = <<>>
    BY <2>1, EscapeOneMore
  <2> QED BY <2>2, <2>3, Words
<1>2. ASSUME NEW n \in Nat, n \in S PROVE n + 1 \in S
  <2> SUFFICES ASSUME NEW t \in Word, NEW x \in Char, Len(t) = n + 1
               PROVE  Escape(Then(One(x), t)) = Then(Code(x), Escape(t))
    OBVIOUS
  <2>1. PICK u \in Word, y \in Char : t = Then(u, One(y)) /\ Len(u) = n
    <3>1. PICK u \in Word, y \in Char : t = Append(u, y)
      BY SequenceEmptyOrAppend DEF Word
    <3>2. t = Then(u, One(y)) /\ Len(u) = n
      BY <3>1, AppendIsConcat DEF Word, Then, One
    <3> QED BY <3>2
  <2>2. One(x) \in Word /\ One(y) \in Word /\ Then(One(x), u) \in Word
    BY Words
  <2>3. Then(One(x), t) = Then(Then(One(x), u), One(y))
    BY <2>1, <2>2, Words
  <2>4. Escape(Then(One(x), u)) = Then(Code(x), Escape(u))
    BY <1>2, <2>1
  <2>5. Escape(Then(One(x), t)) = Then(Then(Code(x), Escape(u)), Code(y))
    BY <2>2, <2>3, <2>4, EscapeOneMore
  <2>6. Code(x) \in Word /\ Code(y) \in Word /\ Escape(u) \in Word
        /\ Escape(t) = Then(Escape(u), Code(y))
    BY <2>1, EscapeOneMore, Codes
  <2> QED BY <2>5, <2>6, Words
<1>3. \A n \in Nat : n \in S
  <2> HIDE DEF S
  <2> QED BY <1>1, <1>2, SetInduction
<1>4. \A t \in Word : Len(t) \in Nat
  BY DEF Word
<1> QED BY <1>3, <1>4

(* The elements of a string that has one character more in front.           *)
LEMMA FirstOf ==
    \A x \in Char, s \in Word :
        /\ Then(One(x), s) \in Seq(Char) /\ Len(Then(One(x), s)) = 1 + Len(s) /\ Len(s) \in Nat
        /\ Then(One(x), s)[1] = x
        /\ \A i \in 1..Len(s) : Then(One(x), s)[i + 1] = s[i]
<1> SUFFICES ASSUME NEW x \in Char, NEW s \in Word
    PROVE  /\ Then(One(x), s) \in Seq(Char) /\ Len(Then(One(x), s)) = 1 + Len(s) /\ Len(s) \in Nat
           /\ Then(One(x), s)[1] = x
           /\ \A i \in 1..Len(s) : Then(One(x), s)[i + 1] = s[i]
  OBVIOUS
<1> DEFINE r == Then(One(x), s)
<1>1. One(x) \in Seq(Char) /\ s \in Seq(Char) /\ Len(One(x)) = 1 /\ One(x)[1] = x /\ Len(s) \in Nat
  BY DEF Word, One
<1>2. /\ r \in Seq(Char) /\ Len(r) = Len(One(x)) + Len(s)
      /\ \A i \in 1..(Len(One(x)) + Len(s)) :
            r[i] = IF i <= Len(One(x)) THEN One(x)[i] ELSE s[i - Len(One(x))]
  <2>1. \A t \in Seq(Char) :
          /\ t \o s \in Seq(Char) /\ Len(t \o s) = Len(t) + Len(s)
          /\ \A i \in 1..(Len(t) + Len(s)) :
                (t \o s)[i] = IF i <= Len(t) THEN t[i] ELSE s[i - Len(t)]
    BY <1>1, ConcatProperties
  <2> QED BY <1>1, <2>1, Zenon DEF Then
<1> HIDE DEF r
<1>3. r \in Seq(Char) /\ Len(r) = 1 + Len(s) /\ r[1] = x /\ \A i \in 1..Len(s) : r[i + 1] = s[i]
  BY <1>1, <1>2
<1> QED BY <1>1, <1>3 DEF r

(* Head and Tail take that character away.                                  *)
LEMMA Taking ==
    \A x \in Char, s \in Word :
        /\ Then(One(x), s) # <<>> /\ Head(Then(One(x), s)) = x /\ Tail(Then(One(x), s)) = s
<1> SUFFICES ASSUME NEW x \in Char, NEW s \in Word
    PROVE  /\ Then(One(x), s) # <<>> /\ Head(Then(One(x), s)) = x /\ Tail(Then(One(x), s)) = s
  OBVIOUS
<1> DEFINE r == Then(One(x), s)
<1>1. s \in Seq(Char)
  BY DEF Word
<1>2. r \in Seq(Char) /\ Len(r) = 1 + Len(s) /\ Len(s) \in Nat /\ r[1] = x
      /\ \A i \in 1..Len(s) : r[i + 1] = s[i]
  BY FirstOf
<1> HIDE DEF r
<1>3. r # <<>> /\ r[1] = x /\ Head(r) = x
  BY <1>1, <1>2
<1>4. Tail(r) \in Seq(Char) /\ Len(Tail(r)) = Len(s) /\ \A i \in 1..Len(s) : Tail(r)[i] = r[i + 1]
  BY <1>1, <1>2, <1>3, HeadTailProperties
<1>5. \A i \in 1..Len(s) : Tail(r)[i] = s[i]
  BY <1>1, <1>2, <1>4
<1>6. Tail(r) = s
  BY <1>1, <1>4, <1>5, SeqEqual
<1> QED BY <1>3, <1>6 DEF r

(* A string that is not empty has a first character.                        *)
LEMMA Splitting == \A s \in Word : s # <<>> => \E x \in Char, t \in Word : s = Then(One(x), t)
<1> SUFFICES ASSUME NEW s \in Word, s # <<>> PROVE \E x \in Char, t \in Word : s = Then(One(x), t)
  OBVIOUS
<1>1. s \in Seq(Char) /\ Head(s) \in Char /\ Tail(s) \in Seq(Char) /\ Len(Tail(s)) = Len(s) - 1
      /\ (\A i \in 1..Len(Tail(s)) : Tail(s)[i] = s[i + 1])
      /\ s[1] = Head(s) /\ Len(s) \in Nat \ {0}
  BY HeadTailProperties, EmptySeq DEF Word
<1> DEFINE r == Then(One(Head(s)), Tail(s))
<1>2. r \in Seq(Char) /\ Len(r) = 1 + Len(Tail(s)) /\ r[1] = Head(s)
      /\ \A i \in 1..Len(Tail(s)) : r[i + 1] = Tail(s)[i]
  BY <1>1, FirstOf DEF Word
<1> HIDE DEF r
<1>3. \A i \in 1..Len(s) : r[i] = s[i]
  <2> SUFFICES ASSUME NEW i \in 1..Len(s), i # 1 PROVE r[i] = s[i]
    BY <1>1, <1>2
  <2>1. i - 1 \in 1..Len(Tail(s)) /\ (i - 1) + 1 = i
    BY <1>1
  <2>2. r[(i - 1) + 1] = Tail(s)[i - 1] /\ Tail(s)[i - 1] = s[(i - 1) + 1]
    BY <1>1, <1>2, <2>1
  <2> QED BY <2>1, <2>2
<1>4. r = s
  BY <1>1, <1>2, <1>3, SeqEqual
<1> QED BY <1>1, <1>4 DEF r, Word

(* What Path::display shows of a path is a string, with a newline just     *)
(* where the path has one.                                                  *)
LEMMA ShownIsWord ==
    \A p \in Word : Shown(p) \in Word /\ (OneLine(Shown(p)) <=> OneLine(p))
<1> SUFFICES ASSUME NEW p \in Word
    PROVE  Shown(p) \in Word /\ (OneLine(Shown(p)) <=> OneLine(p))
  OBVIOUS
<1>1. p \in Seq(Char) /\ DOMAIN p = 1..Len(p) /\ Len(p) \in Nat
      /\ \A i \in 1..Len(p) : p[i] \in Char
  BY LenProperties, ElementOfSeq DEF Word
<1>2. \A i \in 1..Len(p) : (IF p[i] = Raw THEN Letter ELSE p[i]) \in Char
  BY <1>1, Letters
<1> DEFINE q == Shown(p)
<1>3. q = [i \in 1..Len(p) |-> IF p[i] = Raw THEN Letter ELSE p[i]]
  BY <1>1, Zenon DEF Shown
<1>4. q \in Seq(Char) /\ Len(q) = Len(p)
      /\ \A i \in 1..Len(p) : q[i] = IF p[i] = Raw THEN Letter ELSE p[i]
  BY <1>1, <1>2, <1>3
<1> HIDE DEF q
<1>5. \A i \in 1..Len(p) : q[i] = Newline <=> p[i] = Newline
  BY <1>4, Letters
<1>6. OneLine(q) <=> OneLine(p)
  BY <1>4, <1>5 DEF OneLine, Contains
<1> QED BY <1>4, <1>6 DEF q, Word

(* A string is of one line if its parts are.                                *)
LEMMA OneLineParts ==
    /\ OneLine(<<>>)
    /\ \A s \in Word, x \in Char :
          /\ OneLine(Then(s, One(x))) <=> OneLine(s) /\ x # Newline
    /\ \A s, t \in Word : ~OneLine(Then(s, Then(One(Newline), t)))
<1>1. OneLine(<<>>)
  BY DEF OneLine, Contains
<1>2. ASSUME NEW s \in Word, NEW x \in Char
      PROVE  OneLine(Then(s, One(x))) <=> OneLine(s) /\ x # Newline
  <2> DEFINE u == Then(s, One(x))
  <2>1. u \in Word /\ Len(u) = Len(s) + 1 /\ Len(s) \in Nat
        /\ u[Len(s) + 1] = x /\ \A i \in 1..Len(s) : u[i] = s[i]
    BY OneMore, LenProperties DEF Word, Then, One
  <2> HIDE DEF u
  <2>2. OneLine(u) <=> OneLine(s) /\ x # Newline
    BY <2>1 DEF OneLine, Contains
  <2> QED BY <2>2 DEF u
<1>3. ASSUME NEW s \in Word, NEW t \in Word PROVE ~OneLine(Then(s, Then(One(Newline), t)))
  <2> DEFINE v == Then(One(Newline), t)  u == Then(s, v)
  <2>1. v \in Seq(Char) /\ Len(v) = 1 + Len(t) /\ Len(t) \in Nat /\ v[1] = Newline
    BY FirstOf, Letters
  <2>2. s \in Seq(Char) /\ Len(s) \in Nat
    BY LenProperties DEF Word
  <2> HIDE DEF v
  <2>3. Len(u) = Len(s) + Len(v)
        /\ \A i \in 1..(Len(s) + Len(v)) : u[i] = IF i <= Len(s) THEN s[i] ELSE v[i - Len(s)]
    BY <2>1, <2>2, ConcatProperties, Zenon DEF Then
  <2> HIDE DEF u
  <2>4. Len(s) + 1 \in 1..Len(u) /\ u[Len(s) + 1] = Newline
    BY <2>1, <2>2, <2>3
  <2>5. ~OneLine(u)
    BY <2>4 DEF OneLine, Contains
  <2> QED BY <2>5 DEF u, v
<1> QED BY <1>1, <1>2, <1>3

(* What one path adds to the line.                                         *)
Piece(p) == Then(One(Blank), Then(One(Quote), Then(Escape(p), One(Quote))))

(* That is what the writer of the line puts there.                          *)
LEMMA PieceOf ==
    \A p \in Word : Piece(Shown(p)) \in Seq(Char) /\ <<Blank>> \o RustArg(p) = Piece(Shown(p))
<1> SUFFICES ASSUME NEW p \in Word
    PROVE  Piece(Shown(p)) \in Seq(Char) /\ <<Blank>> \o RustArg(p) = Piece(Shown(p))
  OBVIOUS
<1> DEFINE q == Shown(p)
<1>0. q \in Word
  BY ShownIsWord
<1>2. RustArg(p) = Then(Then(One(Quote), Escape(q)), One(Quote))
  BY Zenon DEF RustArg, Enclose, Escape, Then, One, Two
<1> HIDE DEF q
<1>1. /\ One(Blank) \in Word /\ One(Quote) \in Word /\ Escape(q) \in Word
      /\ Then(One(Quote), Escape(q)) \in Word
      /\ Piece(q) \in Word
  BY <1>0, Letters, Words, EscapeOneMore DEF Piece
<1>3. Then(Then(One(Quote), Escape(q)), One(Quote)) = Then(One(Quote), Then(Escape(q), One(Quote)))
  BY <1>1, Words
<1>4. <<Blank>> \o RustArg(p) = Then(One(Blank), RustArg(p))
  BY Zenon DEF Then, One
<1>5. Piece(q) \in Seq(Char) /\ <<Blank>> \o RustArg(p) = Piece(q)
  BY <1>1, <1>2, <1>3, <1>4 DEF Piece, Word
<1> QED BY <1>5, Zenon DEF q

-----------------------------------------------------------------------------
(* The line of a command, and where ascmd is in it.                         *)

(* The paths as Path::display shows them.                                   *)
Names(ps) == [i \in 1..Paths |-> Shown(ps[i])]

(* The line from path k + 1 on.                                            *)
LineFrom(ps, k) ==
    IF k = Paths THEN One(Newline)
    ELSE IF k + 1 = Paths THEN Then(Piece(ps[Paths]), One(Newline))
    ELSE Then(Piece(ps[1]), Then(Piece(ps[2]), One(Newline)))

(* The paths of a command, of any length.                                   *)
ThePaths == {ps \in Seq(Word) : Len(ps) = Paths}

(* Shown, they are such paths too.                                          *)
LEMMA NamesOf ==
    \A ps \in ThePaths :
        /\ Names(ps) \in ThePaths /\ DOMAIN ps = 1..Paths
        /\ \A i \in 1..Paths : ps[i] \in Word /\ Names(ps)[i] = Shown(ps[i])
<1> SUFFICES ASSUME NEW ps \in ThePaths
    PROVE  /\ Names(ps) \in ThePaths /\ DOMAIN ps = 1..Paths
           /\ \A i \in 1..Paths : ps[i] \in Word /\ Names(ps)[i] = Shown(ps[i])
  BY Zenon
<1>1. DOMAIN ps = 1..Paths /\ Paths \in Nat /\ \A i \in 1..Paths : ps[i] \in Word
  BY ElementOfSeq, LenProperties, ArgumentsAssumption DEF ThePaths
<1>2. \A i \in 1..Paths : Shown(ps[i]) \in Word
  BY <1>1, ShownIsWord
<1>3. Names(ps) \in Seq(Word) /\ Len(Names(ps)) = Paths
      /\ \A i \in 1..Paths : Names(ps)[i] = Shown(ps[i])
  BY <1>1, <1>2 DEF Names
<1> QED BY <1>1, <1>3 DEF ThePaths

(* From path to path the line loses what that path has added.               *)
LEMMA LineSteps ==
    \A ps \in ThePaths :
        /\ \A k \in 0..Paths : LineFrom(ps, k) \in Word
        /\ LineFrom(ps, Paths) = One(Newline)
        /\ \A k \in 0..Paths : k # Paths =>
              LineFrom(ps, k) = Then(Piece(ps[k + 1]), LineFrom(ps, k + 1))
<1> SUFFICES ASSUME NEW ps \in ThePaths
    PROVE  /\ \A k \in 0..Paths : LineFrom(ps, k) \in Word
           /\ LineFrom(ps, Paths) = One(Newline)
           /\ \A k \in 0..Paths : k # Paths =>
                 LineFrom(ps, k) = Then(Piece(ps[k + 1]), LineFrom(ps, k + 1))
  BY Zenon
<1>1. \A i \in 1..Paths : ps[i] \in Word /\ Piece(ps[i]) \in Word
  <2>1. \A i \in 1..Paths : ps[i] \in Word
    BY ElementOfSeq DEF ThePaths
  <2>2. \A p \in Word : Piece(p) \in Word
    BY Letters, Words, EscapeOneMore DEF Piece
  <2> QED BY <2>1, <2>2
<1>2. One(Newline) \in Word
  BY Letters, Words
<1>3. CASE Paths = 1
  <2>1. 0..Paths = {0, 1} /\ 1 \in 1..Paths
    BY <1>3
  <2>2. LineFrom(ps, 1) = One(Newline) /\ LineFrom(ps, 0) = Then(Piece(ps[1]), One(Newline))
    BY <1>3 DEF LineFrom
  <2>3. Then(Piece(ps[1]), One(Newline)) \in Word
    BY <1>1, <1>2, <2>1, Words
  <2> QED BY <1>2, <1>3, <2>1, <2>2, <2>3
<1>4. CASE Paths = 2
  <2>1. 0..Paths = {0, 1, 2} /\ 1 \in 1..Paths /\ 2 \in 1..Paths
    BY <1>4
  <2>2. LineFrom(ps, 2) = One(Newline) /\ LineFrom(ps, 1) = Then(Piece(ps[2]), One(Newline))
        /\ LineFrom(ps, 0) = Then(Piece(ps[1]), Then(Piece(ps[2]), One(Newline)))
    BY <1>4 DEF LineFrom
  <2>3. /\ Then(Piece(ps[2]), One(Newline)) \in Word
        /\ Then(Piece(ps[1]), Then(Piece(ps[2]), One(Newline))) \in Word
    BY <1>1, <1>2, <2>1, Words
  <2> QED BY <1>2, <1>4, <2>1, <2>2, <2>3
<1> QED BY <1>3, <1>4, ArgumentsAssumption

(* The line that is written is the line from the first path on.             *)
LEMMA LineOf == \A ps \in ThePaths : RustLine(ps) = LineFrom(Names(ps), 0)
<1> SUFFICES ASSUME NEW ps \in ThePaths PROVE RustLine(ps) = LineFrom(Names(ps), 0)
  OBVIOUS
<1> DEFINE ns == Names(ps)
<1>1. DOMAIN ps = 1..Paths /\ Paths \in Nat
      /\ \A i \in 1..Paths : ps[i] \in Word /\ ns[i] = Shown(ps[i])
  BY NamesOf, ArgumentsAssumption
<1> HIDE DEF ns
<1>2. \A i \in 1..Paths : Piece(ns[i]) \in Seq(Char) /\ <<Blank>> \o RustArg(ps[i]) = Piece(ns[i])
  BY <1>1, PieceOf
<1> DEFINE body == FlattenSeq([i \in 1..Paths |-> <<Blank>> \o RustArg(ps[i])])
<1>3. RustLine(ps) = Then(body, One(Newline))
  BY <1>1, Zenon DEF RustLine, Then, One
<1>4. [i \in 1..Paths |-> <<Blank>> \o RustArg(ps[i])] = [i \in 1..Paths |-> Piece(ns[i])]
  BY <1>2, Zenon
<1> DEFINE L(n) == [i \in 1..n |-> Piece(ns[i])]
<1>5. \A n \in 0..Paths :
         L(n) \in Seq(Seq(Char)) /\ Len(L(n)) = n /\ \A i \in 1..n : L(n)[i] = Piece(ns[i])
  BY <1>1, <1>2
<1>6. \A n \in 0..Paths : n # Paths =>
         FlattenSeq(L(n)) \in Seq(Char)
         /\ FlattenSeq(L(n + 1)) = FlattenSeq(L(n)) \o Piece(ns[n + 1])
  <2> SUFFICES ASSUME NEW n \in 0..Paths, n # Paths
      PROVE FlattenSeq(L(n)) \in Seq(Char)
            /\ FlattenSeq(L(n + 1)) = FlattenSeq(L(n)) \o Piece(ns[n + 1])
    OBVIOUS
  <2>1. n \in Nat /\ n + 1 \in 0..Paths /\ n + 1 \in 1..(n + 1) /\ \A i \in 1..n : i \in 1..(n + 1)
    BY <1>1
  <2> HIDE DEF L
  <2>2. /\ L(n) \in Seq(Seq(Char)) /\ L(n + 1) \in Seq(Seq(Char))
        /\ Len(L(n)) = n /\ Len(L(n + 1)) = Len(L(n)) + 1
        /\ \A i \in 1..Len(L(n)) : L(n + 1)[i] = L(n)[i]
        /\ L(n + 1)[Len(L(n + 1))] = Piece(ns[n + 1])
    BY <1>5, <2>1
  <2> QED BY <2>2, FlattenOneMore
<1>7. L(0) = <<>> /\ FlattenSeq(<<>>) = <<>>
  BY DEF FlattenSeq
<1>8. body = FlattenSeq(L(Paths))
  BY <1>4, Zenon
<1> HIDE DEF L, body
<1>9. FlattenSeq(L(1)) = Piece(ns[1])
  <2>1. 0 \in 0..Paths /\ 0 # Paths /\ 1 \in 1..Paths /\ 0 + 1 = 1
    BY <1>1, ArgumentsAssumption
  <2>2. FlattenSeq(L(1)) = <<>> \o Piece(ns[1])
    BY <1>6, <1>7, <2>1
  <2> QED BY <1>2, <2>1, <2>2, ConcatEmptySeq
<1>10. CASE Paths = 1
  <2>1. RustLine(ps) = Then(Piece(ns[1]), One(Newline))
    BY <1>3, <1>8, <1>9, <1>10
  <2> QED BY <1>10, <2>1 DEF LineFrom, ns
<1>11. CASE Paths = 2
  <2>1. 1 \in 0..Paths /\ 1 # Paths /\ 1 + 1 = 2 /\ 1 \in 1..Paths /\ 2 \in 1..Paths
    BY <1>11
  <2>2. FlattenSeq(L(2)) = Then(Piece(ns[1]), Piece(ns[2]))
    BY <1>6, <1>9, <2>1 DEF Then
  <2>3. Piece(ns[1]) \in Word /\ Piece(ns[2]) \in Word /\ One(Newline) \in Word
    BY <1>2, <2>1, Letters, Words DEF Word
  <2>4. RustLine(ps) = Then(Then(Piece(ns[1]), Piece(ns[2])), One(Newline))
    BY <1>3, <1>8, <1>11, <2>2
  <2>5. RustLine(ps) = Then(Piece(ns[1]), Then(Piece(ns[2]), One(Newline)))
    BY <2>3, <2>4, Words
  <2> QED BY <1>11, <2>5 DEF LineFrom, ns
<1> QED BY <1>10, <1>11, ArgumentsAssumption

(* The first k paths.                                                      *)
First(ps, k) == [i \in 1..k |-> ps[i]]

(* One path more.                                                           *)
LEMMA FirstSteps ==
    \A ps \in ThePaths :
        /\ First(ps, 0) = <<>> /\ First(ps, Paths) = ps
        /\ \A k \in 0..Paths : First(ps, k) \in Seq(Word)
        /\ \A k \in 0..Paths : k # Paths =>
              ps[k + 1] \in Word /\ Append(First(ps, k), ps[k + 1]) = First(ps, k + 1)
<1> SUFFICES ASSUME NEW ps \in ThePaths
    PROVE  /\ First(ps, 0) = <<>> /\ First(ps, Paths) = ps
           /\ \A k \in 0..Paths : First(ps, k) \in Seq(Word)
           /\ \A k \in 0..Paths : k # Paths =>
                 ps[k + 1] \in Word /\ Append(First(ps, k), ps[k + 1]) = First(ps, k + 1)
  BY Zenon
<1>1. /\ ps \in Seq(Word) /\ ps \in [1..Paths -> Word] /\ Paths \in Nat /\ Len(ps) = Paths
      /\ \A i \in 1..Paths : ps[i] \in Word
  BY LenProperties, ElementOfSeq, ArgumentsAssumption DEF ThePaths
<1>2. \A k \in 0..Paths : First(ps, k) \in Seq(Word) /\ Len(First(ps, k)) = k
                          /\ \A i \in 1..k : First(ps, k)[i] = ps[i]
  BY <1>1 DEF First
<1>3. First(ps, 0) = <<>>
  BY DEF First
<1>4. First(ps, Paths) = ps
  BY <1>1 DEF First
<1>5. ASSUME NEW k \in 0..Paths, k # Paths
      PROVE  ps[k + 1] \in Word /\ Append(First(ps, k), ps[k + 1]) = First(ps, k + 1)
  <2>1. k + 1 \in 0..Paths /\ k + 1 \in 1..Paths /\ k \in Nat
    BY <1>1, <1>5
  <2> DEFINE l == Append(First(ps, k), ps[k + 1])  r == First(ps, k + 1)
  <2>2. r \in Seq(Word) /\ Len(r) = k + 1 /\ \A i \in 1..(k + 1) : r[i] = ps[i]
    BY <1>2, <2>1
  <2>3. First(ps, k) \in Seq(Word) /\ Len(First(ps, k)) = k /\ ps[k + 1] \in Word
    BY <1>1, <1>2, <2>1
  <2>4. l \in Seq(Word) /\ Len(l) = k + 1 /\ l[k + 1] = ps[k + 1]
        /\ \A i \in 1..k : l[i] = First(ps, k)[i]
    BY <2>3, AppendProperties
  <2> HIDE DEF l, r
  <2>5. \A i \in 1..Len(l) : l[i] = r[i]
    BY <1>2, <2>1, <2>2, <2>4
  <2>6. l = r
    BY <2>2, <2>4, <2>5, SeqEqual
  <2> QED BY <1>1, <2>1, <2>6 DEF l, r
<1> QED BY <1>2, <1>3, <1>4, <1>5

(* ascmd adds a character to the last of its arguments.                     *)
LEMMA AddLast ==
    \A a \in Seq(Word), t \in Word, x \in Char :
        /\ Append(a, t) \in Seq(Word)
        /\ [Append(a, t) EXCEPT ![Len(Append(a, t))] = Append(@, x)] = Append(a, Then(t, One(x)))
<1> SUFFICES ASSUME NEW a \in Seq(Word), NEW t \in Word, NEW x \in Char
    PROVE  /\ Append(a, t) \in Seq(Word)
           /\ [Append(a, t) EXCEPT ![Len(Append(a, t))] = Append(@, x)] = Append(a, Then(t, One(x)))
  OBVIOUS
<1> DEFINE b == Append(a, t)
<1>1. b \in Seq(Word) /\ Len(b) = Len(a) + 1 /\ b[Len(b)] = t
      /\ Len(a) \in Nat /\ \A i \in 1..Len(a) : b[i] = a[i]
  BY AppendProperties
<1>2. Append(t, x) = Then(t, One(x)) /\ Then(t, One(x)) \in Word
  <2>1. t \in Seq(Char)
    BY DEF Word
  <2>2. Append(t, x) = Then(t, One(x))
    BY <2>1, AppendIsConcat DEF Then, One
  <2> QED BY <2>2, Words
<1> HIDE DEF b
<1> DEFINE l == [b EXCEPT ![Len(b)] = Append(t, x)]  r == Append(a, Then(t, One(x)))
<1>3. l \in Seq(Word) /\ Len(l) = Len(b)
      /\ \A i \in 1..Len(b) : l[i] = IF i = Len(b) THEN Append(t, x) ELSE b[i]
  BY <1>1, <1>2, ExceptSeq
<1>4. r \in Seq(Word) /\ Len(r) = Len(a) + 1 /\ r[Len(a) + 1] = Then(t, One(x))
      /\ \A i \in 1..Len(a) : r[i] = a[i]
  BY <1>2, AppendProperties
<1>5. [b EXCEPT ![Len(b)] = Append(@, x)] = l
  BY <1>1
<1> HIDE DEF l, r
<1>6. ASSUME NEW i \in 1..Len(b) PROVE l[i] = r[i]
  <2>1. CASE i = Len(b)
    BY <1>1, <1>2, <1>3, <1>4, <2>1
  <2>2. CASE i # Len(b)
    <3>1. i \in 1..Len(a)
      BY <1>1, <2>2
    <3> QED BY <1>1, <1>3, <1>4, <2>2, <3>1
  <2> QED BY <2>1, <2>2
<1>7. l = r
  BY <1>1, <1>3, <1>4, <1>6, SeqEqual
<1> QED BY <1>1, <1>5, <1>7, Zenon DEF r, b

(* Strings that are nothing together are nothing each.                      *)
LEMMA NothingLeft == \A s, t \in Word : Then(s, t) = <<>> => s = <<>> /\ t = <<>>
BY ConcatEqualIffEmpty DEF Word, Then

(* Where ascmd is in the line: before path k + 1, or after the last one;   *)
(* before its quote; between its quotes; after a backslash there.  What it *)
(* has read of the paths has no newline in it.                              *)
names == Names(paths)
Closing(k) == Then(One(Quote), LineFrom(names, k + 1))
Passed(k) == \A i \in 1..k : OneLine(names[i])
Before(k) ==
    /\ args = First(names, k) /\ rest = LineFrom(names, k) /\ Passed(k)
    /\ mode = "word" \/ (mode = "blank" /\ k = 0)
AtQuote(k) ==
    /\ args = First(names, k) /\ mode = "blank" /\ Passed(k)
    /\ rest = Then(One(Quote), Then(Escape(names[k + 1]), Closing(k)))
Within(k) ==
    /\ mode = "quotes" /\ Passed(k)
    /\ \E t, u \in Word :
          /\ names[k + 1] = Then(t, u) /\ args = Append(First(names, k), t) /\ OneLine(t)
          /\ rest = Then(Escape(u), Closing(k))
Escaped(k) ==
    /\ mode = "escape" /\ Passed(k)
    /\ \E t, u \in Word, x \in {Backslash, Quote} :
          /\ names[k + 1] = Then(t, Then(One(x), u)) /\ args = Append(First(names, k), t)
          /\ OneLine(t)
          /\ rest = Then(One(x), Then(Escape(u), Closing(k)))

AtPath(k) == AtQuote(k) \/ Within(k) \/ Escaped(k)

(* Or at the end of the command: that of the line, or a newline in a path.  *)
Ended ==
    /\ mode = "end"
    /\ \/ Passed(Paths) /\ rest = <<>> /\ args = names
       \/ (\E i \in 1..Paths : ~OneLine(names[i])) /\ rest # <<>>

Reading ==
    paths \in ThePaths /\ (Ended \/ \E k \in 0..Paths : Before(k) \/ (k # Paths /\ AtPath(k)))
LineInv == NoLine \/ Reading

(* When the line is written ascmd is before its first path.                 *)
LEMMA LineStarts == ASSUME LineWritten(RustLine) PROVE LineInv
<1>1. PICK n \in [1..Paths -> UNION {[1..k -> Char] : k \in 0..MaxPath}] :
         paths = n /\ rest = RustLine(n)
  BY DEF LineWritten
<1>2. n \in ThePaths
  BY <1>1, ArgumentsAssumption DEF ThePaths, Word
<1>3. names \in ThePaths
  BY <1>1, <1>2, NamesOf DEF names
<1>4. rest = LineFrom(names, 0) /\ args = First(names, 0) /\ mode = "blank"
  BY <1>1, <1>2, <1>3, LineOf, FirstSteps DEF LineWritten, names
<1>5. Passed(0)
  BY DEF Passed
<1>6. 0 \in 0..Paths
  BY ArgumentsAssumption
<1> QED BY <1>1, <1>2, <1>4, <1>5, <1>6 DEF LineInv, Reading, Before

(* A character that ascmd takes leaves it in one of these places.           *)
LEMMA LineStep == ASSUME LineInv, LineRead PROVE LineInv'
<1>1. Reading /\ rest # <<>> /\ mode # "end" /\ rest' = Tail(rest) /\ UNCHANGED paths
  BY DEF LineInv, NoLine, LineRead
<1>2. PICK k \in 0..Paths : Before(k) \/ (k # Paths /\ AtPath(k))
  BY <1>1 DEF Reading, Ended
<1>3. paths \in ThePaths /\ names \in ThePaths /\ names' = names /\ k \in Nat
  BY <1>1, NamesOf, ArgumentsAssumption DEF Reading, names
<1>4. Ended' \/ (\E j \in 0..Paths : Before(j)' \/ (j # Paths /\ AtPath(j)')) => LineInv'
  BY <1>1, <1>3 DEF LineInv, Reading
<1>5. Passed(k) /\ \A n : Passed(n)' <=> Passed(n)
  BY <1>2, <1>3 DEF Before, AtPath, AtQuote, Within, Escaped, Passed
<1>6. /\ Head(rest) = Newline => mode' = "end" /\ args' = args
      /\ Head(rest) # Newline => ReadBlank \/ ReadWord \/ ReadQuotes \/ ReadEscape
  BY DEF LineRead, ReadNewline, ReadBlank, ReadWord, ReadQuotes, ReadEscape
<1>7. CASE k = Paths
  <2>1. rest = One(Newline) /\ args = names /\ Passed(Paths)
    BY <1>2, <1>3, <1>7, LineSteps, FirstSteps DEF Before
  <2>2. Head(rest) = Newline /\ Tail(rest) = <<>>
    <3>1. One(Newline) = Then(One(Newline), <<>>) /\ <<>> \in Word
      BY Letters, Words
    <3> QED BY <2>1, <3>1, Letters, Taking
  <2>3. Ended'
    BY <1>1, <1>3, <1>5, <1>6, <2>1, <2>2 DEF Ended
  <2> QED BY <1>4, <2>3
<1>8. CASE k # Paths
  <2>1. k + 1 \in 0..Paths /\ k + 1 # 0 /\ k + 1 \in 1..Paths
    BY <1>3, <1>8, ArgumentsAssumption
  <2>2. /\ names[k + 1] \in Word /\ Escape(names[k + 1]) \in Word
        /\ LineFrom(names, k + 1) \in Word
        /\ Closing(k) \in Word /\ Then(Escape(names[k + 1]), Closing(k)) \in Word
        /\ First(names, k) \in Seq(Word)
    <3>1. /\ names[k + 1] \in Word /\ LineFrom(names, k + 1) \in Word
          /\ First(names, k) \in Seq(Word)
      BY <1>3, <1>8, <2>1, FirstSteps, LineSteps
    <3>2. Escape(names[k + 1]) \in Word /\ Closing(k) \in Word
      BY <3>1, EscapeOneMore, Letters, Words DEF Closing
    <3> QED BY <3>1, <3>2, Words
  <2>3. CASE Before(k)
    <3>1. rest = Then(One(Blank), Then(One(Quote), Then(Escape(names[k + 1]), Closing(k))))
      <4>1. rest = Then(Piece(names[k + 1]), LineFrom(names, k + 1))
        BY <1>3, <1>8, <2>3, LineSteps DEF Before
      <4> DEFINE e == Escape(names[k + 1])  q == One(Quote)  l == LineFrom(names, k + 1)
      <4>2. e \in Word /\ q \in Word /\ l \in Word /\ One(Blank) \in Word
            /\ Then(e, q) \in Word /\ Then(q, Then(e, q)) \in Word
        BY <2>2, Letters, Words
      <4>3. rest = Then(Then(One(Blank), Then(q, Then(e, q))), l)
        BY <4>1 DEF Piece
      <4> HIDE DEF e, q, l
      <4>4. rest = Then(One(Blank), Then(q, Then(e, Then(q, l))))
        BY <4>2, <4>3, Words
      <4> QED BY <4>4 DEF e, q, l, Closing
    <3>2. /\ Head(rest) = Blank
          /\ Tail(rest) = Then(One(Quote), Then(Escape(names[k + 1]), Closing(k)))
      <4>1. One(Quote) \in Word
        BY Letters, Words
      <4>2. Then(One(Quote), Then(Escape(names[k + 1]), Closing(k))) \in Word
        BY <2>2, <4>1, Words
      <4> QED BY <3>1, <4>2, Letters, Taking
    <3>3. mode' = "blank" /\ args' = args
      BY <1>6, <2>3, <3>2, Letters DEF Before, ReadBlank, ReadWord, ReadQuotes, ReadEscape
    <3>4. AtQuote(k)'
      BY <1>1, <1>3, <1>5, <2>3, <3>2, <3>3 DEF AtQuote, Before, Closing
    <3> QED BY <1>4, <1>8, <3>4 DEF AtPath
  <2>4. CASE AtQuote(k)
    <3>1. Head(rest) = Quote /\ Tail(rest) = Then(Escape(names[k + 1]), Closing(k))
      BY <2>2, <2>4, Letters, Taking DEF AtQuote
    <3>2. mode' = "quotes" /\ args' = Append(First(names, k), <<>>)
      BY <1>6, <2>4, <3>1, Letters DEF AtQuote, ReadBlank, ReadWord, ReadQuotes, ReadEscape
    <3>3. names[k + 1] = Then(<<>>, names[k + 1]) /\ <<>> \in Word /\ OneLine(<<>>)
      BY <2>2, Words, OneLineParts
    <3>4. Within(k)'
      BY <1>1, <1>3, <1>5, <2>2, <3>1, <3>2, <3>3 DEF Within, Closing
    <3> QED BY <1>4, <1>8, <3>4 DEF AtPath
  <2>5. CASE Within(k)
    <3>1. PICK t \in Word, u \in Word :
             /\ names[k + 1] = Then(t, u) /\ args = Append(First(names, k), t) /\ OneLine(t)
             /\ rest = Then(Escape(u), Closing(k)) /\ mode = "quotes"
      BY <2>5 DEF Within
    <3>2. CASE u = <<>>
      <4>1. rest = Closing(k) /\ names[k + 1] = t
        BY <2>2, <3>1, <3>2, EscapeOneMore, Letters, Words
      <4>2. Head(rest) = Quote /\ Tail(rest) = LineFrom(names, k + 1)
        BY <2>2, <4>1, Letters, Taking DEF Closing
      <4>3. mode' = "word" /\ args' = First(names, k + 1)
        <5>1. mode' = "word" /\ args' = args
          BY <1>6, <3>1, <4>2, Letters DEF ReadBlank, ReadWord, ReadQuotes, ReadEscape
        <5> QED BY <1>3, <1>8, <3>1, <4>1, <5>1, FirstSteps
      <4>4. Before(k + 1)'
        <5>1. PICK n : n = k + 1
          OBVIOUS
        <5>2. Passed(n)
          BY <1>3, <1>5, <3>1, <4>1, <5>1 DEF Passed
        <5>3. /\ rest' = LineFrom(names', n) /\ args' = First(names', n) /\ mode' = "word"
              /\ Passed(n)'
          BY <1>1, <1>3, <1>5, <4>2, <4>3, <5>1, <5>2
        <5>4. Before(n)'
          BY <5>3 DEF Before
        <5> QED BY <5>1, <5>4
      <4> QED BY <1>4, <2>1, <4>4
    <3>3. CASE u # <<>>
      <4>1. PICK x \in Char, v \in Word : u = Then(One(x), v)
        BY <3>3, Splitting
      <4>2. Escape(u) = Then(Code(x), Escape(v)) /\ Escape(v) \in Word /\ Code(x) \in Word
        BY <4>1, EscapeHead, EscapeOneMore, Codes
      <4>3. /\ rest = Then(Code(x), Then(Escape(v), Closing(k)))
            /\ Then(Escape(v), Closing(k)) \in Word
        BY <2>2, <3>1, <4>2, Words
      <4>4. CASE x \in {Backslash, Quote}
        <5>1. rest = Then(One(Backslash), Then(One(x), Then(Escape(v), Closing(k))))
              /\ Then(One(x), Then(Escape(v), Closing(k))) \in Word
          <6>1. Code(x) = Then(One(Backslash), One(x))
            BY <4>4, Codes
          <6>2. One(Backslash) \in Word /\ One(x) \in Word
            BY Letters, Words
          <6> QED BY <4>3, <6>1, <6>2, Words
        <5>2. Head(rest) = Backslash /\ Tail(rest) = Then(One(x), Then(Escape(v), Closing(k)))
          BY <5>1, Letters, Taking
        <5>3. mode' = "escape" /\ args' = args
          BY <1>6, <3>1, <5>2, Letters DEF ReadBlank, ReadWord, ReadQuotes, ReadEscape
        <5>4. Escaped(k)'
          BY <1>1, <1>3, <1>5, <3>1, <4>1, <4>4, <5>2, <5>3 DEF Escaped, Closing
        <5> QED BY <1>4, <1>8, <5>4 DEF AtPath
      <4>5. CASE x \notin {Backslash, Quote}
        <5>1. Head(rest) = x /\ Tail(rest) = Then(Escape(v), Closing(k))
          BY <4>3, <4>5, Codes, Taking
        <5>2. CASE x = Newline
          <6>1. mode' = "end"
            BY <1>6, <5>1, <5>2
          <6>2. ~OneLine(names[k + 1])
            BY <3>1, <4>1, <5>2, OneLineParts
          <6>3. Then(Escape(v), Closing(k)) # <<>>
            <7>1. Closing(k) # <<>>
              BY <2>2, Letters, Taking DEF Closing
            <7> QED BY <2>2, <4>2, <7>1, NothingLeft
          <6>4. Ended'
            BY <1>1, <1>3, <2>1, <5>1, <6>1, <6>2, <6>3 DEF Ended
          <6> QED BY <1>4, <6>4
        <5>3. CASE x # Newline
          <6>1. mode' = "quotes" /\ args' = AddTo(x)
            BY <1>6, <3>1, <4>5, <5>1, <5>3, Zenon
               DEF ReadBlank, ReadWord, ReadQuotes, ReadEscape
          <6>2. args' = Append(First(names, k), Then(t, One(x)))
            BY <2>2, <3>1, <6>1, AddLast DEF AddTo
          <6>3. /\ names[k + 1] = Then(Then(t, One(x)), v) /\ Then(t, One(x)) \in Word
                /\ OneLine(Then(t, One(x)))
            BY <3>1, <4>1, <5>3, Words, OneLineParts
          <6>4. Within(k)'
            BY <1>1, <1>3, <1>5, <5>1, <6>1, <6>2, <6>3 DEF Within, Closing
          <6> QED BY <1>4, <1>8, <6>4 DEF AtPath
        <5> QED BY <5>2, <5>3
      <4> QED BY <4>4, <4>5
    <3> QED BY <3>2, <3>3
  <2>6. CASE Escaped(k)
    <3>1. PICK t \in Word, u \in Word, x \in {Backslash, Quote} :
             /\ names[k + 1] = Then(t, Then(One(x), u)) /\ args = Append(First(names, k), t)
             /\ OneLine(t)
             /\ rest = Then(One(x), Then(Escape(u), Closing(k))) /\ mode = "escape"
      BY <2>6 DEF Escaped
    <3>2. x \in Char /\ x # Newline
      BY Letters
    <3>3. Then(Escape(u), Closing(k)) \in Word /\ Then(t, One(x)) \in Word /\ One(x) \in Word
      BY <2>2, <3>2, EscapeOneMore, Words
    <3>4. Head(rest) = x /\ Tail(rest) = Then(Escape(u), Closing(k))
      BY <3>1, <3>2, <3>3, Taking
    <3>5. mode' = "quotes" /\ args' = AddTo(x)
      BY <1>6, <3>1, <3>2, <3>4 DEF ReadBlank, ReadWord, ReadQuotes, ReadEscape
    <3>6. args' = Append(First(names, k), Then(t, One(x)))
      BY <2>2, <3>1, <3>2, <3>5, AddLast DEF AddTo
    <3>7. names[k + 1] = Then(Then(t, One(x)), u) /\ OneLine(Then(t, One(x)))
      BY <3>1, <3>2, <3>3, Words, OneLineParts
    <3>8. Within(k)'
      BY <1>1, <1>3, <1>5, <3>3, <3>4, <3>5, <3>6, <3>7 DEF Within, Closing
    <3> QED BY <1>4, <1>8, <3>8 DEF AtPath
  <2> QED BY <1>2, <1>8, <2>3, <2>4, <2>5, <2>6 DEF AtPath
<1> QED BY <1>7, <1>8

(* ascmd is always in one of these places.                                  *)
LEMMA LineInductive == Spec => []LineInv
<1>1. Init => LineInv
  BY LineStarts DEF Init, LineInv
<1>2. LineInv /\ [Next]_vars => LineInv'
  <2> SUFFICES ASSUME LineInv, [Next]_vars PROVE LineInv'
    OBVIOUS
  <2>1. CASE LineRead
    BY <2>1, LineStep
  <2>2. CASE UNCHANGED lineVars
    <3>1. paths' = paths /\ rest' = rest /\ mode' = mode /\ args' = args
      BY <2>2 DEF lineVars
    <3>2. names' = names
      BY <3>1 DEF names
    <3> QED BY <3>1, <3>2
      DEF LineInv, NoLine, Reading, Ended, Passed, AtPath, Before, AtQuote, Within, Escaped,
          Closing
  <2> QED BY <2>1, <2>2 DEF Next, vars
<1> QED BY <1>1, <1>2, PTL DEF Spec

(* Whatever the paths are made of, ascmd gets them as Path::display shows  *)
(* them, and nothing of the line is left, if each of them is of one line;   *)
(* if one is not, something of the line is left for another command.        *)
THEOREM EveryPathArrives == Spec => []PathsArrive
<1>1. LineInv => PathsArrive
  <2> SUFFICES ASSUME LineInv, mode = "end"
               PROVE  IF \A i \in DOMAIN paths : OneLine(paths[i])
                      THEN rest = <<>> /\ args = [i \in DOMAIN paths |-> Shown(paths[i])]
                      ELSE rest # <<>>
    BY DEF PathsArrive
  <2>1. paths \in ThePaths /\ Ended
    BY DEF LineInv, NoLine, Reading, Before, AtPath, AtQuote, Within, Escaped
  <2>2. /\ DOMAIN paths = 1..Paths
        /\ \A i \in 1..Paths : paths[i] \in Word /\ names[i] = Shown(paths[i])
    BY <2>1, NamesOf DEF names
  <2>3. names = [i \in DOMAIN paths |-> Shown(paths[i])]
    BY <2>2, Zenon DEF names, Names
  <2>4. \A i \in 1..Paths : OneLine(names[i]) <=> OneLine(paths[i])
    BY <2>2, ShownIsWord
  <2>5. (\A i \in DOMAIN paths : OneLine(paths[i])) <=> Passed(Paths)
    BY <2>2, <2>4 DEF Passed
  <2> QED BY <2>1, <2>3, <2>5 DEF Ended, Passed
<1> QED BY <1>1, LineInductive, PTL

-----------------------------------------------------------------------------
(* The answer: the decoding loops.                                          *)

(* The step of a loop, by helper: of the fields of a result, or of the     *)
(* files of a directory.                                                   *)
StepOf(loop, result, acc, tlv) ==
    CASE loop = "rustField" -> RustField(result, acc, tlv)
      [] loop = "goField" -> GoField(result, acc, tlv)
      [] loop = "rustFile" -> RustFile(acc, tlv)
      [] loop = "goFile" -> GoFile(acc, tlv)

(* The results a of a decoding loop, after each TLV.                        *)
Runs(a, loop, result, tlvs) ==
    a = [n \in 0..Len(tlvs) |->
           IF n = 0 THEN Taken(<<>>) ELSE StepOf(loop, result, a[n - 1], tlvs[n])]

(* There are such results, for any number of TLVs.                          *)
LEMMA LoopRuns == \A loop, result, tlvs : Len(tlvs) \in Nat => \E a : Runs(a, loop, result, tlvs)
<1> SUFFICES ASSUME NEW loop, NEW result, NEW tlvs, Len(tlvs) \in Nat
    PROVE  \E a : Runs(a, loop, result, tlvs)
  BY Zenon
<1> DEFINE Upto(a, m) ==
       a = [n \in 0..m |-> IF n = 0 THEN Taken(<<>>) ELSE StepOf(loop, result, a[n - 1], tlvs[n])]
<1> DEFINE S == {m \in Nat : \E a : Upto(a, m)}
<1>1. 0 \in S
  <2>1. Upto([n \in 0..0 |-> Taken(<<>>)], 0)
    OBVIOUS
  <2> QED BY <2>1
<1>2. ASSUME NEW m \in Nat, m \in S PROVE m + 1 \in S
  <2>1. PICK a : Upto(a, m)
    BY <1>2
  <2> DEFINE b == [n \in 0..(m + 1) |->
                     IF n = m + 1 THEN StepOf(loop, result, a[m], tlvs[m + 1]) ELSE a[n]]
  <2>2. Upto(b, m + 1)
    <3>1. \A n \in 0..m : b[n] = a[n]
      OBVIOUS
    <3>2. ASSUME NEW n \in 0..(m + 1)
          PROVE  b[n] = IF n = 0 THEN Taken(<<>>) ELSE StepOf(loop, result, b[n - 1], tlvs[n])
      <4>1. CASE n = m + 1
        <5>1. n # 0 /\ n - 1 = m /\ m \in 0..m
          BY <4>1
        <5>2. b[n] = StepOf(loop, result, a[m], tlvs[m + 1])
          BY <4>1, Zenon
        <5> QED BY <3>1, <4>1, <5>1, <5>2, Zenon
      <4>2. CASE n # m + 1 /\ n # 0
        <5>1. n \in 0..m /\ n - 1 \in 0..m
          BY <4>2
        <5>2. b[n] = a[n] /\ b[n - 1] = a[n - 1]
          BY <3>1, <5>1
        <5>3. a[n] = StepOf(loop, result, a[n - 1], tlvs[n])
          BY <2>1, <4>2, <5>1
        <5> QED BY <4>2, <5>2, <5>3
      <4>3. CASE n = 0
        <5>1. 0 \in 0..m /\ 0 # m + 1
          OBVIOUS
        <5> QED BY <2>1, <3>1, <4>3, <5>1
      <4> QED BY <4>1, <4>2, <4>3
    <3> QED BY <3>2, Zenon
  <2>3. \E f : Upto(f, m + 1)
    BY <2>2, Zenon
  <2> QED BY <2>3
<1>3. Len(tlvs) \in S
  <2> HIDE DEF S
  <2> QED BY <1>1, <1>2, SetInduction
<1> QED BY <1>3, Zenon DEF Runs

(* Each result is made of the one before and one TLV.                       *)
LEMMA RunSteps ==
    \A a, loop, result, tlvs : Len(tlvs) \in Nat /\ Runs(a, loop, result, tlvs) =>
        /\ a[0] = Taken(<<>>)
        /\ \A n \in Nat : n + 1 <= Len(tlvs) =>
              a[n + 1] = StepOf(loop, result, a[n], tlvs[n + 1])
<1> SUFFICES ASSUME NEW a, NEW loop, NEW result, NEW tlvs, Len(tlvs) \in Nat,
                    Runs(a, loop, result, tlvs)
    PROVE  /\ a[0] = Taken(<<>>)
           /\ \A n \in Nat : n + 1 <= Len(tlvs) =>
                 a[n + 1] = StepOf(loop, result, a[n], tlvs[n + 1])
  OBVIOUS
<1>1. \A n \in 0..Len(tlvs) :
         a[n] = IF n = 0 THEN Taken(<<>>) ELSE StepOf(loop, result, a[n - 1], tlvs[n])
  BY Zenon DEF Runs
<1>2. a[0] = Taken(<<>>)
  BY <1>1
<1>3. ASSUME NEW n \in Nat, n + 1 <= Len(tlvs)
      PROVE  a[n + 1] = StepOf(loop, result, a[n], tlvs[n + 1])
  <2>1. n + 1 \in 0..Len(tlvs) /\ n + 1 # 0 /\ (n + 1) - 1 = n
    BY <1>3
  <2> QED BY <1>1, <2>1
<1> QED BY <1>2, <1>3, Zenon

(* What the end of the answer makes of that.                               *)
GoEnd(acc, result, s) ==
    IF acc.is = "reading" /\ s.cut THEN Err
    ELSE IF acc.is \in {"reading", "over"} THEN Ok(Object(acc.got, GoPreset[result])) ELSE acc
RustEnd(acc, result) ==
    IF acc.is \in {"reading", "over"} THEN Ok(Object(acc.got, RustPreset[result])) ELSE acc

(* The fields of a result, decoded by Go.                                   *)
LEMMA GoObjectRuns ==
    \A result, s : Len(s.tlvs) \in Nat =>
        \E a : Runs(a, "goField", result, s.tlvs)
               /\ GoObject(result, s) = GoEnd(a[Len(s.tlvs)], result, s)
<1> SUFFICES ASSUME NEW result, NEW s, Len(s.tlvs) \in Nat
    PROVE  \E a : Runs(a, "goField", result, s.tlvs)
               /\ GoObject(result, s) = GoEnd(a[Len(s.tlvs)], result, s)
  BY Zenon
<1> DEFINE Run(a) ==
      a = [n \in 0..Len(s.tlvs) |->
             IF n = 0 THEN Taken(<<>>) ELSE GoField(result, a[n - 1], s.tlvs[n])]
<1>1. \A acc, tlv : StepOf("goField", result, acc, tlv) = GoField(result, acc, tlv)
  BY DEF StepOf
<1>2. \A a : Run(a) <=> Runs(a, "goField", result, s.tlvs)
  BY <1>1, Zenon DEF Runs
<1> DEFINE A == CHOOSE a : Run(a)
<1>3. Run(A)
  BY <1>2, LoopRuns, Zenon
<1>4. GoObject(result, s) = GoEnd(A[Len(s.tlvs)], result, s)
  BY Zenon DEF GoObject, GoEnd, Decoded
<1> HIDE DEF A
<1> QED BY <1>2, <1>3, <1>4, Zenon

(* The fields of a result, decoded by Rust.                                 *)
LEMMA RustObjectRuns ==
    \A result, s : Len(s.tlvs) \in Nat =>
        \E a : Runs(a, "rustField", result, s.tlvs)
               /\ RustObject(result, s) = RustEnd(a[Len(s.tlvs)], result)
<1> SUFFICES ASSUME NEW result, NEW s, Len(s.tlvs) \in Nat
    PROVE  \E a : Runs(a, "rustField", result, s.tlvs)
               /\ RustObject(result, s) = RustEnd(a[Len(s.tlvs)], result)
  BY Zenon
<1> DEFINE Run(a) ==
      a = [n \in 0..Len(s.tlvs) |->
             IF n = 0 THEN Taken(<<>>) ELSE RustField(result, a[n - 1], s.tlvs[n])]
<1>1. \A acc, tlv : StepOf("rustField", result, acc, tlv) = RustField(result, acc, tlv)
  BY DEF StepOf
<1>2. \A a : Run(a) <=> Runs(a, "rustField", result, s.tlvs)
  BY <1>1, Zenon DEF Runs
<1> DEFINE A == CHOOSE a : Run(a)
<1>3. Run(A)
  BY <1>2, LoopRuns, Zenon
<1>4. RustObject(result, s) = RustEnd(A[Len(s.tlvs)], result)
  BY Zenon DEF RustObject, RustEnd, Decoded
<1> HIDE DEF A
<1> QED BY <1>2, <1>3, <1>4, Zenon

(* Go is never left within an object.                                       *)
LEMMA GoObjectEnds == \A result, s : GoObject(result, s).is # "over"
<1> SUFFICES ASSUME NEW result, NEW s PROVE GoObject(result, s).is # "over"
  OBVIOUS
<1> DEFINE Run(a) ==
      a = [n \in 0..Len(s.tlvs) |->
             IF n = 0 THEN Taken(<<>>) ELSE GoField(result, a[n - 1], s.tlvs[n])]
<1> DEFINE A == CHOOSE a : Run(a)
<1>1. GoObject(result, s) = GoEnd(A[Len(s.tlvs)], result, s)
  BY Zenon DEF GoObject, GoEnd, Decoded
<1> HIDE DEF A
<1>2. \A acc : GoEnd(acc, result, s).is # "over"
  BY DEF GoEnd, Err, Ok
<1> QED BY <1>1, <1>2

(* The files of a directory, decoded by Go.                                 *)
LEMMA GoFileLoop ==
    \A result, tlvs : Len(tlvs) \in Nat =>
        \E a : Runs(a, "goFile", result, tlvs) /\ Decoded(GoFile, tlvs) = a[Len(tlvs)]
<1> SUFFICES ASSUME NEW result, NEW tlvs, Len(tlvs) \in Nat
    PROVE  \E a : Runs(a, "goFile", result, tlvs) /\ Decoded(GoFile, tlvs) = a[Len(tlvs)]
  BY Zenon
<1> DEFINE Run(a) ==
      a = [n \in 0..Len(tlvs) |-> IF n = 0 THEN Taken(<<>>) ELSE GoFile(a[n - 1], tlvs[n])]
<1>1. \A acc, tlv : StepOf("goFile", result, acc, tlv) = GoFile(acc, tlv)
  BY DEF StepOf
<1>2. \A a : Run(a) <=> Runs(a, "goFile", result, tlvs)
  BY <1>1, Zenon DEF Runs
<1> DEFINE A == CHOOSE a : Run(a)
<1>3. Run(A)
  BY <1>2, LoopRuns, Zenon
<1>4. Decoded(GoFile, tlvs) = A[Len(tlvs)]
  BY Zenon DEF Decoded
<1> HIDE DEF A
<1> QED BY <1>2, <1>3, <1>4, Zenon

(* The files of a directory, decoded by Rust.                               *)
LEMMA RustFileLoop ==
    \A result, tlvs : Len(tlvs) \in Nat =>
        \E a : Runs(a, "rustFile", result, tlvs) /\ Decoded(RustFile, tlvs) = a[Len(tlvs)]
<1> SUFFICES ASSUME NEW result, NEW tlvs, Len(tlvs) \in Nat
    PROVE  \E a : Runs(a, "rustFile", result, tlvs) /\ Decoded(RustFile, tlvs) = a[Len(tlvs)]
  BY Zenon
<1> DEFINE Run(a) ==
      a = [n \in 0..Len(tlvs) |-> IF n = 0 THEN Taken(<<>>) ELSE RustFile(a[n - 1], tlvs[n])]
<1>1. \A acc, tlv : StepOf("rustFile", result, acc, tlv) = RustFile(acc, tlv)
  BY DEF StepOf
<1>2. \A a : Run(a) <=> Runs(a, "rustFile", result, tlvs)
  BY <1>1, Zenon DEF Runs
<1> DEFINE A == CHOOSE a : Run(a)
<1>3. Run(A)
  BY <1>2, LoopRuns, Zenon
<1>4. Decoded(RustFile, tlvs) = A[Len(tlvs)]
  BY Zenon DEF Decoded
<1> HIDE DEF A
<1> QED BY <1>2, <1>3, <1>4, Zenon

(* Without a tag 0 no TLV ends the loop of Go well.                         *)
LEMMA NeverOk ==
    ASSUME NEW a, NEW loop \in {"goField", "goFile"}, NEW result, NEW tlvs, Len(tlvs) \in Nat,
           Runs(a, loop, result, tlvs), \A i \in 1..Len(tlvs) : tlvs[i].tag # 0
    PROVE  a[Len(tlvs)].is \notin {"ok", "over"}
<1>1. \A acc, tlv : acc.is \notin {"ok", "over"} /\ tlv.tag # 0 =>
         StepOf(loop, result, acc, tlv).is \notin {"ok", "over"}
  <2> SUFFICES ASSUME NEW acc, NEW tlv, acc.is \notin {"ok", "over"}, tlv.tag # 0
      PROVE  StepOf(loop, result, acc, tlv).is \notin {"ok", "over"}
    OBVIOUS
  <2>1. GoField(result, acc, tlv).is \notin {"ok", "over"}
    BY DEF GoField, Taken, Err, Panic, Over
  <2>2. GoFile(acc, tlv).is \notin {"ok", "over"}
    BY GoObjectEnds DEF GoFile, Taken, Err
  <2>3. StepOf(loop, result, acc, tlv) \in {GoField(result, acc, tlv), GoFile(acc, tlv)}
    BY DEF StepOf
  <2> QED BY <2>1, <2>2, <2>3
<1>2. /\ a[0] = Taken(<<>>)
      /\ \A n \in Nat : n + 1 <= Len(tlvs) => a[n + 1] = StepOf(loop, result, a[n], tlvs[n + 1])
  BY RunSteps
<1> DEFINE Good(n) == n <= Len(tlvs) => a[n].is \notin {"ok", "over"}
<1> DEFINE S == {n \in Nat : Good(n)}
<1>3. 0 \in S
  <2>1. a[0].is \notin {"ok", "over"}
    BY <1>2 DEF Taken
  <2> QED BY <2>1
<1>4. ASSUME NEW n \in Nat, n \in S PROVE n + 1 \in S
  <2> SUFFICES ASSUME n + 1 <= Len(tlvs) PROVE a[n + 1].is \notin {"ok", "over"}
    OBVIOUS
  <2>1. n <= Len(tlvs) /\ n + 1 \in 1..Len(tlvs)
    OBVIOUS
  <2>2. a[n].is \notin {"ok", "over"} /\ tlvs[n + 1].tag # 0
    BY <1>4, <2>1
  <2> QED BY <1>1, <1>2, <2>2
<1>5. Len(tlvs) \in S
  <2> HIDE DEF S
  <2> QED BY <1>3, <1>4, SetInduction
<1> QED BY <1>5

(* What an answer is.                                                      *)
AnswerType ==
    \E tag, tlvs, cut :
        /\ answer = [tag |-> tag, value |-> [tlvs |-> tlvs, cut |-> cut]]
        /\ tlvs \in Seq(Fields \cup Files) /\ cut \in BOOLEAN

(* Go has nothing good to say of an answer that is cut.                     *)
LEMMA CutRefused == ASSUME AnswerType PROVE GoRefusesCut
<1> DEFINE value == answer.value
<1>1. Len(value.tlvs) \in Nat /\ DOMAIN value.tlvs = 1..Len(value.tlvs)
  BY LenProperties DEF AnswerType
<1> HIDE DEF value
<1> SUFFICES ASSUME value.cut, answer.tag \notin {6, 7},
                    \A i \in DOMAIN value.tlvs : value.tlvs[i].tag # 0
    PROVE  GoResult(answer).is # "ok"
  BY DEF GoRefusesCut, value
<1>2. CASE answer.tag \in DOMAIN GoFields
  <2>1. GoResult(answer) = GoObject(answer.tag, value)
    <3>1. answer.tag # Dir /\ answer.tag \notin {6, 7}
      BY <1>2 DEF GoFields, Results, Dir, Mounts
    <3> QED BY <1>2, <3>1, Zenon DEF GoResult, value
  <2>2. PICK a : /\ Runs(a, "goField", answer.tag, value.tlvs)
                 /\ GoObject(answer.tag, value) = GoEnd(a[Len(value.tlvs)], answer.tag, value)
    BY <1>1, GoObjectRuns
  <2>3. a[Len(value.tlvs)].is \notin {"ok", "over"}
    BY <1>1, <2>2, NeverOk
  <2>4. GoObject(answer.tag, value) \in {a[Len(value.tlvs)], Err}
    BY <2>2, <2>3, Zenon DEF GoEnd
  <2> QED BY <2>1, <2>3, <2>4 DEF Err
<1>3. CASE answer.tag = Dir
  <2>1. answer.tag \notin DOMAIN GoFields
    BY <1>3 DEF GoFields, Results, Dir, Mounts
  <2>2. PICK a : Runs(a, "goFile", 0, value.tlvs)
             /\ Decoded(GoFile, value.tlvs) = a[Len(value.tlvs)]
    BY <1>1, GoFileLoop, Zenon
  <2>3. a[Len(value.tlvs)].is \notin {"ok", "over"}
    BY <1>1, <2>2, NeverOk
  <2>4. GoResult(answer) \in {a[Len(value.tlvs)], Err}
    BY <1>3, <2>1, <2>2, Zenon DEF GoResult, value
  <2> QED BY <2>3, <2>4 DEF Err
<1>4. CASE answer.tag \notin DOMAIN GoFields /\ answer.tag # Dir
  <2>1. GoResult(answer) = Err
    BY <1>4, Zenon DEF GoResult
  <2> QED BY <2>1 DEF Err
<1> QED BY <1>2, <1>3, <1>4

-----------------------------------------------------------------------------
(* The answer: what both helpers make of it.                                *)

(* The two tables agree, but for the device of an answer to info.          *)
Agree(rust, go, result) ==
    /\ DOMAIN rust = DOMAIN go
    /\ \A t \in DOMAIN rust :
          /\ rust[t] \in {"zstr", "u32", "u64"}
          /\ go[t] = rust[t] \/ (result = 5 /\ t = 10 /\ rust[t] = "zstr" /\ go[t] = "dev")

(* So do those of every kind of answer.                                     *)
LEMMA Tables ==
    ASSUME NEW result \in Results
    PROVE  Agree(RustFields[result], GoFields[result], result)
<1> USE DEF Results, Mounts
<1>1. CASE result = 1
  <2>1. RustFields[result] = StatFields /\ GoFields[result] = GoStatFields
    BY <1>1 DEF RustFields, GoFields
  <2> QED BY <1>1, <2>1 DEF Agree, StatFields, GoStatFields
<1>2. CASE result = 3
  <2>1. RustFields[result] = SizeFields /\ GoFields[result] = GoSizeFields
    BY <1>2 DEF RustFields, GoFields
  <2> QED BY <1>2, <2>1 DEF Agree, SizeFields, GoSizeFields
<1>3. CASE result = 4
  <2>1. RustFields[result] = ErrorFields /\ GoFields[result] = GoErrorFields
    BY <1>3 DEF RustFields, GoFields
  <2> QED BY <1>3, <2>1 DEF Agree, ErrorFields, GoErrorFields
<1>4. CASE result = 5
  <2>1. RustFields[result] = InfoFields /\ GoFields[result] = GoInfoFields
    BY <1>4 DEF RustFields, GoFields
  <2> QED BY <1>4, <2>1 DEF Agree, InfoFields, GoInfoFields
<1>5. CASE result = 8
  <2>1. RustFields[result] = MountFields /\ GoFields[result] = GoMountFields
    BY <1>5 DEF RustFields, GoFields
  <2> QED BY <1>5, <2>1 DEF Agree, MountFields, GoMountFields
<1>6. CASE result = 9
  <2>1. RustFields[result] = Md5sumFields /\ GoFields[result] = GoMd5sumFields
    BY <1>6 DEF RustFields, GoFields
  <2> QED BY <1>6, <2>1 DEF Agree, Md5sumFields, GoMd5sumFields
<1> QED BY <1>1, <1>2, <1>3, <1>4, <1>5, <1>6

(* The fields of a mount.                                                   *)
LEMMA MountTags == RustFields[Mounts] = MountFields
BY DEF RustFields, Results, Mounts

(* The two helpers decode the same values, those that are not UTF-8 and     *)
(* that device aside.                                                       *)
LEMMA SameDecoding ==
    ASSUME NEW result \in Results, NEW t \in DOMAIN RustFields[result], NEW form, form # "latin",
           result = 5 /\ t = 10 => form = "text"
    PROVE  form \in RustDecodes[RustFields[result][t]] <=> form \in GoDecodes[GoFields[result][t]]
<1>1. /\ RustFields[result][t] \in {"zstr", "u32", "u64"}
      /\ \/ GoFields[result][t] = RustFields[result][t]
         \/ result = 5 /\ t = 10 /\ RustFields[result][t] = "zstr" /\ GoFields[result][t] = "dev"
  BY Tables DEF Agree
<1>2. /\ RustDecodes["zstr"] = {"text", "latin"} /\ GoDecodes["zstr"] = {"text"}
      /\ RustDecodes["u32"] = {"four"} /\ GoDecodes["u32"] = {"four"}
      /\ RustDecodes["u64"] = {"eight"} /\ GoDecodes["u64"] = {"eight"}
      /\ "text" \in GoDecodes["dev"]
  BY DEF RustDecodes, GoDecodes, Forms
<1> QED BY <1>1, <1>2

(* A field leaves the two helpers with the same, unless it is a malformed   *)
(* one of a mount that has not begun.                                       *)
LEMMA SameField ==
    ASSUME NEW result \in Results, NEW acc, NEW tlv, tlv.form # "latin",
           result = 5 /\ tlv.tag = 10 => tlv.form = "text",
           result = Mounts /\ acc.is = "reading" /\ acc.got = <<>>
              /\ tlv.tag \in DOMAIN MountFields \ {1} =>
                 tlv.form \in RustDecodes[MountFields[tlv.tag]]
    PROVE  RustField(result, acc, tlv) = GoField(result, acc, tlv)
<1>1. DOMAIN RustFields[result] = DOMAIN GoFields[result]
  BY Tables DEF Agree
<1>2. CASE acc.is # "reading" \/ tlv.tag = 0 \/ tlv.tag \notin DOMAIN RustFields[result]
  BY <1>1, <1>2 DEF RustField, GoField
<1>3. CASE acc.is = "reading" /\ tlv.tag # 0 /\ tlv.tag \in DOMAIN RustFields[result]
  <2>1. result = Mounts /\ tlv.tag # 1 /\ acc.got = <<>>
        => tlv.form \in RustDecodes[RustFields[result][tlv.tag]]
    BY <1>3, MountTags
  <2>2. tlv.form \in RustDecodes[RustFields[result][tlv.tag]]
        <=> tlv.form \in GoDecodes[GoFields[result][tlv.tag]]
    BY <1>3, SameDecoding
  <2> QED BY <1>1, <1>3, <2>1, <2>2, Zenon DEF RustField, GoField
<1> QED BY <1>2, <1>3

(* A field the two helpers read alike: in UTF-8, not the device, and not a *)
(* malformed field of a mount before its tag 1.                             *)
ReadAlike(result, i, tlv) ==
    /\ tlv.form # "latin"
    /\ result = 5 /\ tlv.tag = 10 => tlv.form = "text"
    /\ result = Mounts /\ i = 1 /\ tlv.tag \in DOMAIN MountFields \ {1} =>
          tlv.form \in RustDecodes[MountFields[tlv.tag]]

(* What was taken of the fields so far is fields, and more than none.      *)
SomeTaken(acc, X) == acc.is = "reading" => acc.got \in Seq(X) /\ acc.got # <<>>

(* A field that is taken is one of them.                                    *)
LEMMA GotMore ==
    ASSUME NEW result, NEW acc, NEW tlv, NEW X, tlv \in X,
           acc.is = "reading" => acc.got \in Seq(X)
    PROVE  SomeTaken(GoField(result, acc, tlv), X)
<1>1. CASE acc.is = "reading"
  <2>1. Append(acc.got, tlv) \in Seq(X) /\ Append(acc.got, tlv) # <<>>
    <3>1. acc.got \in Seq(X)
      BY <1>1
    <3>2. Append(acc.got, tlv) \in Seq(X) /\ Len(Append(acc.got, tlv)) = Len(acc.got) + 1
          /\ Len(acc.got) \in Nat
      BY <3>1, AppendProperties, LenProperties
    <3> QED BY <3>2, EmptySeq
  <2> QED BY <1>1, <2>1 DEF GoField, SomeTaken, Taken, Err, Over, Panic
<1>2. CASE acc.is # "reading"
  BY <1>2 DEF GoField, SomeTaken
<1> QED BY <1>1, <1>2

(* The same but for the protocol of an answer to info that does not give it *)
SameButProtocol(rust, go) ==
    go.is = "ok" /\ rust = Ok([taken |-> go.got.taken, kept |-> {12}])

(* From the same fields the two helpers make the same object, but for that. *)
LEMMA SameEnd ==
    ASSUME NEW result \in Results, NEW acc, NEW s, ~s.cut
    PROVE  \/ RustEnd(acc, result) = GoEnd(acc, result, s)
           \/ result = 5 /\ SameButProtocol(RustEnd(acc, result), GoEnd(acc, result, s))
<1>1. CASE acc.is \notin {"reading", "over"}
  BY <1>1, Zenon DEF RustEnd, GoEnd
<1>2. CASE acc.is \in {"reading", "over"}
  <2>1. /\ RustEnd(acc, result) = Ok(Object(acc.got, RustPreset[result]))
        /\ GoEnd(acc, result, s) = Ok(Object(acc.got, GoPreset[result]))
    BY <1>2, Zenon DEF RustEnd, GoEnd
  <2>2. GoPreset[result] = {} /\ RustPreset[result] = IF result = 5 THEN {12} ELSE {}
    BY DEF GoPreset, RustPreset
  <2> DEFINE tags == {acc.got[i].tag : i \in DOMAIN acc.got}
  <2>3. /\ Object(acc.got, {}) = [taken |-> acc.got, kept |-> {}]
        /\ Object(acc.got, {12}) = [taken |-> acc.got, kept |-> {12} \ tags]
    <3>1. {} \ tags = {}
      OBVIOUS
    <3> QED BY <3>1, Zenon DEF Object
  <2> HIDE DEF tags
  <2>4. {12} \ tags = {} \/ {12} \ tags = {12}
    OBVIOUS
  <2>5. GoEnd(acc, result, s) = Ok([taken |-> acc.got, kept |-> {}])
    BY <2>1, <2>2, <2>3, Zenon
  <2>6. CASE result # 5
    BY <2>1, <2>2, <2>6, Zenon
  <2>7. CASE result = 5
    <3>1. \/ RustEnd(acc, result) = Ok([taken |-> acc.got, kept |-> {}])
          \/ RustEnd(acc, result) = Ok([taken |-> acc.got, kept |-> {12}])
      BY <2>1, <2>2, <2>3, <2>4, <2>7, Zenon
    <3>2. GoEnd(acc, result, s).is = "ok" /\ GoEnd(acc, result, s).got.taken = acc.got
      BY <2>5 DEF Ok
    <3> QED BY <2>5, <2>7, <3>1, <3>2, Zenon DEF SameButProtocol
  <2> QED BY <2>6, <2>7
<1> QED BY <1>1, <1>2

(* The two helpers decode an answer of such fields alike.                   *)
LEMMA SameObject ==
    ASSUME NEW result \in Results, NEW s, NEW X, s.tlvs \in Seq(X), Len(s.tlvs) \in Nat, ~s.cut,
           \A i \in 1..Len(s.tlvs) : s.tlvs[i] \in X /\ ReadAlike(result, i, s.tlvs[i])
    PROVE  \/ RustObject(result, s) = GoObject(result, s)
           \/ result = 5 /\ SameButProtocol(RustObject(result, s), GoObject(result, s))
<1>1. PICK a : Runs(a, "rustField", result, s.tlvs)
               /\ RustObject(result, s) = RustEnd(a[Len(s.tlvs)], result)
  BY RustObjectRuns
<1>2. PICK b : Runs(b, "goField", result, s.tlvs)
               /\ GoObject(result, s) = GoEnd(b[Len(s.tlvs)], result, s)
  BY GoObjectRuns
<1>3. a[0] = Taken(<<>>) /\ b[0] = Taken(<<>>)
  BY <1>1, <1>2, RunSteps
<1>4. \A n \in Nat : n + 1 <= Len(s.tlvs) => a[n + 1] = RustField(result, a[n], s.tlvs[n + 1])
  <2>1. \A acc, tlv : StepOf("rustField", result, acc, tlv) = RustField(result, acc, tlv)
    BY DEF StepOf
  <2>2. \A n \in Nat : n + 1 <= Len(s.tlvs) =>
           a[n + 1] = StepOf("rustField", result, a[n], s.tlvs[n + 1])
    BY <1>1, RunSteps
  <2> QED BY <2>1, <2>2, Zenon
<1>5. \A n \in Nat : n + 1 <= Len(s.tlvs) => b[n + 1] = GoField(result, b[n], s.tlvs[n + 1])
  <2>1. \A acc, tlv : StepOf("goField", result, acc, tlv) = GoField(result, acc, tlv)
    BY DEF StepOf
  <2>2. \A n \in Nat : n + 1 <= Len(s.tlvs) =>
           b[n + 1] = StepOf("goField", result, b[n], s.tlvs[n + 1])
    BY <1>2, RunSteps
  <2> QED BY <2>1, <2>2, Zenon
<1> DEFINE Alike(n) ==
      /\ a[n] = b[n]
      /\ b[n].is = "reading" => b[n].got \in Seq(X) /\ (n # 0 => b[n].got # <<>>)
<1> DEFINE S == {n \in Nat : n <= Len(s.tlvs) => Alike(n)}
<1>6. 0 \in S
  <2>1. Alike(0)
    BY <1>3, EmptySeq DEF Taken
  <2> QED BY <2>1
<1>7. ASSUME NEW n \in Nat, n \in S PROVE n + 1 \in S
  <2> SUFFICES ASSUME n + 1 <= Len(s.tlvs) PROVE Alike(n + 1)
    OBVIOUS
  <2>1. Alike(n) /\ n + 1 \in 1..Len(s.tlvs) /\ n + 1 # 0 /\ (n = 0 <=> n + 1 = 1)
    BY <1>7
  <2>2. s.tlvs[n + 1] \in X /\ ReadAlike(result, n + 1, s.tlvs[n + 1])
    BY <2>1
  <2>3. RustField(result, b[n], s.tlvs[n + 1]) = GoField(result, b[n], s.tlvs[n + 1])
    BY <2>1, <2>2, SameField DEF ReadAlike
  <2>4. SomeTaken(GoField(result, b[n], s.tlvs[n + 1]), X)
    BY <2>1, <2>2, GotMore
  <2>5. /\ a[n + 1] = RustField(result, a[n], s.tlvs[n + 1])
        /\ b[n + 1] = GoField(result, b[n], s.tlvs[n + 1])
    BY <1>4, <1>5
  <2> QED BY <2>1, <2>3, <2>4, <2>5 DEF SomeTaken
<1>8. Alike(Len(s.tlvs))
  <2> HIDE DEF Alike
  <2>1. Len(s.tlvs) \in S
    <3> HIDE DEF S
    <3> QED BY <1>6, <1>7, SetInduction
  <2> QED BY <2>1
<1> QED BY <1>1, <1>2, <1>8, SameEnd

(* A file of a directory.                                                  *)
LEMMA SameFile ==
    ASSUME NEW acc, NEW tlv, tlv.tag # 0, RustObject(1, tlv.file) = GoObject(1, tlv.file)
    PROVE  RustFile(acc, tlv) = GoFile(acc, tlv)
BY Zenon DEF RustFile, GoFile

(* The files of a directory, one by one.                                    *)
LEMMA SameFiles ==
    ASSUME NEW tlvs, Len(tlvs) \in Nat,
           \A i \in 1..Len(tlvs) :
              tlvs[i].tag # 0 /\ RustObject(1, tlvs[i].file) = GoObject(1, tlvs[i].file)
    PROVE  Decoded(RustFile, tlvs) = Decoded(GoFile, tlvs)
<1>1. PICK a : Runs(a, "rustFile", 0, tlvs) /\ Decoded(RustFile, tlvs) = a[Len(tlvs)]
  BY RustFileLoop, Zenon
<1>2. PICK b : Runs(b, "goFile", 0, tlvs) /\ Decoded(GoFile, tlvs) = b[Len(tlvs)]
  BY GoFileLoop, Zenon
<1>3. a[0] = Taken(<<>>) /\ b[0] = Taken(<<>>)
  BY <1>1, <1>2, RunSteps
<1>4. /\ \A n \in Nat : n + 1 <= Len(tlvs) => a[n + 1] = StepOf("rustFile", 0, a[n], tlvs[n + 1])
      /\ \A n \in Nat : n + 1 <= Len(tlvs) => b[n + 1] = StepOf("goFile", 0, b[n], tlvs[n + 1])
  BY <1>1, <1>2, RunSteps
<1> DEFINE S == {n \in Nat : n <= Len(tlvs) => a[n] = b[n]}
<1>5. 0 \in S
  BY <1>3
<1>6. ASSUME NEW n \in Nat, n \in S PROVE n + 1 \in S
  <2> SUFFICES ASSUME n + 1 <= Len(tlvs) PROVE a[n + 1] = b[n + 1]
    OBVIOUS
  <2>1. a[n] = b[n] /\ n + 1 \in 1..Len(tlvs)
    BY <1>6
  <2>2. RustFile(a[n], tlvs[n + 1]) = GoFile(a[n], tlvs[n + 1])
    BY <2>1, SameFile
  <2>3. /\ StepOf("rustFile", 0, a[n], tlvs[n + 1]) = RustFile(a[n], tlvs[n + 1])
        /\ StepOf("goFile", 0, a[n], tlvs[n + 1]) = GoFile(a[n], tlvs[n + 1])
    BY DEF StepOf
  <2> QED BY <1>4, <2>1, <2>2, <2>3
<1>7. Len(tlvs) \in S
  <2> HIDE DEF S
  <2> QED BY <1>5, <1>6, SetInduction
<1>8. a[Len(tlvs)] = b[Len(tlvs)]
  BY <1>7
<1> QED BY <1>1, <1>2, <1>8, Zenon

(* One field is a sequence of fields.                                      *)
LEMMA OneSeq == ASSUME NEW X, NEW x \in X PROVE <<x>> \in Seq(X)
OBVIOUS

(* A field of an answer, or a file of one, holds fields.                   *)
LEMMA FileFields ==
    ASSUME NEW tlv \in Fields \cup Files
    PROVE  tlv.file.tlvs \in Seq(Fields) /\ Len(tlv.file.tlvs) \in Nat
           /\ \A j \in 1..Len(tlv.file.tlvs) : tlv.file.tlvs[j] \in Fields
<1>1. tlv.file.tlvs \in Seq(Fields)
  <2>1. CASE tlv \in Fields
    <3>1. tlv.file.tlvs = <<>>
      BY <2>1 DEF Fields, Field, Nothing, Stream
    <3> QED BY <3>1, EmptySeq
  <2>2. CASE tlv \in Files
    <3> DEFINE OneField == {<<Field(u, f)>> : u \in FileTags, f \in Forms}
    <3>1. PICK tlvs \in {<<>>} \cup OneField : tlv.file.tlvs = tlvs
      BY <2>2 DEF Files, File, Stream
    <3>2. ASSUME NEW one \in OneField PROVE one \in Seq(Fields)
      <4>1. PICK u \in FileTags, f \in Forms : one = <<Field(u, f)>>
        OBVIOUS
      <4>2. Field(u, f) \in Fields
        BY ResultsAssumption DEF Fields
      <4>3. <<Field(u, f)>> \in Seq(Fields)
        BY <4>2, OneSeq
      <4> QED BY <4>1, <4>3
    <3> HIDE DEF OneField
    <3>3. tlvs \in Seq(Fields)
      <4>1. tlvs = <<>> \/ tlvs \in OneField
        BY <3>1, Zenon
      <4> QED BY <3>2, <4>1, EmptySeq, Zenon
    <3> QED BY <3>1, <3>3, Zenon
  <2> QED BY <2>1, <2>2
<1> QED BY <1>1, LenProperties, ElementOfSeq

(* The TLVs of an answer.                                                   *)
LEMMA AnswerFields ==
    ASSUME AnswerType
    PROVE  /\ Len(answer.value.tlvs) \in Nat
           /\ DOMAIN answer.value.tlvs = 1..Len(answer.value.tlvs)
           /\ answer.value.tlvs \in Seq(Fields \cup Files)
           /\ \A i \in 1..Len(answer.value.tlvs) : answer.value.tlvs[i] \in Fields \cup Files
<1>1. answer.value.tlvs \in Seq(Fields \cup Files)
  BY DEF AnswerType
<1> QED BY <1>1, LenProperties, ElementOfSeq

(* The two helpers agree on every answer the property is about.            *)
LEMMA AnswersAlike == ASSUME AnswerType PROVE SameMeaning
<1> DEFINE value == answer.value
<1> SUFFICES ASSUME Whole(value),
                    \A i \in DOMAIN value.tlvs :
                       /\ Plain(value.tlvs[i])
                       /\ \A j \in DOMAIN value.tlvs[i].file.tlvs :
                             Plain(value.tlvs[i].file.tlvs[j])
                       /\ answer.tag = 5 /\ value.tlvs[i].tag = 10 => value.tlvs[i].form = "text"
                       /\ answer.tag = Mounts /\ i = 1
                             /\ value.tlvs[i].tag \in DOMAIN MountFields \ {1} =>
                             value.tlvs[i].form \in RustDecodes[MountFields[value.tlvs[i].tag]]
                       /\ answer.tag = Dir => value.tlvs[i].tag # 0
    PROVE  \/ RustResult(answer) = GoResult(answer)
           \/ answer.tag = 5 /\ SameButProtocol(RustResult(answer), GoResult(answer))
  BY Zenon DEF SameMeaning, SameButProtocol
<1>1. /\ Len(value.tlvs) \in Nat /\ DOMAIN value.tlvs = 1..Len(value.tlvs)
      /\ value.tlvs \in Seq(Fields \cup Files)
      /\ \A i \in 1..Len(value.tlvs) : value.tlvs[i] \in Fields \cup Files
  BY AnswerFields
<1>2. ~value.cut
  BY DEF Whole
<1>3. DOMAIN RustFields = Results /\ DOMAIN GoFields = Results /\ Dir \notin Results
      /\ Results \cap {6, 7} = {} /\ Dir \notin {6, 7}
  BY DEF RustFields, GoFields, Results, Dir, Mounts
<1>4. CASE answer.tag \in Results
  <2>1. \A i \in 1..Len(value.tlvs) :
           value.tlvs[i] \in Fields \cup Files /\ ReadAlike(answer.tag, i, value.tlvs[i])
    BY <1>1, Zenon DEF ReadAlike, Plain
  <2> HIDE DEF value
  <2>2. \/ RustObject(answer.tag, value) = GoObject(answer.tag, value)
        \/ answer.tag = 5
           /\ SameButProtocol(RustObject(answer.tag, value), GoObject(answer.tag, value))
    BY <1>1, <1>2, <1>4, <2>1, SameObject
  <2>3. answer.tag # Dir /\ answer.tag \notin {6, 7}
    BY <1>3, <1>4
  <2>4. RustResult(answer) = RustObject(answer.tag, value)
    BY <1>3, <1>4, <2>3, Zenon DEF RustResult, value
  <2>5. GoResult(answer) = GoObject(answer.tag, value)
    BY <1>3, <1>4, <2>3, Zenon DEF GoResult, value
  <2> QED BY <2>2, <2>4, <2>5
<1>5. CASE answer.tag = Dir
  <2>1. \A i \in 1..Len(value.tlvs) :
           value.tlvs[i].tag # 0
           /\ RustObject(1, value.tlvs[i].file) = GoObject(1, value.tlvs[i].file)
    <3> SUFFICES ASSUME NEW i \in 1..Len(value.tlvs)
        PROVE  value.tlvs[i].tag # 0
               /\ RustObject(1, value.tlvs[i].file) = GoObject(1, value.tlvs[i].file)
      OBVIOUS
    <3> DEFINE file == value.tlvs[i].file
    <3>1. /\ value.tlvs[i] \in Fields \cup Files /\ value.tlvs[i].tag # 0 /\ ~file.cut
          /\ \A j \in DOMAIN file.tlvs : Plain(file.tlvs[j])
      BY <1>1, <1>5, Zenon DEF Whole
    <3>2. /\ file.tlvs \in Seq(Fields) /\ Len(file.tlvs) \in Nat
          /\ \A j \in 1..Len(file.tlvs) : file.tlvs[j] \in Fields
      BY <3>1, FileFields
    <3> HIDE DEF value
    <3>3. \A j \in 1..Len(file.tlvs) : file.tlvs[j] \in Fields /\ ReadAlike(1, j, file.tlvs[j])
      <4>1. DOMAIN file.tlvs = 1..Len(file.tlvs)
        BY <3>2, LenProperties
      <4>2. Mounts # 1 /\ 1 # 5
        BY DEF Mounts
      <4> QED BY <3>1, <3>2, <4>1, <4>2, Zenon DEF ReadAlike, Plain
    <3>4. 1 \in Results
      BY DEF Results
    <3>5. RustObject(1, file) = GoObject(1, file)
      <4> HIDE DEF file
      <4> QED BY <3>1, <3>2, <3>3, <3>4, SameObject
    <3> QED BY <3>1, <3>5
  <2> HIDE DEF value
  <2>2. Decoded(RustFile, value.tlvs) = Decoded(GoFile, value.tlvs)
    BY <1>1, <2>1, SameFiles, Zenon
  <2>3. RustResult(answer) = IF Decoded(RustFile, value.tlvs).is \in {"reading", "over"}
                             THEN Ok(Decoded(RustFile, value.tlvs).got)
                             ELSE Decoded(RustFile, value.tlvs)
    BY <1>3, <1>5, Zenon DEF RustResult, value
  <2>4. GoResult(answer) = IF Decoded(GoFile, value.tlvs).is # "reading"
                           THEN Decoded(GoFile, value.tlvs)
                           ELSE Ok(Decoded(GoFile, value.tlvs).got)
    BY <1>2, <1>3, <1>5, Zenon DEF GoResult, value
  <2>5. Decoded(GoFile, value.tlvs).is # "over"
    <3>1. PICK a : /\ Runs(a, "goFile", 0, value.tlvs)
                   /\ Decoded(GoFile, value.tlvs) = a[Len(value.tlvs)]
      BY <1>1, GoFileLoop, Zenon
    <3>2. a[Len(value.tlvs)].is \notin {"ok", "over"}
      BY <1>1, <2>1, <3>1, NeverOk
    <3> QED BY <3>1, <3>2
  <2> QED BY <2>2, <2>3, <2>4, <2>5, Zenon
<1>6. CASE answer.tag \notin Results /\ answer.tag # Dir
  <2>1. CASE answer.tag \in {6, 7}
    <3>1. RustResult(answer) = Ok(<<>>)
      BY <1>3, <1>6, <2>1, Zenon DEF RustResult
    <3>2. GoResult(answer) = Ok(<<>>)
      BY <1>3, <1>6, <2>1, Zenon DEF GoResult
    <3> QED BY <3>1, <3>2
  <2>2. CASE answer.tag \notin {6, 7}
    <3>1. RustResult(answer) = Err
      BY <1>3, <1>6, <2>2, Zenon DEF RustResult
    <3>2. GoResult(answer) = Err
      BY <1>3, <1>6, <2>2, Zenon DEF GoResult
    <3> QED BY <3>1, <3>2
  <2> QED BY <2>1, <2>2
<1> QED BY <1>4, <1>5, <1>6

(* An answer is one of the kind at any time.                               *)
LEMMA AnswerInductive == Spec => []AnswerType
<1>1. Init => AnswerType
  <2>1. \A t : answer = [tag |-> t, value |-> Nothing] => AnswerType
    <3> SUFFICES ASSUME NEW t, answer = [tag |-> t, value |-> Nothing] PROVE AnswerType
      OBVIOUS
    <3>1. answer = [tag |-> t, value |-> [tlvs |-> <<>>, cut |-> FALSE]]
      BY DEF Nothing, Stream
    <3>2. <<>> \in Seq(Fields \cup Files)
      BY EmptySeq
    <3> QED BY <3>1, <3>2, Zenon DEF AnswerType
  <2> QED BY <2>1, Zenon DEF Init, NoAnswer, AnAnswer
<1>2. AnswerType /\ [Next]_vars => AnswerType'
  <2> SUFFICES ASSUME AnswerType, [Next]_vars PROVE AnswerType'
    OBVIOUS
  <2>1. PICK tag, tlvs, cut :
           /\ answer = [tag |-> tag, value |-> [tlvs |-> tlvs, cut |-> cut]]
           /\ tlvs \in Seq(Fields \cup Files) /\ cut \in BOOLEAN
    BY Zenon DEF AnswerType
  <2>2. CASE UNCHANGED answer
    BY <2>1, <2>2, Zenon DEF AnswerType
  <2>3. ASSUME NEW tlv \in Fields \cup Files, Extend(tlv) PROVE AnswerType'
    <3>1. answer' = [tag |-> tag, value |-> [tlvs |-> Append(tlvs, tlv), cut |-> cut]]
      BY <2>1, <2>3 DEF Extend
    <3>2. Append(tlvs, tlv) \in Seq(Fields \cup Files)
      BY <2>1, AppendProperties
    <3> QED BY <2>1, <3>1, <3>2, Zenon DEF AnswerType
  <2>4. CASE CutShort
    <3>1. answer' = [tag |-> tag, value |-> [tlvs |-> tlvs, cut |-> TRUE]]
      BY <2>1, <2>4 DEF CutShort
    <3> QED BY <2>1, <3>1, Zenon DEF AnswerType
  <2>5. UNCHANGED answer \/ CutShort \/ \E tlv \in Fields \cup Files : Extend(tlv)
    <3>1. AnswerGrows => CutShort \/ \E tlv \in Fields \cup Files : Extend(tlv)
      BY Zenon DEF AnswerGrows
    <3>2. [Next]_vars => UNCHANGED answer \/ AnswerGrows
      BY Zenon DEF Next, vars
    <3> QED BY <3>1, <3>2
  <2> QED BY <2>2, <2>3, <2>4, <2>5
<1> QED BY <1>1, <1>2, PTL DEF Spec

(* The Rust and the Go helper make the same of an answer that is whole and  *)
(* in UTF-8, however many fields or files it has and whatever their tags    *)
(* are (CommandResult::new, newCommandResult), but for the name of a        *)
(* device, a malformed field of a mount that has not begun, a tag 0 among   *)
(* the files of a directory, and the protocol of an Info that has none.     *)
THEOREM HelpersAgree == Spec => []SameMeaning
BY AnswerInductive, AnswersAlike, PTL

(* The Go helper refuses an answer that ends within a TLV, however much of  *)
(* it came before.                                                          *)
THEOREM CutIsRefused == Spec => []GoRefusesCut
BY AnswerInductive, CutRefused, PTL

-----------------------------------------------------------------------------
(* The log of the daemon: last_file_line.                                   *)

(* s is bytes i to j of t, one by one; none of these ends a line.          *)
Copies(s, t, i, j) ==
    /\ Len(s) = j - i + 1
    /\ \A k \in 1..(j - i + 1) : s[k] = t[i + k - 1]
Unbroken(t, i, j) == \A x \in 1..j : x >= i => t[x] # Eol

(* What was read so far is bytes i to j of the log.                        *)
IsPart(i, j) == Copies(line, log, i, j)
NoEol(i, j) == Unbroken(log, i, j)

(* What C++ returns is left open where the last line is the first one, or  *)
(* has one byte at most.                                                   *)
Excused(i) == reader = "cpp" /\ (i = 1 \/ size <= i + 1)

ClosedInv ==
    /\ pc = "closed" => line = <<>>
    /\ pc = "back" /\ reader \in Forward => line = <<>> /\ size >= 2
    /\ pc = "forward" => reader \in Forward /\ size >= 2 /\ at >= 1
    /\ pc = "failed" => size < 2

ScanInv ==
    reader \in Scanning =>
        /\ pc = "back" => at <= size /\ IsPart(at + 1, size) /\ NoEol(at + 1, size - 1)
        /\ pc = "done" =>
              \/ size = 0 /\ line = <<>>
              \/ \E i \in 1..size : LastStart(i, size) /\ IsPart(i, size)

BackInv ==
    pc = "back" /\ reader \in Forward =>
        /\ at \in 1..(size - 1)
        /\ \/ \E i \in 1..size : LastStart(i, size) /\ Excused(i)
           \/ NoEol(IF reader = "java" THEN at + 1 ELSE at - 1, size - 1)

ForwardInv ==
    /\ pc = "forward" => \E i \in 1..size :
          /\ LastStart(i, size)
          /\ \/ Excused(i)
             \/ i <= at /\ IsPart(i, at - 1) /\ NoEol(i, at - 1)
             \/ reader = "java" /\ i = 2 /\ at = 1 /\ line = <<>> /\ log[1] = Eol
    /\ pc = "done" /\ reader \in Forward /\ size >= 2 => \E i \in 1..size :
          /\ LastStart(i, size)
          /\ \/ Excused(i)
             \/ i <= at /\ IsPart(i, at - 1) /\ NoEol(i, at - 1) /\ at >= size
             \/ reader = "java" /\ i = 2 /\ line = <<>>

ReadInv == LogTypeOK /\ ClosedInv /\ ScanInv /\ BackInv /\ ForwardInv

(* A log that grows keeps the bytes it had.                                *)
LEMMA GrowsAtTheEnd ==
    ASSUME LogTypeOK, LogGrows
    PROVE  /\ log' \in Seq(Byte) /\ Len(log') \in Nat /\ Len(log) \in Nat
           /\ Len(log') >= Len(log)
           /\ \A x \in 1..Len(log) : log'[x] = log[x]
<1>1. PICK piece \in Logs : log' = log \o piece
  BY DEF LogGrows
<1>2. piece \in Seq(Byte)
  BY LastLineAssumption DEF Logs
<1>3. log \in Seq(Byte)
  BY DEF LogTypeOK
<1> QED BY <1>1, <1>2, <1>3, ConcatProperties, LenProperties

(* Bytes read one by one are the part of the log they were read from.      *)
LEMMA PartRead ==
    ASSUME LogTypeOK, NEW i \in Nat \ {0}, NEW j \in Nat, i <= j + 1, j <= Len(log),
           IsPart(i, j)
    PROVE  line = Part(i, j)
<1>1. \A x \in i..j : log[x] \in Byte
  BY DEF LogTypeOK
<1>2. /\ Part(i, j) \in Seq(Byte)
      /\ Len(Part(i, j)) = j - i + 1
      /\ \A k \in 1..(j - i + 1) : Part(i, j)[k] = log[i + k - 1]
  BY <1>1, SubSeqProperties DEF Part
<1>3. line \in Seq(Byte) /\ Len(line) = Len(Part(i, j))
      /\ \A k \in 1..Len(line) : line[k] = Part(i, j)[k]
  BY <1>2 DEF LogTypeOK, IsPart, Copies
<1> QED BY <1>2, <1>3, SeqEqual

(* One byte more, before the others or after them.                         *)
LEMMA LineGrows ==
    ASSUME LogTypeOK, NEW b \in Byte
    PROVE  /\ <<b>> \o line \in Seq(Byte) /\ Len(<<b>> \o line) = Len(line) + 1
           /\ (<<b>> \o line)[1] = b
           /\ \A k \in 1..Len(line) : (<<b>> \o line)[k + 1] = line[k]
           /\ Append(line, b) \in Seq(Byte) /\ Len(Append(line, b)) = Len(line) + 1
           /\ Append(line, b)[Len(line) + 1] = b
           /\ \A k \in 1..Len(line) : Append(line, b)[k] = line[k]
<1>1. line \in Seq(Byte) /\ <<b>> \in Seq(Byte) /\ Len(<<b>>) = 1 /\ <<b>>[1] = b
  BY DEF LogTypeOK
<1>2. \A k \in 1..(1 + Len(line)) :
         (<<b>> \o line)[k] = IF k <= 1 THEN <<b>>[k] ELSE line[k - 1]
  BY <1>1, ConcatProperties
<1>3. <<b>> \o line \in Seq(Byte) /\ Len(<<b>> \o line) = Len(line) + 1
  BY <1>1, ConcatProperties, LenProperties
<1> QED BY <1>1, <1>2, <1>3, LenProperties

(* Both facts depend on bytes i to j alone, and go on to the next byte.    *)
LEMMA SameBytes ==
    ASSUME NEW s, NEW t, NEW u, NEW i \in Nat \ {0}, NEW j \in Nat,
           \A x \in 1..j : u[x] = t[x]
    PROVE  /\ Copies(s, t, i, j) => Copies(s, u, i, j)
           /\ Unbroken(t, i, j) => Unbroken(u, i, j)
<1>1. \A k \in 1..(j - i + 1) : i + k - 1 \in 1..j
  OBVIOUS
<1> QED BY <1>1 DEF Copies, Unbroken

(* A byte put before those that follow it makes the part longer by it      *)
(* (Rust, Python, Go).                                                     *)
LEMMA OneByteBefore ==
    ASSUME NEW s, NEW r, NEW t, NEW i \in Nat \ {0}, NEW j \in Nat, i <= j,
           Copies(s, t, i + 1, j), Len(r) = Len(s) + 1, r[1] = t[i],
           \A k \in 1..Len(s) : r[k + 1] = s[k]
    PROVE  Copies(r, t, i, j)
<1>1. Len(s) = j - i /\ Len(r) = j - i + 1
  BY DEF Copies
<1>2. ASSUME NEW k \in 1..(j - i + 1) PROVE r[k] = t[i + k - 1]
  <2>1. CASE k = 1 BY <2>1
  <2>2. CASE k # 1
    <3>1. k - 1 \in 1..Len(s) /\ k - 1 \in 1..(j - (i + 1) + 1)
      BY <1>1, <2>2
    <3>2. r[(k - 1) + 1] = s[k - 1] /\ s[k - 1] = t[(i + 1) + (k - 1) - 1]
      BY <3>1 DEF Copies
    <3>3. (k - 1) + 1 = k /\ (i + 1) + (k - 1) - 1 = i + k - 1
      OBVIOUS
    <3> QED BY <3>2, <3>3
  <2> QED BY <2>1, <2>2
<1> QED BY <1>1, <1>2 DEF Copies

(* A byte put after those that precede it makes the part longer by it      *)
(* (Java, C++).                                                            *)
LEMMA OneByteAfter ==
    ASSUME NEW s, NEW r, NEW t, NEW i \in Nat \ {0}, NEW j \in Nat, i <= j + 1,
           Copies(s, t, i, j), Len(r) = Len(s) + 1, r[Len(s) + 1] = t[j + 1],
           \A k \in 1..Len(s) : r[k] = s[k]
    PROVE  Copies(r, t, i, j + 1)
<1>1. Len(s) = j - i + 1 /\ Len(r) = (j + 1) - i + 1
  BY DEF Copies
<1>2. ASSUME NEW k \in 1..((j + 1) - i + 1) PROVE r[k] = t[i + k - 1]
  <2>1. CASE k = Len(s) + 1
    <3>1. i + k - 1 = j + 1
      BY <1>1, <2>1
    <3> QED BY <2>1, <3>1
  <2>2. CASE k # Len(s) + 1
    <3>1. k \in 1..Len(s) /\ k \in 1..(j - i + 1)
      BY <1>1, <2>2
    <3> QED BY <3>1 DEF Copies
  <2> QED BY <2>1, <2>2
<1> QED BY <1>1, <1>2 DEF Copies

(* Nothing is read before the log is opened.                                *)
LEMMA ReadStarts == ASSUME LogInit PROVE ReadInv
BY LastLineAssumption
DEF LogInit, ReadInv, LogTypeOK, ClosedInv, ScanInv, BackInv, ForwardInv, Logs

(* What was read is always the part of the log between two bytes that the   *)
(* search has found.                                                        *)
LEMMA ReadStep == ReadInv /\ [LogNext]_logVars => ReadInv'
<1> SUFFICES ASSUME ReadInv, [LogNext]_logVars PROVE ReadInv'
  OBVIOUS
<1>0. Len(log) \in Nat /\ size \in Nat /\ at \in Nat /\ size <= Len(log)
      /\ at <= Len(log) + 1 /\ Len(line) \in Nat /\ log \in Seq(Byte) /\ line \in Seq(Byte)
      /\ \A x \in 1..Len(log) : log[x] \in Byte
  BY LenProperties, ElementOfSeq DEF ReadInv, LogTypeOK
<1> USE LastLineAssumption DEF ReadInv, LogTypeOK, ClosedInv, ScanInv, BackInv, ForwardInv
<1>1. CASE LogGrows
  <2>1. /\ log' \in Seq(Byte) /\ Len(log') \in Nat /\ Len(log') >= Len(log)
        /\ \A x \in 1..Len(log) : log'[x] = log[x]
        /\ UNCHANGED <<reader, pc, size, at, line>>
    BY <1>1, GrowsAtTheEnd DEF LogGrows
  <2>2. LogTypeOK' /\ ClosedInv'
    BY <1>0, <2>1
  <2>3. \A i \in 1..size : LastStart(i, size) => LastStart(i, size)'
    BY <1>0, <2>1 DEF LastStart
  <2>4. \A i \in Nat \ {0}, j \in Nat : j <= Len(log) =>
           /\ Copies(line, log, i, j) => Copies(line, log', i, j)
           /\ Unbroken(log, i, j) => Unbroken(log', i, j)
    <3> SUFFICES ASSUME NEW i \in Nat \ {0}, NEW j \in Nat, j <= Len(log)
        PROVE /\ Copies(line, log, i, j) => Copies(line, log', i, j)
              /\ Unbroken(log, i, j) => Unbroken(log', i, j)
      OBVIOUS
    <3>1. \A x \in 1..j : log'[x] = log[x]
      BY <1>0, <2>1
    <3> QED BY <3>1, SameBytes
  <2>5. ScanInv'
    <3>1. reader \in Scanning /\ pc = "back" => IsPart(at + 1, size)' /\ NoEol(at + 1, size - 1)'
      <4>1. size = 0 => NoEol(at + 1, size - 1)'
        BY <2>1 DEF NoEol, Unbroken
      <4> QED BY <1>0, <2>1, <2>4, <4>1 DEF IsPart, NoEol
    <3>2. \A i \in 1..size : IsPart(i, size) => IsPart(i, size)'
      BY <1>0, <2>1, <2>4 DEF IsPart
    <3> QED BY <2>1, <2>3, <3>1, <3>2
  <2>6. BackInv'
    <3>1. \A i \in 1..size : LastStart(i, size) /\ Excused(i) => (LastStart(i, size) /\ Excused(i))'
      BY <2>1, <2>3 DEF Excused
    <3>2. \A i \in Nat : NoEol(i, size - 1) => \A x \in 1..(size - 1) : x >= i => log'[x] # Eol
      <4>1. \A x \in 1..(size - 1) : log'[x] = log[x]
        BY <1>0, <2>1
      <4> QED BY <4>1, Zenon DEF NoEol, Unbroken
    <3> QED BY <1>0, <2>1, <3>1, <3>2 DEF NoEol, Unbroken
  <2>7. \A i \in 1..size : i <= at /\ IsPart(i, at - 1) /\ NoEol(i, at - 1) =>
                           IsPart(i, at - 1)' /\ NoEol(i, at - 1)'
    BY <1>0, <2>1, <2>4 DEF IsPart, NoEol
  <2>8. pc = "forward" /\ at = 1 /\ size >= 2 => log'[1] = log[1]
    BY <1>0, <2>1
  <2>9. ForwardInv'
    BY <2>1, <2>3, <2>7, <2>8 DEF Excused
  <2> QED BY <2>2, <2>5, <2>6, <2>9
<1>2. CASE Open
  <2>1. CASE reader \in Scanning
    BY <1>0, <1>2, <2>1 DEF Open, Scanning, Forward, IsPart, Copies, NoEol, Unbroken
  <2>2. CASE reader \in Forward /\ Len(log) < 2
    BY <1>0, <1>2, <2>2 DEF Open, Scanning, Forward
  <2>3. CASE reader \in Forward /\ Len(log) >= 2
    <3>1. /\ size' = Len(log) /\ at' = Len(log) - 1 /\ pc' = "back" /\ line' = <<>>
          /\ UNCHANGED <<log, reader>>
      BY <1>2, <2>3 DEF Open, Scanning, Forward
    <3>2. BackInv'
      <4>1. CASE reader = "java" \/ NoEol(Len(log) - 2, Len(log) - 1)
        BY <1>0, <2>3, <3>1, <4>1 DEF NoEol, Unbroken, Forward
      <4>2. CASE reader = "cpp" /\ log[Len(log) - 1] = Eol
        <5>1. LastStart(Len(log), Len(log))
          BY <1>0, <2>3, <4>2 DEF LastStart
        <5> QED BY <1>0, <2>3, <3>1, <4>2, <5>1 DEF LastStart, Excused
      <4>3. CASE reader = "cpp" /\ Len(log) >= 3 /\ log[Len(log) - 2] = Eol
                 /\ log[Len(log) - 1] # Eol
        <5>1. LastStart(Len(log) - 1, Len(log))
          BY <1>0, <2>3, <4>3 DEF LastStart
        <5> QED BY <1>0, <2>3, <3>1, <4>3, <5>1 DEF LastStart, Excused
      <4>4. reader = "java" \/ reader = "cpp"
        BY <2>3 DEF Forward
      <4>5. ASSUME ~NoEol(Len(log) - 2, Len(log) - 1)
            PROVE  log[Len(log) - 1] = Eol \/ (Len(log) >= 3 /\ log[Len(log) - 2] = Eol)
        <5>1. PICK x \in 1..(Len(log) - 1) : x >= Len(log) - 2 /\ log[x] = Eol
          BY <4>5, Zenon DEF NoEol, Unbroken
        <5>2. x = Len(log) - 1 \/ (x = Len(log) - 2 /\ Len(log) >= 3)
          BY <1>0, <2>3, <5>1
        <5> QED BY <5>1, <5>2
      <4> QED BY <4>1, <4>2, <4>3, <4>4, <4>5
    <3> QED BY <1>0, <2>3, <3>1, <3>2 DEF Scanning, Forward
  <2> QED BY <1>2, <2>1, <2>2, <2>3 DEF Open
<1>3. CASE Back
  <2>1. CASE at = 0 \/ (log[at] = Eol /\ line # <<>>)
    <3>1. pc' = "done" /\ UNCHANGED <<log, reader, size, at, line>> /\ at <= size
          /\ IsPart(at + 1, size) /\ NoEol(at + 1, size - 1) /\ reader \in Scanning
      BY <1>3, <2>1 DEF Back
    <3>2. CASE size = 0
      BY <1>0, <3>1, <3>2, EmptySeq DEF IsPart, Copies, Scanning, Forward
    <3>3. CASE size > 0
      <4>1. at < size
        BY <1>0, <2>1, <3>1, <3>3, EmptySeq DEF IsPart, Copies
      <4>2. LastStart(at + 1, size)
        BY <1>0, <2>1, <3>1, <4>1 DEF LastStart, NoEol, Unbroken
      <4> QED BY <1>0, <3>1, <4>1, <4>2 DEF LastStart, IsPart, Copies, Scanning, Forward
    <3>4. size = 0 \/ size > 0
      BY <1>0
    <3> QED BY <3>2, <3>3, <3>4, Zenon
  <2>2. CASE ~(at = 0 \/ (log[at] = Eol /\ line # <<>>))
    <3>1. /\ pc = "back" /\ line' = <<log[at]>> \o line /\ at' = at - 1
          /\ UNCHANGED <<log, reader, size, pc>> /\ reader \in Scanning
          /\ at <= size /\ IsPart(at + 1, size) /\ NoEol(at + 1, size - 1)
      BY <1>3, <2>2 DEF Back
    <3>2. log[at] \in Byte /\ at \in 1..Len(log)
      BY <1>0, <2>2, <3>1
    <3>3. line' \in Seq(Byte) /\ Len(line') = Len(line) + 1 /\ line'[1] = log[at]
          /\ \A k \in 1..Len(line) : line'[k + 1] = line[k]
      BY <3>1, <3>2, LineGrows
    <3>4. IsPart(at + 1, size)'
      <4>1. Copies(line', log, at, size)
        <5>1. /\ at \in Nat \ {0} /\ size \in Nat /\ at <= size
              /\ Copies(line, log, at + 1, size)
              /\ Len(line') = Len(line) + 1 /\ line'[1] = log[at]
              /\ \A k \in 1..Len(line) : line'[k + 1] = line[k]
          BY <1>0, <3>1, <3>2, <3>3 DEF IsPart
        <5> QED BY <5>1, OneByteBefore
      <4>2. at' + 1 = at
        BY <1>0, <3>1
      <4> QED BY <3>1, <4>1, <4>2 DEF IsPart, Copies
    <3>5. NoEol(at + 1, size - 1)'
      <4>1. at <= size - 1 => line # <<>>
        BY <1>0, <3>1, EmptySeq DEF IsPart, Copies
      <4> QED BY <1>0, <2>2, <3>1, <4>1 DEF NoEol, Unbroken
    <3> QED BY <1>0, <3>1, <3>2, <3>3, <3>4, <3>5
            DEF Scanning, Forward, IsPart, Copies, NoEol, Unbroken
  <2> QED BY <2>1, <2>2
<1>4. CASE JavaBack
  <2>1. pc = "back" /\ reader = "java" /\ reader \in Forward /\ reader \notin Scanning
        /\ UNCHANGED <<log, reader, size, line>> /\ line = <<>> /\ size >= 2
        /\ at \in 1..(size - 1) /\ NoEol(at + 1, size - 1)
    BY <1>4 DEF JavaBack, Forward, Scanning, Excused
  <2>2. CASE at = 1
    <3>1. pc' = "forward" /\ at' = 1
      BY <1>4, <2>2 DEF JavaBack
    <3>2. CASE log[1] = Eol
      <4>1. LastStart(2, size)
        BY <1>0, <2>1, <2>2, <3>2 DEF LastStart, NoEol, Unbroken
      <4> QED BY <1>0, <2>1, <3>1, <3>2, <4>1 DEF LastStart
    <3>3. CASE log[1] # Eol
      <4>1. LastStart(1, size)
        BY <1>0, <2>1, <2>2, <3>3 DEF LastStart, NoEol, Unbroken
      <4>2. IsPart(1, 0) /\ NoEol(1, 0)
        BY <2>1, EmptySeq DEF IsPart, Copies, NoEol, Unbroken
      <4> QED BY <1>0, <2>1, <3>1, <4>1, <4>2 DEF LastStart, IsPart, Copies, NoEol, Unbroken
    <3> QED BY <3>2, <3>3
  <2>3. CASE at # 1 /\ log[at] = Eol
    <3>1. pc' = "forward" /\ at' = at + 1
      BY <1>4, <2>3 DEF JavaBack
    <3>2. LastStart(at + 1, size)
      BY <1>0, <2>1, <2>3 DEF LastStart, NoEol, Unbroken
    <3>3. IsPart(at + 1, at) /\ NoEol(at + 1, at)
      BY <1>0, <2>1, EmptySeq DEF IsPart, Copies, NoEol, Unbroken
    <3> QED BY <1>0, <2>1, <3>1, <3>2, <3>3 DEF LastStart, IsPart, Copies, NoEol, Unbroken
  <2>4. CASE at # 1 /\ log[at] # Eol
    <3>1. pc' = "back" /\ at' = at - 1
      BY <1>4, <2>1, <2>4 DEF JavaBack
    <3>2. NoEol(at, size - 1)
      BY <1>0, <2>1, <2>4 DEF NoEol, Unbroken
    <3> QED BY <1>0, <2>1, <2>4, <3>1, <3>2 DEF NoEol
  <2> QED BY <2>2, <2>3, <2>4
<1>5. CASE CppBack
  <2>1. pc = "back" /\ reader = "cpp" /\ reader \in Forward /\ reader \notin Scanning
        /\ UNCHANGED <<log, reader, size, line>> /\ line = <<>> /\ size >= 2
        /\ at \in 1..(size - 1) /\ pc' \in {"back", "forward"}
        /\ at' \in {at, at - 1} /\ (at <= 2 => at' = at /\ pc' = "forward")
    BY <1>5 DEF CppBack, Forward, Scanning
  <2>2. CASE \E i \in 1..size : LastStart(i, size) /\ Excused(i)
    <3>1. (\E i \in 1..size : LastStart(i, size) /\ Excused(i))' /\ at' \in 1..(size - 1)
      BY <1>0, <2>1, <2>2 DEF LastStart, Excused
    <3> QED BY <1>0, <2>1, <3>1
  <2>3. CASE NoEol(at - 1, size - 1)
    <3>1. CASE at <= 2
      <4>1. LastStart(1, size) /\ Excused(1)
        BY <1>0, <2>1, <2>3, <3>1 DEF LastStart, NoEol, Unbroken, Excused
      <4> QED BY <1>0, <2>1, <3>1, <4>1 DEF LastStart, Excused
    <3>2. CASE at > 2 /\ log[at - 2] = Eol
      <4>1. pc' = "forward" /\ at' = at - 1
        BY <1>5, <1>0, <3>2 DEF CppBack
      <4>2. LastStart(at - 1, size)
        BY <1>0, <2>1, <2>3, <3>2 DEF LastStart, NoEol, Unbroken
      <4>3. IsPart(at - 1, at - 2) /\ NoEol(at - 1, at - 2)
        BY <1>0, <2>1, EmptySeq DEF IsPart, Copies, NoEol, Unbroken
      <4> QED BY <1>0, <2>1, <4>1, <4>2, <4>3 DEF LastStart, IsPart, Copies, NoEol, Unbroken
    <3>3. CASE at > 2 /\ log[at - 2] # Eol
      <4>1. pc' = "back" /\ at' = at - 1
        BY <1>5, <1>0, <3>3 DEF CppBack
      <4>2. NoEol(at - 2, size - 1)
        BY <1>0, <2>1, <2>3, <3>3 DEF NoEol, Unbroken
      <4> QED BY <1>0, <2>1, <3>3, <4>1, <4>2 DEF NoEol, Unbroken
    <3>4. at <= 2 \/ at > 2
      BY <1>0
    <3> QED BY <3>1, <3>2, <3>3, <3>4, Zenon
  <2> QED BY <2>1, <2>2, <2>3
<1>6. CASE ReadForward
  <2>1. pc = "forward" /\ reader \in Forward /\ reader \notin Scanning /\ size >= 2
        /\ UNCHANGED <<log, reader, size>>
    BY <1>6 DEF ReadForward, Forward, Scanning
  <2>2. PICK i \in 1..size :
           /\ LastStart(i, size)
           /\ \/ Excused(i)
              \/ i <= at /\ IsPart(i, at - 1) /\ NoEol(i, at - 1)
              \/ reader = "java" /\ i = 2 /\ at = 1 /\ line = <<>> /\ log[1] = Eol
    BY <2>1
  <2>3. CASE at > Len(log) \/ log[at] = Eol
    <3>1. pc' = "done" /\ UNCHANGED <<at, line>>
      BY <1>6, <2>3 DEF ReadForward
    <3>2. i <= at /\ NoEol(i, at - 1) => at >= size
      BY <1>0, <2>2, <2>3 DEF LastStart
    <3> QED BY <1>0, <2>1, <2>2, <3>1, <3>2 DEF LastStart, Excused, IsPart, Copies, NoEol, Unbroken
  <2>4. CASE ~(at > Len(log) \/ log[at] = Eol)
    <3>1. line' = Append(line, log[at]) /\ at' = at + 1 /\ pc' = "forward" /\ at <= Len(log)
      BY <1>0, <1>6, <2>1, <2>4 DEF ReadForward
    <3>2. at \in 1..Len(log) /\ log[at] \in Byte
      BY <1>0, <2>1, <3>1
    <3>3. line' \in Seq(Byte) /\ Len(line') = Len(line) + 1
          /\ line'[Len(line) + 1] = log[at]
          /\ \A k \in 1..Len(line) : line'[k] = line[k]
      BY <3>1, <3>2, LineGrows
    <3>4. CASE Excused(i)
      BY <1>0, <2>1, <2>2, <3>1, <3>2, <3>3, <3>4 DEF LastStart, Excused
    <3>5. CASE i <= at /\ IsPart(i, at - 1) /\ NoEol(i, at - 1)
      <4>1. Copies(line', log, i, at)
        <5>1. (at - 1) + 1 = at /\ at - 1 \in Nat
          BY <3>2
        <5>2. Copies(line', log, i, (at - 1) + 1)
          BY <1>0, <3>2, <3>3, <3>5, <5>1, OneByteAfter DEF IsPart
        <5> QED BY <5>1, <5>2
      <4>2. Unbroken(log, i, at)
        BY <1>0, <2>4, <3>2, <3>5 DEF NoEol, Unbroken
      <4>3. at' - 1 = at
        BY <3>1, <3>2
      <4>4. IsPart(i, at - 1)' /\ NoEol(i, at - 1)' /\ i <= at'
        BY <1>0, <2>1, <3>1, <3>5, <4>1, <4>2, <4>3 DEF IsPart, Copies, NoEol, Unbroken
      <4>5. LastStart(i, size)'
        BY <2>1, <2>2 DEF LastStart
      <4> QED BY <1>0, <2>1, <3>1, <3>2, <3>3, <4>4, <4>5
    <3> QED BY <2>2, <2>4, <3>4, <3>5
  <2> QED BY <2>3, <2>4
<1>7. CASE UNCHANGED logVars
  BY <1>7 DEF logVars, IsPart, Copies, NoEol, Unbroken, LastStart, Excused
<1> QED BY <1>1, <1>2, <1>3, <1>4, <1>5, <1>6, <1>7 DEF LogNext, LastFileLine

(* That holds of every log, and a behaviour that is about a line or an      *)
(* answer has none.                                                         *)
LEMMA ReadInductive == Spec => [](NoLog \/ ReadInv)
<1>1. Init => NoLog \/ ReadInv
  BY ReadStarts DEF Init
<1>2. (NoLog \/ ReadInv) /\ [Next]_vars => (NoLog \/ ReadInv)'
  <2>1. [Next]_vars => UNCHANGED logVars \/ (reader # "none" /\ LogNext)
    BY Zenon DEF Next, vars
  <2>2. NoLog /\ UNCHANGED logVars => NoLog'
    BY DEF NoLog, logVars
  <2>3. NoLog => reader = "none"
    BY DEF NoLog
  <2> QED BY <2>1, <2>2, <2>3, ReadStep
<1> QED BY <1>1, <1>2, PTL DEF Spec

(* last_file_line returns the last line of the log as it was when its end  *)
(* was sought, for a log of any length and whatever is written meanwhile.  *)
THEOREM LastLineIsRead == Spec => []ReadsLastLine
<1>1. ReadInv => ReadsLastLine
  <2> SUFFICES ASSUME ReadInv PROVE ScanIsSnapshot /\ ForwardIsLine
    BY DEF ReadsLastLine
  <2>0. LogTypeOK /\ Len(log) \in Nat /\ size \in Nat /\ size <= Len(log) /\ at \in Nat
        /\ at <= Len(log) + 1
    BY LenProperties DEF ReadInv, LogTypeOK
  <2>1. ScanIsSnapshot
    <3>1. \A i \in 1..size : IsPart(i, size) => line = Part(i, size)
      BY <2>0, PartRead
    <3> QED BY <2>0, <3>1 DEF ReadInv, ScanInv, ScanIsSnapshot
  <2>2. ForwardIsLine
    <3>1. \A i \in 1..size : i <= at /\ IsPart(i, at - 1) => line = Part(i, at - 1)
      BY <2>0, PartRead
    <3> QED BY <2>0, <3>1 DEF ReadInv, ForwardInv, ForwardIsLine, Excused, NoEol, Unbroken
  <2> QED BY <2>1, <2>2
<1>2. NoLog => ReadsLastLine
  BY DEF NoLog, ReadsLastLine, ScanIsSnapshot, ForwardIsLine
<1> QED BY <1>1, <1>2, ReadInductive, PTL
=============================================================================
