---------------------------- MODULE AddressProofs ----------------------------
(***************************************************************************)
(* What holds of the addresses, of all strings over any letters that have  *)
(* "@", "/" and "_", and of XUrl, of every URL.                            *)
(*                                                                         *)
(* The argument: what is joined with a separator is cut at the same place  *)
(* if what stands before has no separator of its own (Cut, Joined), so     *)
(* Split undoes Resource (SplitResource) and Parse undoes JID as far as    *)
(* writing the address again can tell (ParseKeeps).  Cat is \o under a     *)
(* name that the provers do not open, and Low, At, Slash and Colon are     *)
(* the separators' names.  The invariant: the client logs in with          *)
(* m_JID's user and resource once no change of the address is due          *)
(* (ClientInv), a play task carries the address it was made under, and a   *)
(* command's address is what Parse and JID make of that one.  For URLs:    *)
(* the first "//" ends the scheme, for a scheme has no "/" (FirstSlashes), *)
(* and the first "/" and ":" behind it end what the reference says.        *)
(***************************************************************************)
EXTENDS MCSessionAddress, SequenceTheorems, WellFoundedInduction, TLAPS

------------------------------------------------------------------------------
(* Searching and cutting strings.                                          *)

LEMMA Least ==
  ASSUME NEW T \in SUBSET Nat, T # {}
  PROVE  \E x \in T : \A y \in T : x <= y
<1> DEFINE R == {ss \in Nat \X Nat : ss[1] < ss[2]}
<1>1. IsWellFoundedOn(R, Nat)
  BY NatLessThanWellFounded, Zenon DEF OpToRel
<1>2. PICK x \in T : \A y \in T : ~(<<y, x>> \in R)
  <2> HIDE DEF R
  <2> QED BY <1>1, WFMin
<1>3. ASSUME NEW y \in T PROVE x <= y
  <2>1. <<y, x>> \in Nat \X Nat /\ <<y, x>>[1] = y /\ <<y, x>>[2] = x
    OBVIOUS
  <2>2. ~(y < x)
    BY <1>2, <2>1
  <2>3. x \in Nat /\ y \in Nat
    OBVIOUS
  <2> QED BY <2>2, <2>3
<1> QED BY <1>3

LEMMA FindFacts ==
  ASSUME NEW S, NEW s \in Seq(S), NEW c
  PROVE  /\ Find(s, c) \in 0 .. Len(s)
         /\ Find(s, c) = 0 => \A i \in 1 .. Len(s) : s[i] # c
         /\ Find(s, c) # 0 => /\ s[Find(s, c)] = c
                              /\ \A i \in 1 .. Len(s) : s[i] = c => Find(s, c) <= i
<1> DEFINE I == {i \in 1 .. Len(s) : s[i] = c}
<1>1. Find(s, c) = IF I # {} THEN CHOOSE x \in I : \A y \in I : x <= y ELSE 0
  BY DEF Find, SelectInSeq, Min
<1>2. Len(s) \in Nat
  BY LenProperties
<1>3. CASE I = {}
  BY <1>1, <1>2, <1>3
<1>4. CASE I # {}
  <2>1. \E x \in I : \A y \in I : x <= y
    <3>1. I \in SUBSET Nat
      BY <1>2
    <3> HIDE DEF I
    <3> QED BY <1>4, <3>1, Least
  <2>2. Find(s, c) \in I /\ \A y \in I : Find(s, c) <= y
    <3> HIDE DEF I
    <3> QED BY <1>1, <1>4, <2>1
  <2> QED BY <1>2, <2>2
<1> QED BY <1>3, <1>4

LEMMA FoundAt ==
  ASSUME NEW S, NEW s \in Seq(S), NEW c, NEW k \in 1 .. Len(s),
         s[k] = c, \A i \in 1 .. k - 1 : s[i] # c
  PROVE  Find(s, c) = k
<1>1. Len(s) \in Nat
  BY LenProperties
<1>2. Find(s, c) \in 1 .. Len(s) /\ Find(s, c) <= k /\ s[Find(s, c)] = c
  BY <1>1, FindFacts
<1> QED BY <1>1, <1>2

LEMMA NotFound ==
  ASSUME NEW S, NEW s \in Seq(S), NEW c
  PROVE  Find(s, c) = 0 <=> \A i \in 1 .. Len(s) : s[i] # c
<1>1. Len(s) \in Nat
  BY LenProperties
<1> QED BY <1>1, FindFacts

LEMMA EmptyHasNone == ASSUME NEW c PROVE Find(<<>>, c) = 0
<1>1. <<>> \in Seq({c}) /\ Len(<<>>) = 0
  BY EmptySeq
<1>2. \A i \in 1 .. Len(<<>>) : <<>>[i] # c
  BY <1>1
<1> QED BY <1>1, <1>2, NotFound

LEMMA OneLetter ==
  ASSUME NEW S, NEW c \in S
  PROVE  <<c>> \in Seq(S) /\ Len(<<c>>) = 1 /\ <<c>>[1] = c
OBVIOUS

\* A string is cut at the first c, which a does not have.
LEMMA Cut ==
  ASSUME NEW S, NEW a \in Seq(S), NEW b \in Seq(S), NEW c \in S
  PROVE  /\ (a \o <<c>>) \o b \in Seq(S)
         /\ Len((a \o <<c>>) \o b) = Len(a) + 1 + Len(b)
         /\ Before((a \o <<c>>) \o b, Len(a) + 1) = a
         /\ Behind((a \o <<c>>) \o b, Len(a) + 1) = b
         /\ Find(a, c) = 0 => Find((a \o <<c>>) \o b, c) = Len(a) + 1
         /\ Find((a \o <<c>>) \o b, c) \in 1 .. Len(a) + 1
<1> DEFINE o == <<c>>
           v == a \o o
           w == v \o b
<1>1. o \in Seq(S) /\ Len(o) = 1 /\ o[1] = c
  BY OneLetter
<1> HIDE DEF o
<1>2. Len(a) \in Nat /\ Len(b) \in Nat
  BY LenProperties
<1>3. v \in Seq(S) /\ Len(v) = Len(a) + 1
      /\ \A i \in 1 .. Len(a) + 1 : v[i] = IF i <= Len(a) THEN a[i] ELSE o[i - Len(a)]
  BY <1>1, ConcatProperties
<1> HIDE DEF v
<1>4. w \in Seq(S) /\ Len(w) = Len(a) + 1 + Len(b)
      /\ \A i \in 1 .. Len(v) + Len(b) : w[i] = IF i <= Len(v) THEN v[i] ELSE b[i - Len(v)]
  <2>1. /\ w \in Seq(S) /\ Len(w) = Len(v) + Len(b)
        /\ \A i \in 1 .. Len(v) + Len(b) : w[i] = IF i <= Len(v) THEN v[i] ELSE b[i - Len(v)]
    <3>1. /\ v \o b \in Seq(S) /\ Len(v \o b) = Len(v) + Len(b)
          /\ \A i \in 1 .. Len(v) + Len(b) : (v \o b)[i] = IF i <= Len(v) THEN v[i] ELSE b[i - Len(v)]
      <4>1. v \in Seq(S) /\ b \in Seq(S)
        BY <1>3
      <4> QED BY ONLY <4>1, ConcatProperties, Zenon
    <3> QED BY <3>1, Zenon
  <2> QED BY <1>2, <1>3, <2>1
<1> HIDE DEF w
<1>5. /\ \A i \in 1 .. Len(a) : w[i] = a[i]
      /\ w[Len(a) + 1] = c
      /\ \A i \in 1 .. Len(b) : w[i + Len(a) + 1] = b[i]
  <2>1. ASSUME NEW i \in 1 .. Len(a) PROVE w[i] = a[i]
    BY <1>2, <1>3, <1>4
  <2>2. w[Len(a) + 1] = c
    BY <1>1, <1>2, <1>3, <1>4
  <2>3. ASSUME NEW i \in 1 .. Len(b) PROVE w[i + Len(a) + 1] = b[i]
    <3>1. /\ i + Len(a) + 1 \in 1 .. Len(v) + Len(b) /\ ~(i + Len(a) + 1 <= Len(v))
          /\ i + Len(a) + 1 - Len(v) = i
      BY <1>2, <1>3
    <3> QED BY <1>4, <3>1
  <2> QED BY <2>1, <2>2, <2>3
<1>6. Before(w, Len(a) + 1) = a
  <2> DEFINE p == SubSeq(w, 1, Len(a))
  <2>1. Before(w, Len(a) + 1) = p
    BY <1>2 DEF Before
  <2>2. \A i \in 1 .. Len(a) : w[i] \in S
    BY <1>2, <1>4, ElementOfSeq
  <2>3. p \in Seq(S) /\ Len(p) = Len(a) /\ \A i \in 1 .. Len(a) : p[i] = w[i]
    BY <1>2, <2>2, SubSeqProperties
  <2> HIDE DEF p
  <2>4. p = a
    BY <1>5, <2>3, SeqEqual
  <2> QED BY <2>1, <2>4
<1>7. Behind(w, Len(a) + 1) = b
  <2> DEFINE p == SubSeq(w, Len(a) + 1 + 1, Len(w))
  <2>1. Behind(w, Len(a) + 1) = p
    BY DEF Behind
  <2>2. \A i \in Len(a) + 1 + 1 .. Len(w) : w[i] \in S
    BY <1>2, <1>4, ElementOfSeq
  <2>3. p \in Seq(S) /\ Len(p) = Len(b) /\ \A i \in 1 .. Len(b) : p[i] = w[Len(a) + 1 + 1 + i - 1]
    <3>1. Len(a) + 1 + 1 \in Int /\ Len(w) \in Int
          /\ Len(w) - (Len(a) + 1 + 1) + 1 = Len(b)
          /\ (IF Len(a) + 1 + 1 <= Len(w) THEN Len(w) - (Len(a) + 1 + 1) + 1 ELSE 0) = Len(b)
      BY <1>2, <1>4
    <3> QED BY <2>2, <3>1, SubSeqProperties
  <2> HIDE DEF p
  <2>4. \A i \in 1 .. Len(b) : p[i] = b[i]
    <3>1. \A i \in 1 .. Len(b) : Len(a) + 1 + 1 + i - 1 = i + Len(a) + 1
      BY <1>2
    <3> QED BY <1>5, <2>3, <3>1
  <2>5. p = b
    BY <2>3, <2>4, SeqEqual
  <2> QED BY <2>1, <2>5
<1>8. ASSUME Find(a, c) = 0 PROVE Find(w, c) = Len(a) + 1
  <2>1. \A i \in 1 .. Len(a) : a[i] # c
    BY <1>8, NotFound
  <2> DEFINE k == Len(a) + 1
  <2>2. k \in 1 .. Len(w) /\ w[k] = c /\ \A i \in 1 .. k - 1 : w[i] # c
    <3>1. k \in 1 .. Len(w) /\ 1 .. k - 1 = 1 .. Len(a)
      BY <1>2, <1>4
    <3>2. \A i \in 1 .. Len(a) : w[i] # c
      BY <1>5, <2>1
    <3> QED BY <1>5, <3>1, <3>2
  <2> HIDE DEF k
  <2>3. Find(w, c) = k
    BY <1>4, <2>2, FoundAt
  <2> QED BY <2>3 DEF k
<1>9. Find(w, c) \in 1 .. Len(a) + 1
  <2> DEFINE k == Len(a) + 1
  <2>1. k \in 1 .. Len(w) /\ w[k] = c
    BY <1>2, <1>4, <1>5
  <2> HIDE DEF k
  <2>2. Find(w, c) \in 0 .. Len(w) /\ Find(w, c) # 0 /\ Find(w, c) <= k
    BY <1>4, <2>1, FindFacts
  <2>3. Find(w, c) \in 1 .. k
    BY <1>2, <1>4, <2>2 DEF k
  <2> QED BY <2>3 DEF k
<1> QED BY <1>4, <1>6, <1>7, <1>8, <1>9 DEF o, v, w

\* A string is what is before one of its letters, the letter, and what is behind it.
LEMMA Joined ==
  ASSUME NEW S, NEW s \in Seq(S), NEW k \in 1 .. Len(s)
  PROVE  /\ Before(s, k) \in Seq(S)
         /\ Behind(s, k) \in Seq(S)
         /\ s = (Before(s, k) \o <<s[k]>>) \o Behind(s, k)
         /\ Behind(s, k) = <<>> <=> k = Len(s)
<1>1. Len(s) \in Nat /\ k \in Nat /\ 1 <= k /\ k <= Len(s)
  BY LenProperties
<1>2. \A i \in 1 .. Len(s) : s[i] \in S
  BY ElementOfSeq
<1>3. /\ Before(s, k) \in Seq(S)
      /\ Before(s, k) = SubSeq(s, 1, k - 1)
  <2>1. \A i \in 1 .. k - 1 : s[i] \in S
    BY <1>1, <1>2
  <2> QED BY <1>1, <2>1, SubSeqProperties DEF Before
<1>4. /\ Behind(s, k) \in Seq(S)
      /\ Len(Behind(s, k)) = Len(s) - k
  <2>1. \A i \in k + 1 .. Len(s) : s[i] \in S
    BY <1>1, <1>2
  <2> DEFINE t == SubSeq(s, k + 1, Len(s))
  <2>2. t \in Seq(S) /\ Len(t) = IF k + 1 <= Len(s) THEN Len(s) - (k + 1) + 1 ELSE 0
    BY <1>1, <2>1, SubSeqProperties
  <2> HIDE DEF t
  <2>3. Len(t) = Len(s) - k
    BY <1>1, <2>2
  <2> QED BY <2>2, <2>3 DEF Behind, t
<1>5. SubSeq(s, 1, k) = SubSeq(s, 1, k - 1) \o <<s[k]>>
  <2>1. 1 \in 1 .. Len(s) /\ k \in 1 .. Len(s)
    BY <1>1
  <2> QED BY <2>1, SubSeqRecursiveSecond
<1>6. SubSeq(s, 1, k) \o SubSeq(s, k + 1, Len(s)) = SubSeq(s, 1, Len(s))
  <2>1. 1 \in 1 .. Len(s) + 1 /\ k \in 1 - 1 .. Len(s) /\ Len(s) \in k .. Len(s)
    BY <1>1
  <2> QED BY <2>1, ConcatAdjacentSubSeq
<1>7. SubSeq(s, 1, Len(s)) = s
  BY SubSeqFull
<1>8. s = (Before(s, k) \o <<s[k]>>) \o Behind(s, k)
  BY <1>3, <1>5, <1>6, <1>7, Zenon DEF Behind
<1>9. Behind(s, k) = <<>> <=> k = Len(s)
  BY <1>1, <1>4, EmptySeq
<1> QED BY <1>3, <1>4, <1>8, <1>9

\* Concatenation, as an operator of its own: the provers regroup it by name.
Cat(a, b) == a \o b

LEMMA CatIs ==
  ASSUME NEW S, NEW a \in Seq(S), NEW b \in Seq(S)
  PROVE  Cat(a, b) \in Seq(S) /\ Len(Cat(a, b)) = Len(a) + Len(b)
BY ConcatProperties DEF Cat

LEMMA CatAssoc ==
  ASSUME NEW S, NEW a \in Seq(S), NEW b \in Seq(S), NEW c \in Seq(S)
  PROVE  Cat(Cat(a, b), c) = Cat(a, Cat(b, c))
BY ConcatAssociative DEF Cat

LEMMA CatEmpty ==
  ASSUME NEW S, NEW a \in Seq(S)
  PROVE  Cat(a, <<>>) = a /\ Cat(<<>>, a) = a
BY ConcatEmptySeq DEF Cat

LEMMA CutCat ==
  ASSUME NEW S, NEW a \in Seq(S), NEW b \in Seq(S), NEW c \in S
  PROVE  /\ Cat(Cat(a, <<c>>), b) \in Seq(S)
         /\ Before(Cat(Cat(a, <<c>>), b), Len(a) + 1) = a
         /\ Behind(Cat(Cat(a, <<c>>), b), Len(a) + 1) = b
         /\ Find(a, c) = 0 => Find(Cat(Cat(a, <<c>>), b), c) = Len(a) + 1
         /\ Find(Cat(Cat(a, <<c>>), b), c) \in 1 .. Len(a) + 1
         /\ Len(Cat(Cat(a, <<c>>), b)) = Len(a) + 1 + Len(b)
BY Cut DEF Cat

LEMMA JoinedCat ==
  ASSUME NEW S, NEW s \in Seq(S), NEW c, Find(s, c) # 0
  PROVE  /\ Before(s, Find(s, c)) \in Seq(S)
         /\ Behind(s, Find(s, c)) \in Seq(S)
         /\ s = Cat(Cat(Before(s, Find(s, c)), <<c>>), Behind(s, Find(s, c)))
         /\ Behind(s, Find(s, c)) = <<>> <=> Find(s, c) = Len(s)
<1>1. Find(s, c) \in 1 .. Len(s) /\ s[Find(s, c)] = c
  BY FindFacts, LenProperties
<1> QED BY <1>1, Joined DEF Cat

------------------------------------------------------------------------------
(* Addresses.                                                              *)

Addresses == [user : Seq(Letters), server : Seq(Letters), pref : Seq(Letters),
              id : Seq(Letters), pass : Seq(Letters)]

\* The separators, by name.
Low == "_"
At == "@"
Slash == "/"

LEMMA Separators ==
  /\ Low \in Letters /\ At \in Letters /\ Slash \in Letters
  /\ <<Low>> \in Seq(Letters) /\ <<At>> \in Seq(Letters) /\ <<Slash>> \in Seq(Letters)
  /\ <<>> \in Seq(Letters)
  /\ Guest \in Seq(Letters) /\ Unit \in Seq(Letters)
<1>1. Low \in Letters /\ At \in Letters /\ Slash \in Letters
  BY LettersAssumption DEF Low, At, Slash
<1>2. Guest \in Seq(Letters) /\ Unit \in Seq(Letters)
  BY StringsAssumption DEF Guest, Unit
<1> QED BY <1>1, <1>2, OneLetter, EmptySeq

\* The definitions of XJid, with Cat and the separators' names.
LEMMA ResourceDef ==
  ASSUME NEW j
  PROVE  Resource(j) =
           CASE j.pass # <<>>                 -> Cat(Cat(Cat(Cat(j.pref, <<Low>>), j.id), <<Low>>), j.pass)
             [] j.pass = <<>> /\ j.id # <<>>  -> Cat(Cat(j.pref, <<Low>>), j.id)
             [] j.pass = <<>> /\ j.id = <<>>  -> j.pref
BY Zenon DEF Resource, Cat, Low

LEMMA SplitDef ==
  ASSUME NEW r, NEW one, NEW t, NEW two,
         one = Find(r, Low), t = Behind(r, one), two = Find(t, Low)
  PROVE  Split(r) = [pref |-> Before(r, one),
                     id   |-> IF one = 0 THEN <<>> ELSE Before(t, two),
                     pass |-> IF one = 0 \/ two = 0 THEN <<>> ELSE Behind(t, two)]
BY Zenon DEF Split, Low

\* A resource is a string: the prefix, and what follows it, which begins with a "_".
LEMMA ResourceIs ==
  ASSUME NEW j \in Addresses
  PROVE  /\ Resource(j) \in Seq(Letters)
         /\ j.pass # <<>> =>
              Resource(j) = Cat(Cat(j.pref, <<Low>>), Cat(Cat(j.id, <<Low>>), j.pass))
         /\ j.pass = <<>> /\ j.id # <<>> => Resource(j) = Cat(Cat(j.pref, <<Low>>), j.id)
         /\ j.pass = <<>> /\ j.id = <<>> => Resource(j) = j.pref
<1>1. j.pref \in Seq(Letters) /\ j.id \in Seq(Letters) /\ j.pass \in Seq(Letters)
  BY DEF Addresses
<1> DEFINE low == <<Low>>
           x == Cat(j.pref, low)
           y == Cat(j.id, low)
<1>2. low \in Seq(Letters)
  BY Separators
<1> HIDE DEF low
<1>3. x \in Seq(Letters) /\ Cat(x, j.id) \in Seq(Letters)
  BY <1>1, <1>2, CatIs
<1>4. Cat(Cat(x, j.id), low) = Cat(x, y) /\ y \in Seq(Letters)
  <2>1. y \in Seq(Letters)
    BY <1>1, <1>2, CatIs
  <2>2. Cat(Cat(x, j.id), low) = Cat(x, Cat(j.id, low))
    <3> HIDE DEF x
    <3> QED BY <1>1, <1>2, <1>3, CatAssoc
  <2> QED BY <2>1, <2>2
<1>5. Cat(Cat(x, y), j.pass) = Cat(x, Cat(y, j.pass)) /\ Cat(Cat(x, y), j.pass) \in Seq(Letters)
  <2> HIDE DEF x, y
  <2>1. Cat(x, y) \in Seq(Letters)
    BY <1>3, <1>4, CatIs
  <2>2. Cat(Cat(x, y), j.pass) \in Seq(Letters)
    BY <1>1, <2>1, CatIs
  <2>3. Cat(Cat(x, y), j.pass) = Cat(x, Cat(y, j.pass))
    BY <1>1, <1>3, <1>4, CatAssoc
  <2> QED BY <2>2, <2>3
<1>6. /\ j.pass # <<>> => Resource(j) = Cat(Cat(Cat(x, j.id), low), j.pass)
      /\ j.pass = <<>> /\ j.id # <<>> => Resource(j) = Cat(x, j.id)
      /\ j.pass = <<>> /\ j.id = <<>> => Resource(j) = j.pref
  BY ResourceDef, Zenon DEF low
<1> QED BY <1>1, <1>3, <1>4, <1>5, <1>6, Zenon DEF low

\* A resource whose prefix has no "_" is split at the first two.
LEMMA SplitIs ==
  ASSUME NEW a \in Seq(Letters), NEW t \in Seq(Letters), Find(a, Low) = 0
  PROVE  /\ Split(Cat(Cat(a, <<Low>>), t)).pref = a
         /\ Split(Cat(Cat(a, <<Low>>), t)).id = Before(t, Find(t, Low))
         /\ Split(Cat(Cat(a, <<Low>>), t)).pass =
              IF Find(t, Low) = 0 THEN <<>> ELSE Behind(t, Find(t, Low))
<1> DEFINE r == Cat(Cat(a, <<Low>>), t)
<1>1. Find(r, Low) = Len(a) + 1 /\ Before(r, Len(a) + 1) = a /\ Behind(r, Len(a) + 1) = t
  BY CutCat, Separators
<1> HIDE DEF r
<1>2. Find(r, Low) # 0
  BY <1>1, LenProperties
<1>3. Split(r) = [pref |-> a, id |-> Before(t, Find(t, Low)),
                  pass |-> IF Find(t, Low) = 0 THEN <<>> ELSE Behind(t, Find(t, Low))]
  <2>1. Split(r) = [pref |-> Before(r, Find(r, Low)),
                    id   |-> IF Find(r, Low) = 0 THEN <<>> ELSE Before(t, Find(t, Low)),
                    pass |-> IF Find(r, Low) = 0 \/ Find(t, Low) = 0 THEN <<>>
                             ELSE Behind(t, Find(t, Low))]
    <3>1. t = Behind(r, Find(r, Low))
      BY <1>1
    <3> QED BY <3>1, SplitDef, Zenon
  <2> QED BY <1>1, <1>2, <2>1
<1> QED BY <1>3 DEF r

LEMMA SplitWhole ==
  ASSUME NEW a, Find(a, Low) = 0
  PROVE  Split(a).pref = a /\ Split(a).id = <<>> /\ Split(a).pass = <<>>
<1>1. Split(a) = [pref |-> Before(a, 0), id |-> <<>>, pass |-> <<>>]
  BY SplitDef
<1> QED BY <1>1 DEF Before

\* An ID and a password, joined and split again.
LEMMA Halves ==
  ASSUME NEW id \in Seq(Letters), NEW pass \in Seq(Letters), pass # <<>>,
         NEW t, t = Cat(Cat(id, <<Low>>), pass),
         NEW x, x = Before(t, Find(t, Low)),
         NEW y, y = Behind(t, Find(t, Low))
  PROVE  /\ t \in Seq(Letters) /\ Find(t, Low) # 0
         /\ x \in Seq(Letters) /\ y \in Seq(Letters) /\ y # <<>>
         /\ t = Cat(Cat(x, <<Low>>), y)
         /\ Find(id, Low) = 0 => x = id /\ y = pass
<1>1. Low \in Letters
  BY Separators
<1>2. t \in Seq(Letters)
  BY <1>1, CutCat
<1>3. Find(t, Low) \in 1 .. Len(id) + 1
  BY <1>1, CutCat
<1>4. Len(t) = Len(id) + 1 + Len(pass)
  BY <1>1, CutCat
<1>5. Len(id) \in Nat /\ Len(pass) \in Nat \ {0}
  BY EmptySeq, LenProperties
<1>6. Find(t, Low) # 0 /\ Find(t, Low) # Len(t)
  BY <1>3, <1>4, <1>5
<1>7. x \in Seq(Letters) /\ y \in Seq(Letters) /\ y # <<>> /\ t = Cat(Cat(x, <<Low>>), y)
  BY <1>2, <1>6, JoinedCat
<1>8. ASSUME Find(id, Low) = 0 PROVE x = id /\ y = pass
  <2>1. Find(t, Low) = Len(id) + 1
    BY <1>1, <1>8, CutCat
  <2>2. Before(t, Len(id) + 1) = id /\ Behind(t, Len(id) + 1) = pass
    BY <1>1, CutCat
  <2> QED BY <2>1, <2>2
<1> QED BY <1>2, <1>6, <1>7, <1>8

\* The parts that a resource is split into, if its prefix has no "_".  They are the
\* address's own if its ID has no "_" either; and they make the same resource again,
\* under any prefix, unless the ID is fragile.
LEMMA SplitResource ==
  ASSUME NEW j \in Addresses, Find(j.pref, Low) = 0,
         NEW p, p = Split(Resource(j))
  PROVE  /\ p.pref = j.pref /\ p.id \in Seq(Letters) /\ p.pass \in Seq(Letters)
         /\ Find(j.id, Low) = 0 => p.id = j.id /\ p.pass = j.pass
         /\ ~Fragile(j) =>
              \A k, m \in Addresses :
                k.id = p.id /\ k.pass = p.pass /\ m.pref = k.pref /\ m.id = j.id /\ m.pass = j.pass
                  => Resource(k) = Resource(m)
<1>1. j.pref \in Seq(Letters) /\ j.id \in Seq(Letters) /\ j.pass \in Seq(Letters)
  BY DEF Addresses
<1> DEFINE Again == \A k, m \in Addresses :
                      k.id = p.id /\ k.pass = p.pass /\ m.pref = k.pref /\ m.id = j.id /\ m.pass = j.pass
                        => Resource(k) = Resource(m)
<1>2. CASE j.pass # <<>>
  <2> DEFINE t == Cat(Cat(j.id, <<Low>>), j.pass)
             two == Find(t, Low)
  <2>2. Resource(j) = Cat(Cat(j.pref, <<Low>>), t)
    BY <1>2, ResourceIs
  <2>3. \A m \in Addresses : m.id = j.id /\ m.pass = j.pass
                               => Resource(m) = Cat(Cat(m.pref, <<Low>>), t)
    BY <1>2, ResourceIs
  <2>4. /\ t \in Seq(Letters) /\ two # 0
        /\ Before(t, two) \in Seq(Letters) /\ Behind(t, two) \in Seq(Letters) /\ Behind(t, two) # <<>>
        /\ t = Cat(Cat(Before(t, two), <<Low>>), Behind(t, two))
        /\ Find(j.id, Low) = 0 => Before(t, two) = j.id /\ Behind(t, two) = j.pass
    BY <1>1, <1>2, Halves
  <2> HIDE DEF t
  <2>5. p.pref = j.pref /\ p.id = Before(t, two) /\ p.pass = Behind(t, two)
    <3>1. p.pref = j.pref
      BY <1>1, <2>2, <2>4, SplitIs
    <3>2. p.id = Before(t, two)
      <4>1. Split(Cat(Cat(j.pref, <<Low>>), t)).id = Before(t, Find(t, Low))
        BY <2>4, <1>1, SplitIs
      <4> QED BY <2>2, <4>1
    <3>3. p.pass = Behind(t, two)
      <4>1. Split(Cat(Cat(j.pref, <<Low>>), t)).pass = IF Find(t, Low) = 0 THEN <<>> ELSE Behind(t, Find(t, Low))
        BY <2>4, <1>1, SplitIs
      <4> QED BY <2>2, <2>4, <4>1
    <3> QED BY <3>1, <3>2, <3>3
  <2>6. Again
    BY <2>3, <2>4, <2>5, ResourceIs
  <2> QED BY <2>4, <2>5, <2>6
<1>3. CASE j.pass = <<>> /\ j.id # <<>>
  <2> DEFINE two == Find(j.id, Low)
  <2>1. Resource(j) = Cat(Cat(j.pref, <<Low>>), j.id)
    BY <1>3, ResourceIs
  <2>2. \A m \in Addresses : m.id = j.id /\ m.pass = j.pass
                               => Resource(m) = Cat(Cat(m.pref, <<Low>>), j.id)
    BY <1>3, ResourceIs
  <2>3. p.pref = j.pref /\ p.id = Before(j.id, two)
        /\ p.pass = IF two = 0 THEN <<>> ELSE Behind(j.id, two)
    BY <1>1, <2>1, SplitIs
  <2>4. CASE two = 0
    <3>1. p.id = j.id /\ p.pass = <<>>
      BY <2>3, <2>4 DEF Before
    <3>2. Again
      BY <1>3, <2>2, <3>1
    <3> QED BY <1>1, <1>3, <2>3, <3>1, <3>2
  <2>5. CASE two # 0
    <3>1. /\ p.id \in Seq(Letters) /\ p.pass \in Seq(Letters)
          /\ p.pass = <<>> <=> two = Len(j.id)
          /\ j.id = Cat(Cat(p.id, <<Low>>), p.pass)
      BY <1>1, <2>3, <2>5, JoinedCat
    <3>2. ASSUME ~Fragile(j) PROVE Again
      <4>1. p.pass # <<>>
        <5>1. Fragile(j) <=> j.pass = <<>> /\ j.id # <<>> /\ Find(j.id, Low) = Len(j.id)
          BY Zenon DEF Fragile, Low
        <5> QED BY <1>3, <3>1, <3>2, <5>1
      <4> SUFFICES ASSUME NEW k \in Addresses, NEW m \in Addresses, k.id = p.id, k.pass = p.pass,
                          m.pref = k.pref, m.id = j.id, m.pass = j.pass
                   PROVE  Resource(k) = Resource(m)
        OBVIOUS
      <4>2. Resource(m) = Cat(Cat(k.pref, <<Low>>), j.id)
        BY <2>2
      <4>3. Resource(k) = Cat(Cat(k.pref, <<Low>>), Cat(Cat(k.id, <<Low>>), k.pass))
        BY <4>1, ResourceIs
      <4> QED BY <3>1, <4>2, <4>3
    <3> QED BY <2>3, <2>5, <3>1, <3>2
  <2> QED BY <2>4, <2>5
<1>4. CASE j.pass = <<>> /\ j.id = <<>>
  <2>1. Resource(j) = j.pref /\ \A m \in Addresses : m.id = <<>> /\ m.pass = <<>> => Resource(m) = m.pref
    BY <1>4, ResourceIs
  <2>2. p.pref = j.pref /\ p.id = <<>> /\ p.pass = <<>>
    BY <2>1, SplitWhole
  <2>3. Again
    BY <1>4, <2>1, <2>2
  <2> QED BY <1>1, <1>4, <2>2, <2>3
<1> QED BY <1>2, <1>3, <1>4

LEMMA JIDDef ==
  ASSUME NEW j
  PROVE  JID(j) = Cat(Cat(Cat(j.user, <<At>>), j.server),
                      IF Resource(j) = <<>> THEN <<>> ELSE Cat(<<Slash>>, Resource(j)))
BY Zenon DEF JID, Cat, At, Slash

\* The definitions of GlooxJID and Parse, with the parts as parameters.
LEMMA GlooxDef ==
  ASSUME NEW s, NEW host, NEW slash,
         host = Behind(s, Find(s, At)), slash = Find(host, Slash)
  PROVE  GlooxJID(s) = [user |-> Before(s, Find(s, At)), server |-> Before(host, slash),
                        resource |-> IF slash = 0 THEN <<>> ELSE Behind(host, slash)]
BY Zenon DEF GlooxJID, At, Slash

LEMMA ParseDef ==
  ASSUME NEW s
  PROVE  LET g == GlooxJID(s)
         IN  Parse(s) = [user |-> g.user, server |-> g.server,
                         pref |-> Split(g.resource).pref, id |-> Split(g.resource).id,
                         pass |-> Split(g.resource).pass]
BY DEF Parse, GlooxJID

LEMMA HostAlone ==
  ASSUME NEW u \in Seq(Letters), NEW v \in Seq(Letters)
  PROVE  Cat(Cat(Cat(u, <<At>>), v), <<>>) = Cat(Cat(u, <<At>>), v)
<1>1. Cat(u, <<At>>) \in Seq(Letters)
  BY Separators, CatIs
<1>2. Cat(Cat(u, <<At>>), v) \in Seq(Letters)
  BY <1>1, CatIs
<1> QED BY <1>2, CatEmpty

LEMMA Hosts ==
  ASSUME NEW u \in Seq(Letters), NEW v \in Seq(Letters), NEW R \in Seq(Letters)
  PROVE  /\ Cat(Cat(Cat(u, <<At>>), v), Cat(<<Slash>>, R))
              = Cat(Cat(u, <<At>>), Cat(Cat(v, <<Slash>>), R))
         /\ Cat(Cat(v, <<Slash>>), R) \in Seq(Letters)
<1> DEFINE x == Cat(u, <<At>>)
           o == <<Slash>>
           y == Cat(o, R)
<1>1. x \in Seq(Letters) /\ o \in Seq(Letters)
  BY Separators, CatIs
<1> HIDE DEF o, x
<1>2. y \in Seq(Letters)
  BY <1>1, CatIs
<1>3. Cat(Cat(v, o), R) = Cat(v, Cat(o, R))
  BY <1>1, CatAssoc
<1> HIDE DEF y
<1>4. Cat(v, y) \in Seq(Letters)
  BY <1>2, CatIs
<1>5. Cat(Cat(x, v), y) = Cat(x, Cat(v, y))
  BY <1>1, <1>2, CatAssoc
<1> QED BY <1>3, <1>4, <1>5 DEF x, y, o

LEMMA Taken ==
  ASSUME NEW u \in Seq(Letters), NEW c \in Letters, NEW h \in Seq(Letters),
         NEW s, s = Cat(Cat(u, <<c>>), h), Find(u, c) = 0
  PROVE  Find(s, c) # 0 /\ Before(s, Find(s, c)) = u /\ Behind(s, Find(s, c)) = h
<1>1. Find(s, c) = Len(u) + 1
  BY CutCat
<1>2. Before(s, Len(u) + 1) = u
  BY CutCat
<1>3. Behind(s, Len(u) + 1) = h
  BY CutCat
<1>4. Len(u) + 1 # 0
  BY LenProperties
<1> QED BY <1>1, <1>2, <1>3, <1>4

\* gloox takes an address apart as X_JID has put it together.
LEMMA GlooxIs ==
  ASSUME NEW j \in Addresses, Find(j.user, At) = 0, Find(j.server, Slash) = 0
  PROVE  GlooxJID(JID(j)) = [user |-> j.user, server |-> j.server, resource |-> Resource(j)]
<1> DEFINE s == JID(j)
           R == Resource(j)
<1>1. j.user \in Seq(Letters) /\ j.server \in Seq(Letters) /\ R \in Seq(Letters)
  BY ResourceIs DEF Addresses
<1>2. PICK h \in Seq(Letters) : /\ s = Cat(Cat(j.user, <<At>>), h)
                                /\ R = <<>> => h = j.server
                                /\ R # <<>> => h = Cat(Cat(j.server, <<Slash>>), R)
  <2>1. s = Cat(Cat(Cat(j.user, <<At>>), j.server), IF R = <<>> THEN <<>> ELSE Cat(<<Slash>>, R))
    BY JIDDef
  <2> HIDE DEF s, R
  <2>2. CASE R = <<>>
    <3>1. s = Cat(Cat(Cat(j.user, <<At>>), j.server), <<>>)
      BY <2>1, <2>2
    <3>2. s = Cat(Cat(j.user, <<At>>), j.server)
      BY <1>1, <2>2, <3>1, HostAlone
    <3> QED BY <1>1, <2>2, <3>2
  <2>3. CASE R # <<>>
    <3>1. s = Cat(Cat(Cat(j.user, <<At>>), j.server), Cat(<<Slash>>, R))
      BY <2>1, <2>3
    <3>2. /\ s = Cat(Cat(j.user, <<At>>), Cat(Cat(j.server, <<Slash>>), R))
          /\ Cat(Cat(j.server, <<Slash>>), R) \in Seq(Letters)
      BY <1>1, <3>1, Hosts
    <3> QED BY <2>3, <3>2
  <2> QED BY <2>2, <2>3
<1> HIDE DEF s, R
<1>3. Before(s, Find(s, At)) = j.user /\ Behind(s, Find(s, At)) = h
  BY <1>1, <1>2, Separators, Taken
<1>4. Before(h, Find(h, Slash)) = j.server
      /\ (IF Find(h, Slash) = 0 THEN <<>> ELSE Behind(h, Find(h, Slash))) = R
  <2>1. CASE R = <<>>
    BY <1>2, <2>1 DEF Before
  <2>2. CASE R # <<>>
    BY <1>1, <1>2, <2>2, Separators, Taken
  <2> QED BY <2>1, <2>2
<1>5. GlooxJID(s) = [user |-> Before(s, Find(s, At)), server |-> Before(h, Find(h, Slash)),
                     resource |-> IF Find(h, Slash) = 0 THEN <<>> ELSE Behind(h, Find(h, Slash))]
  BY <1>3, GlooxDef, Zenon
<1> QED BY <1>3, <1>4, <1>5 DEF s, R

\* An address that is written, read and written again under another prefix is the same,
\* unless its ID is fragile.
LEMMA ParseKeeps ==
  ASSUME NEW j \in Addresses, Find(j.user, At) = 0, Find(j.server, Slash) = 0,
         Find(j.pref, Low) = 0, ~Fragile(j), NEW q \in Seq(Letters)
  PROVE  JID([Parse(JID(j)) EXCEPT !.pref = q]) = JID([j EXCEPT !.pref = q])
<1> DEFINE p == Split(Resource(j))
           k == [Parse(JID(j)) EXCEPT !.pref = q]
           m == [j EXCEPT !.pref = q]
<1>1. Parse(JID(j)) = [user |-> j.user, server |-> j.server,
                       pref |-> p.pref, id |-> p.id, pass |-> p.pass]
  BY GlooxIs, ParseDef
<1>2. /\ p.pref = j.pref /\ p.id \in Seq(Letters) /\ p.pass \in Seq(Letters)
      /\ \A v, w \in Addresses :
           v.id = p.id /\ v.pass = p.pass /\ w.pref = v.pref /\ w.id = j.id /\ w.pass = j.pass
             => Resource(v) = Resource(w)
  BY SplitResource
<1> HIDE DEF p
<1>3. k \in Addresses /\ k.user = j.user /\ k.server = j.server /\ k.pref = q
      /\ k.id = p.id /\ k.pass = p.pass
  <2>1. j.user \in Seq(Letters) /\ j.server \in Seq(Letters)
    BY DEF Addresses
  <2>2. k = [user |-> j.user, server |-> j.server, pref |-> q, id |-> p.id, pass |-> p.pass]
    BY <1>1
  <2> QED BY <1>2, <2>1, <2>2 DEF Addresses
<1>4. m \in Addresses /\ m.user = j.user /\ m.server = j.server /\ m.pref = q
      /\ m.id = j.id /\ m.pass = j.pass
  BY DEF Addresses
<1> HIDE DEF k, m
<1>5. Resource(k) = Resource(m)
  BY <1>2, <1>3, <1>4
<1>6. JID(k) = JID(m)
  <2>1. JID(k) = Cat(Cat(Cat(k.user, <<At>>), k.server),
                     IF Resource(k) = <<>> THEN <<>> ELSE Cat(<<Slash>>, Resource(k)))
    BY JIDDef
  <2>2. JID(m) = Cat(Cat(Cat(m.user, <<At>>), m.server),
                     IF Resource(m) = <<>> THEN <<>> ELSE Cat(<<Slash>>, Resource(m)))
    BY JIDDef
  <2> QED BY <1>3, <1>4, <1>5, <2>1, <2>2
<1> QED BY <1>6 DEF k, m

------------------------------------------------------------------------------
(* URLs.                                                                   *)

Colon == ":"

\* Pieces of a string.
LEMMA Piece ==
  ASSUME NEW S, NEW s \in Seq(S), NEW m \in Nat \ {0}, NEW n \in 0 .. Len(s), m <= n + 1
  PROVE  /\ SubSeq(s, m, n) \in Seq(S)
         /\ Len(SubSeq(s, m, n)) = n - m + 1
         /\ \A i \in 1 .. n - m + 1 : SubSeq(s, m, n)[i] = s[m + i - 1]
<1>1. Len(s) \in Nat
  BY LenProperties
<1>2. \A i \in m .. n : s[i] \in S
  BY <1>1, ElementOfSeq
<1>3. m \in Int /\ n \in Int /\ (IF m <= n THEN n - m + 1 ELSE 0) = n - m + 1
  BY <1>1
<1> QED BY <1>2, <1>3, SubSeqProperties

LEMMA PieceOfPiece ==
  ASSUME NEW S, NEW s \in Seq(S), NEW p \in Nat \ {0}, NEW q \in 0 .. Len(s), p <= q + 1,
         NEW m \in Nat \ {0}, NEW n \in 0 .. q - p + 1, m <= n + 1
  PROVE  SubSeq(SubSeq(s, p, q), m, n) = SubSeq(s, p + m - 1, p + n - 1)
<1> DEFINE t == SubSeq(s, p, q)
           x == SubSeq(t, m, n)
           y == SubSeq(s, p + m - 1, p + n - 1)
<1>1. Len(s) \in Nat
  BY LenProperties
<1>2. t \in Seq(S) /\ Len(t) = q - p + 1 /\ \A i \in 1 .. q - p + 1 : t[i] = s[p + i - 1]
  BY Piece
<1> HIDE DEF t
<1>3. x \in Seq(S) /\ Len(x) = n - m + 1 /\ \A i \in 1 .. n - m + 1 : x[i] = t[m + i - 1]
  <2>1. n \in 0 .. Len(t)
    BY <1>2
  <2> QED BY <1>2, <2>1, Piece
<1>4. /\ y \in Seq(S) /\ Len(y) = n - m + 1
      /\ \A i \in 1 .. n - m + 1 : y[i] = s[p + m - 1 + i - 1]
  <2> DEFINE u == p + m - 1
             v == p + n - 1
  <2>1. u \in Nat \ {0} /\ v \in 0 .. Len(s) /\ u <= v + 1 /\ v - u + 1 = n - m + 1
    BY <1>1
  <2>2. y = SubSeq(s, u, v)
    OBVIOUS
  <2> HIDE DEF u, v, y
  <2>3. y \in Seq(S) /\ Len(y) = v - u + 1 /\ \A i \in 1 .. v - u + 1 : y[i] = s[u + i - 1]
    BY <2>1, <2>2, Piece
  <2> QED BY <2>1, <2>3 DEF u
<1> HIDE DEF x, y
<1>5. ASSUME NEW i \in 1 .. n - m + 1 PROVE x[i] = y[i]
  <2>1. m + i - 1 \in 1 .. q - p + 1 /\ p + (m + i - 1) - 1 = p + m - 1 + i - 1
    BY <1>1
  <2> QED BY <1>2, <1>3, <1>4, <2>1
<1>6. x = y
  BY <1>3, <1>4, <1>5, SeqEqual
<1> QED BY <1>6 DEF x, y, t

LEMMA FirstSlashes ==
  ASSUME NEW u \in Seq(Letters), NEW a \in Nat, a + 2 <= Len(u),
         u[a + 1] = Slash, u[a + 2] = Slash, \A i \in 1 .. a : u[i] # Slash
  PROVE  FindSlashes(u) = a
<1> DEFINE I == {i \in 1 .. Len(u) - 1 : u[i] = Slash /\ u[i + 1] = Slash}
           k == CHOOSE i \in I : \A j \in I : i <= j
<1>1. Len(u) \in Nat
  BY LenProperties
<1>2. a + 1 \in I
  <2>1. a + 1 \in 1 .. Len(u) - 1 /\ a + 1 + 1 = a + 2
    BY <1>1
  <2> QED BY <2>1
<1>3. \A j \in I : j \in Nat /\ a + 1 <= j
  BY <1>1
<1>4. k = a + 1
  <2> HIDE DEF I
  <2>1. k \in I /\ \A j \in I : k <= j
    BY <1>2, <1>3
  <2>2. k <= a + 1 /\ a + 1 <= k /\ k \in Nat
    BY <1>2, <1>3, <2>1
  <2> HIDE DEF k
  <2> QED BY <2>2
<1>5. FindSlashes(u) = k - 1
  <2>1. FindSlashes(u) = IF I = {} THEN 0 - 1 ELSE k - 1
    BY Zenon DEF FindSlashes, Slash
  <2> HIDE DEF k, I
  <2> QED BY <1>2, <2>1
<1> HIDE DEF k
<1> QED BY <1>4, <1>5

\* All of a number is read.
LEMMA AtoiOfDigits ==
  ASSUME NEW s, \A i \in 1 .. Len(s) : s[i] \in Digits
  PROVE  Atoi(s) = s
BY DEF Atoi

LEMMA PieceBehind ==
  ASSUME NEW S, NEW s \in Seq(S), NEW k \in Nat, NEW n \in Nat, k <= n, n <= Len(s),
         NEW m \in Int, m = k + 1, NEW x, x = SubSeq(s, m, n)
  PROVE  x \in Seq(S) /\ Len(x) = n - k /\ \A i \in 1 .. n - k : x[i] = s[k + i]
<1>1. m \in Nat \ {0} /\ n \in 0 .. Len(s) /\ m <= n + 1 /\ n - m + 1 = n - k
  BY LenProperties
<1>2. x \in Seq(S) /\ Len(x) = n - m + 1 /\ \A i \in 1 .. n - m + 1 : x[i] = s[m + i - 1]
  BY <1>1, Piece
<1>3. \A i \in 1 .. n - k : m + i - 1 = k + i
  OBVIOUS
<1> QED BY <1>1, <1>2, <1>3

\* XUrl takes the parts of a URL that is one.
LEMMA UrlTaken ==
  ASSUME NEW u \in Seq(Letters), NEW n \in Nat, n = Len(u),
         NEW a \in 0 .. n, NEW b \in 0 .. n, NEW c \in 0 .. n,
         a + 2 <= b, b <= c, u[a + 1] = Slash, u[a + 2] = Slash,
         IsUrl(SubSeq(u, 1, a), SubSeq(u, a + 3, b), SubSeq(u, b + 1, c), SubSeq(u, c + 1, n))
  PROVE  XUrl(u) = [ip |-> SubSeq(u, a + 3, b), path |-> SubSeq(u, c + 1, n),
                    port |-> IF SubSeq(u, b + 1, c) = <<>> THEN <<"80">>
                             ELSE Tail(SubSeq(u, b + 1, c))]
<1> DEFINE scheme == SubSeq(u, 1, a)
           host == SubSeq(u, a + 3, b)
           port == SubSeq(u, b + 1, c)
           path == SubSeq(u, c + 1, n)
<1>0. XUrl(u) = [ip |-> host, path |-> path, port |-> IF port = <<>> THEN <<"80">> ELSE Tail(port)]
  <2>1. a \in Nat /\ b \in Nat /\ c \in Nat /\ c <= n /\ b <= n /\ a <= n
    OBVIOUS
  <2>2. /\ Find(scheme, Slash) = 0
        /\ host # <<>> /\ Find(host, Slash) = 0 /\ Find(host, Colon) = 0
        /\ port # <<>> => Head(port) = Colon /\ Tail(port) # <<>>
                          /\ \A i \in 2 .. Len(port) : port[i] \in Digits
        /\ path # <<>> /\ Head(path) = Slash
    BY Zenon DEF IsUrl, Slash, Colon
  <2> HIDE DEF scheme
  <2>3. scheme \in Seq(Letters) /\ Len(scheme) = a /\ \A i \in 1 .. a : scheme[i] = u[i]
    <3>1. a \in 0 .. Len(u) /\ 1 \in Nat \ {0} /\ 1 <= a + 1
      BY <2>1
    <3>2. SubSeq(u, 1, a) \in Seq(Letters)
      BY <3>1, Piece
    <3>3. Len(SubSeq(u, 1, a)) = a - 1 + 1
      BY <3>1, Piece
    <3>4. \A i \in 1 .. a - 1 + 1 : SubSeq(u, 1, a)[i] = u[1 + i - 1]
      BY <3>1, Piece
    <3>5. a - 1 + 1 = a /\ \A i \in 1 .. a : 1 + i - 1 = i
      BY <2>1
    <3>6. scheme = SubSeq(u, 1, a)
      BY DEF scheme
    <3> QED BY <3>2, <3>3, <3>4, <3>5, <3>6
  <2>4. /\ host \in Seq(Letters) /\ Len(host) = b - (a + 2)
        /\ \A i \in 1 .. b - (a + 2) : host[i] = u[(a + 2) + i]
    <3> DEFINE k == a + 2
               m == a + 3
    <3>1. k \in Nat /\ k <= b /\ m \in Int /\ m = k + 1
      BY <2>1
    <3>2. host = SubSeq(u, m, b)
      OBVIOUS
    <3> HIDE DEF k, m
    <3>3. host \in Seq(Letters) /\ Len(host) = b - k /\ \A i \in 1 .. b - k : host[i] = u[k + i]
      BY <2>1, <3>1, <3>2, PieceBehind
    <3> QED BY <3>3 DEF k
  <2>5. port \in Seq(Letters) /\ Len(port) = c - b /\ \A i \in 1 .. c - b : port[i] = u[b + i]
    BY <2>1, PieceBehind
  <2>6. path \in Seq(Letters) /\ Len(path) = n - c /\ \A i \in 1 .. n - c : path[i] = u[c + i]
    BY <2>1, PieceBehind
  <2> HIDE DEF host, port, path
  <2>7. a + 2 < b /\ c < n /\ u[c + 1] = Slash
    <3>1. Len(host) # 0 /\ Len(path) # 0
      BY <2>2, <2>4, <2>6, EmptySeq
    <3>2. a + 2 < b /\ c < n
      BY <2>1, <2>4, <2>6, <3>1
    <3>3. Head(path) = path[1] /\ path[1] = u[c + 1]
      BY <2>1, <2>2, <2>6, <3>2
    <3> QED BY <2>2, <3>2, <3>3
  <2>8. FindSlashes(u) = a
    <3>1. \A i \in 1 .. a : u[i] # Slash
      BY <2>2, <2>3, NotFound
    <3>2. a + 2 <= Len(u)
      BY <2>1
    <3> QED BY <2>1, <3>1, <3>2, FirstSlashes
  <2> DEFINE k == a + 2
             m == a + 3
             rest == SubSeq(u, m, n)
             slash == c - a - 1
             h == SubSeq(u, m, c)
  <2>9. k \in Nat /\ m \in Nat \ {0} /\ m = k + 1 /\ k < b /\ k < c /\ k <= n /\ slash = c - k + 1
    BY <2>1, <2>7
  <2>10. rest \in Seq(Letters) /\ Len(rest) = n - k /\ \A i \in 1 .. n - k : rest[i] = u[k + i]
    BY <2>1, <2>9, PieceBehind
  <2>11. h \in Seq(Letters) /\ Len(h) = c - k /\ \A i \in 1 .. c - k : h[i] = u[k + i]
    BY <2>1, <2>9, PieceBehind
  <2>12. /\ Before(rest, slash) = h
         /\ Behind(rest, slash - 1) = path
    <3>1. slash # 0 /\ slash - 1 = c - k /\ c - k \in 0 .. n - m + 1
          /\ Len(rest) = n - m + 1 /\ m \in Nat \ {0} /\ n \in 0 .. Len(u) /\ m <= n + 1
      BY <2>1, <2>7, <2>9, <2>10
    <3>2. SubSeq(rest, 1, c - k) = SubSeq(u, m + 1 - 1, m + (c - k) - 1)
      <4> DEFINE v == c - k
      <4>1. 1 \in Nat \ {0} /\ 1 <= v + 1 /\ v \in 0 .. n - m + 1
        BY <2>1, <2>9, <3>1
      <4> HIDE DEF v
      <4>2. SubSeq(rest, 1, v) = SubSeq(u, m + 1 - 1, m + v - 1)
        BY <3>1, <4>1, PieceOfPiece
      <4> QED BY <4>2 DEF v
    <3>3. SubSeq(rest, c - k + 1, n - m + 1) = SubSeq(u, m + (c - k + 1) - 1, m + (n - m + 1) - 1)
      <4> DEFINE v == c - k + 1
                 w == n - m + 1
      <4>1. v \in Nat \ {0} /\ w \in 0 .. n - m + 1 /\ v <= w + 1
        BY <2>1, <2>9
      <4> HIDE DEF v, w
      <4>2. SubSeq(rest, v, w) = SubSeq(u, m + v - 1, m + w - 1)
        BY <3>1, <4>1, PieceOfPiece
      <4> QED BY <4>2 DEF v, w
    <3>4. /\ m + 1 - 1 = m /\ m + (c - k) - 1 = c
          /\ m + (c - k + 1) - 1 = c + 1 /\ m + (n - m + 1) - 1 = n
      BY <2>1, <2>9
    <3>5. Before(rest, slash) = SubSeq(rest, 1, c - k)
      BY <3>1 DEF Before
    <3>6. Behind(rest, slash - 1) = SubSeq(rest, c - k + 1, n - m + 1)
      BY <3>1 DEF Behind
    <3> QED BY <3>2, <3>3, <3>4, <3>5, <3>6 DEF path
  <2> HIDE DEF k, m, rest, h
  <2>13. \A i \in k + 1 .. b : u[i] # Slash /\ u[i] # Colon
    <3>1. ASSUME NEW i \in k + 1 .. b PROVE u[i] # Slash /\ u[i] # Colon
      <4> DEFINE j == i - k
      <4>1. j \in 1 .. b - k /\ k + j = i
        BY <2>1, <2>9
      <4> HIDE DEF j
      <4>2. host[j] = u[i] /\ j \in 1 .. Len(host)
        BY <2>4, <4>1 DEF k
      <4> QED BY <2>2, <2>4, <4>2, NotFound
    <3> QED BY <3>1
  <2>14. ASSUME b < c
         PROVE  u[b + 1] = Colon /\ \A i \in b + 2 .. c : u[i] \in Digits
    <3>1. Len(port) # 0 /\ Len(port) = c - b
      BY <2>1, <2>5, <2>14
    <3>2. port # <<>>
      BY <2>5, <3>1, EmptySeq
    <3>3. u[b + 1] = Colon
      BY <2>1, <2>2, <2>5, <2>14, <3>2
    <3>4. ASSUME NEW i \in b + 2 .. c PROVE u[i] \in Digits
      <4> DEFINE j == i - b
      <4>1. j \in 2 .. Len(port) /\ j \in 1 .. c - b /\ b + j = i
        BY <2>1, <3>1
      <4> HIDE DEF j
      <4> QED BY <2>2, <2>5, <3>2, <4>1
    <3> QED BY <3>3, <3>4
  <2>15. Colon # Slash /\ Slash \notin Digits
    BY DigitsAssumption DEF Colon, Slash
  <2>16. \A i \in k + 1 .. c : u[i] # Slash
    <3>1. ASSUME NEW i \in k + 1 .. c PROVE u[i] # Slash
      <4>1. i \in k + 1 .. b \/ (b < c /\ i = b + 1) \/ (b < c /\ i \in b + 2 .. c)
        BY <2>1, <2>9
      <4> QED BY <2>13, <2>14, <2>15, <4>1
    <3> QED BY <3>1
  <2>17. Find(rest, Slash) = slash
    <3>1. slash \in 1 .. Len(rest) /\ slash \in 1 .. n - k /\ k + slash = c + 1
      BY <2>1, <2>7, <2>9, <2>10
    <3>2. \A i \in 1 .. slash - 1 : i \in 1 .. n - k /\ k + i \in k + 1 .. c
      BY <2>1, <2>7, <2>9
    <3> HIDE DEF slash
    <3>3. rest[slash] = Slash
      BY <2>7, <2>10, <3>1
    <3>4. \A i \in 1 .. slash - 1 : rest[i] # Slash
      BY <2>10, <2>16, <3>2
    <3> QED BY <2>10, <3>1, <3>3, <3>4, FoundAt
  <2> DEFINE colon == Find(h, Colon)
  <2>18. XUrl(u) = [ip |-> IF colon > 1 THEN Before(h, colon) ELSE h, path |-> path,
                    port |-> IF colon > 1 THEN Atoi(Behind(h, colon)) ELSE <<"80">>]
    <3> DEFINE start == FindSlashes(u) + 2
               rest2 == SubSeq(u, start + 1, Len(u))
               slash2 == Find(rest2, Slash)
               h2 == Before(rest2, slash2)
               colon2 == Find(h2, Colon)
    <3>1. start + 1 = m /\ ~(start > Len(u)) /\ slash # 0
      BY <2>1, <2>7, <2>8, <2>9
    <3>2. rest2 = rest
      BY <3>1 DEF rest
    <3>3. slash2 = slash
      BY <2>17, <3>2
    <3>4. h2 = h
      BY <2>12, <3>2, <3>3
    <3>5. ~(start > Len(u)) /\ slash2 # 0
      BY <3>1, <3>3
    <3>6. XUrl(u) = [ip |-> IF colon2 > 1 THEN Before(h2, colon2) ELSE h2,
                     path |-> Behind(rest2, slash2 - 1),
                     port |-> IF colon2 > 1 THEN Atoi(Behind(h2, colon2)) ELSE <<"80">>]
      BY ONLY <3>5, Zenon DEF XUrl, Slash, Colon
    <3>7. colon2 = colon
      BY <3>4
    <3> HIDE DEF start, rest2, slash2, h2, colon2, colon, slash
    <3>8. Behind(rest2, slash2 - 1) = path
      BY <2>12, <3>2, <3>3
    <3> QED BY <3>4, <3>6, <3>7, <3>8
  <2>19. CASE b = c
    <3>1. port = <<>> /\ h = host
      <4>1. Len(port) = 0
        BY <2>1, <2>5, <2>19
      <4>2. h = host
        BY <2>19 DEF h, host, m
      <4> QED BY <2>5, <4>1, <4>2, EmptySeq
    <3>2. colon = 0
      BY <2>2, <3>1
    <3> HIDE DEF colon
    <3>3. ~(colon > 1)
      BY <3>2
    <3> QED BY <2>18, <3>1, <3>3
  <2>20. CASE b < c
    <3>1. colon = b - k + 1
      <4> DEFINE j == b - k + 1
      <4>1. j \in 1 .. Len(h) /\ j \in 1 .. c - k /\ k + j = b + 1
        BY <2>1, <2>9, <2>11, <2>20
      <4>2. \A i \in 1 .. j - 1 : i \in 1 .. c - k /\ k + i \in k + 1 .. b
        BY <2>1, <2>9
      <4> HIDE DEF j
      <4>3. h[j] = Colon
        BY <2>11, <2>14, <2>20, <4>1
      <4>4. \A i \in 1 .. j - 1 : h[i] # Colon
        BY <2>11, <2>13, <4>2
      <4>5. Find(h, Colon) = j
        BY <2>11, <4>1, <4>3, <4>4, FoundAt
      <4> QED BY <4>5 DEF j
    <3>2. colon > 1 /\ colon # 0 /\ colon - 1 = b - k
      BY <2>1, <2>9, <3>1
    <3> HIDE DEF colon
    <3>3. m \in Nat \ {0} /\ c \in 0 .. Len(u) /\ m <= c + 1 /\ c - m + 1 = c - k
      BY <2>1, <2>9
    <3>4. Before(h, colon) = host
      <4>1. 1 \in Nat \ {0} /\ b - k \in 0 .. c - m + 1 /\ 1 <= b - k + 1
        BY <2>1, <2>9, <2>20
      <4>2. SubSeq(SubSeq(u, m, c), 1, b - k) = SubSeq(u, m + 1 - 1, m + (b - k) - 1)
        <5> DEFINE v == b - k
        <5>1. v \in 0 .. c - m + 1 /\ 1 <= v + 1
          BY <4>1
        <5> HIDE DEF v
        <5>2. SubSeq(SubSeq(u, m, c), 1, v) = SubSeq(u, m + 1 - 1, m + v - 1)
          BY <3>3, <4>1, <5>1, PieceOfPiece
        <5> QED BY <5>2 DEF v
      <4>3. m + 1 - 1 = m /\ m + (b - k) - 1 = b
        BY <2>1, <2>9
      <4> QED BY <3>2, <4>2, <4>3 DEF Before, host, m, h
    <3>5. Behind(h, colon) = SubSeq(u, b + 2, c)
      <4>1. /\ b - k + 2 \in Nat \ {0} /\ c - k \in 0 .. c - m + 1 /\ b - k + 2 <= c - k + 1
            /\ colon + 1 = b - k + 2
        BY <2>1, <2>9, <2>20, <3>1
      <4>2. SubSeq(SubSeq(u, m, c), b - k + 2, c - k) = SubSeq(u, m + (b - k + 2) - 1, m + (c - k) - 1)
        <5> DEFINE v == b - k + 2
                   w == c - k
        <5>1. v \in Nat \ {0} /\ w \in 0 .. c - m + 1 /\ v <= w + 1
          BY <4>1
        <5> HIDE DEF v, w
        <5>2. SubSeq(SubSeq(u, m, c), v, w) = SubSeq(u, m + v - 1, m + w - 1)
          BY <3>3, <5>1, PieceOfPiece
        <5> QED BY <5>2 DEF v, w
      <4>3. m + (b - k + 2) - 1 = b + 2 /\ m + (c - k) - 1 = c
        BY <2>1, <2>9
      <4> QED BY <2>11, <4>1, <4>2, <4>3 DEF Behind, h
    <3>6. port # <<>> /\ Tail(port) = SubSeq(u, b + 2, c)
      <4>1. b + 1 \in 1 .. Len(u) /\ c \in b + 1 .. Len(u) /\ b + 1 + 1 = b + 2
        BY <2>1, <2>20
      <4>2. Len(port) # 0
        BY <2>1, <2>5, <2>20
      <4>3. Tail(SubSeq(u, b + 1, c)) = SubSeq(u, b + 1 + 1, c)
        BY <4>1, HeadTailOfSubSeq
      <4> QED BY <2>5, <4>1, <4>2, <4>3, EmptySeq DEF port
    <3>7. Atoi(SubSeq(u, b + 2, c)) = SubSeq(u, b + 2, c)
      <4> DEFINE t == SubSeq(u, b + 2, c)
                 l == b + 1
      <4>1. l \in Nat /\ l <= c /\ b + 2 \in Int /\ b + 2 = l + 1
        BY <2>1, <2>20
      <4>2. Len(t) = c - l /\ \A i \in 1 .. c - l : t[i] = u[l + i]
        <5> HIDE DEF l
        <5> QED BY <2>1, <4>1, PieceBehind
      <4>3. \A i \in 1 .. c - l : l + i \in b + 2 .. c
        BY <2>1, <4>1
      <4> HIDE DEF l, t
      <4>4. \A i \in 1 .. Len(t) : t[i] \in Digits
        BY <2>14, <2>20, <4>2, <4>3
      <4>5. Atoi(t) = t
        BY <4>4, AtoiOfDigits
      <4> QED BY <4>5 DEF t
    <3> QED BY <2>18, <3>2, <3>4, <3>5, <3>6, <3>7
  <2> QED BY <2>1, <2>19, <2>20
<1> QED BY <1>0

LEMMA UrlParts == ASSUME NEW u \in Seq(Letters) PROVE PartsAreTaken(u)
<1>1. Len(u) \in Nat
  BY LenProperties
<1>2. ASSUME NEW a \in 0 .. Len(u), NEW b \in 0 .. Len(u), NEW c \in 0 .. Len(u),
             a + 2 <= b, b <= c, u[a + 1] = "/", u[a + 2] = "/",
             IsUrl(SubSeq(u, 1, a), SubSeq(u, a + 3, b), SubSeq(u, b + 1, c), SubSeq(u, c + 1, Len(u)))
      PROVE  XUrl(u) = [ip |-> SubSeq(u, a + 3, b), path |-> SubSeq(u, c + 1, Len(u)),
                        port |-> IF SubSeq(u, b + 1, c) = <<>> THEN <<"80">>
                                 ELSE Tail(SubSeq(u, b + 1, c))]
  <2>1. u[a + 1] = Slash /\ u[a + 2] = Slash
    BY <1>2, Zenon DEF Slash
  <2> QED BY <1>1, <1>2, <2>1, UrlTaken
<1> QED BY <1>2, Zenon DEF PartsAreTaken

------------------------------------------------------------------------------
(* The invariant.                                                          *)

\* The addresses the program may have of its own.
Own == [user : Users \cup {<<>>}, server : Servers \cup {<<>>}, pref : {<<>>},
        id : Ids \cup {Guest, <<>>}, pass : Passes \cup {Guest, <<>>}]

Logins == [user : Seq(Letters), server : Seq(Letters), resource : Seq(Letters)]

\* What a client that the address's last change has reached logs in with.
LoginOf(j) == [user |-> j.user, server |-> j.server, resource |-> Resource(j)]

\* A play task, and the program it starts.
Play(o) == [jid |-> JID(o), own |-> o]
Command(o) == [address |-> JID([Parse(JID(o)) EXCEPT !.pref = Unit]), own |-> o]

ClientInv ==
  client # NoClient =>
    /\ client \in Logins
    /\ client.server = m_JID.server
    /\ due = 0 => client = LoginOf(m_JID)

IInv ==
  /\ TypeOK
  /\ m_JID \in Own
  /\ due > 0 => env = "ok"
  /\ ClientInv
  /\ m_TaskList \in Seq({Play(o) : o \in Own})
  /\ commands \subseteq {Command(o) : o \in Own}

LEMMA OwnIs ==
  ASSUME NEW j \in Own
  PROVE  /\ j \in Addresses /\ j.pref = <<>>
         /\ Find(j.user, At) = 0 /\ Find(j.server, Slash) = 0 /\ Find(j.pref, Low) = 0
         /\ LoginOf(j) \in Logins
<1>1. j \in Addresses
  BY StringsAssumption, Separators DEF Own, Addresses
<1>2. \A u \in Users \cup {<<>>} : Find(u, At) = 0
  BY ConfigAssumption, EmptyHasNone, Zenon DEF At
<1>3. \A v \in Servers \cup {<<>>} : Find(v, Slash) = 0
  BY ConfigAssumption, EmptyHasNone, Zenon DEF Slash
<1>4. Find(<<>>, Low) = 0
  BY EmptyHasNone
<1>5. j.user \in Users \cup {<<>>} /\ j.server \in Servers \cup {<<>>} /\ j.pref = <<>>
  BY DEF Own
<1>6. LoginOf(j) \in Logins
  BY <1>1, ResourceIs DEF LoginOf, Logins, Addresses
<1> QED BY <1>1, <1>2, <1>3, <1>4, <1>5, <1>6

LEMMA InitInv == Init => IInv
<1> SUFFICES ASSUME Init PROVE IInv
  OBVIOUS
<1>1. m_JID \in Own
  BY DEF Init, Blank, Own
<1>2. TypeOK
  BY BoundsAssumption DEF Init, Blank, TypeOK
<1>3. m_TaskList \in Seq({Play(o) : o \in Own})
  BY EmptySeq DEF Init
<1> QED BY <1>1, <1>2, <1>3 DEF Init, IInv, ClientInv

LEMMA EnvStartUpInv == ASSUME IInv, EnvStartUp PROVE IInv'
<1>1. UNCHANGED <<client, due, m_TaskList, commands, logins, requests>> /\ env = "start"
  BY DEF EnvStartUp
<1>2. client = NoClient /\ due = 0
  BY <1>1 DEF IInv, TypeOK
<1>3. m_JID' \in Own /\ env' \in {"ok", "fail"}
      /\ (env' = "ok" => m_JID'.user \in Users \ {<<>>} /\ m_JID'.server \in Servers \ {<<>>})
      /\ m_JID'.id = m_JID.id /\ m_JID'.pass = m_JID.pass /\ m_JID'.pref = <<>>
  BY DEF EnvStartUp, IInv, Own
<1>4. TypeOK'
  BY <1>1, <1>2, <1>3 DEF IInv, TypeOK, NoClient
<1> QED BY <1>1, <1>2, <1>3, <1>4 DEF IInv, ClientInv, NoClient

LEMMA LoginInv == ASSUME IInv, Login PROVE IInv'
<1>1. /\ env = "ok" /\ logins < MaxLogins /\ logins' = logins + 1 /\ due' = due + 1
      /\ UNCHANGED <<env, client, m_TaskList, commands, requests>>
  BY DEF Login
<1>2. due \in Nat /\ due <= logins /\ logins \in Nat /\ logins <= MaxLogins /\ MaxLogins \in Nat
  BY BoundsAssumption DEF IInv, TypeOK
<1>3. due' > 0 /\ due' \in 0 .. logins' /\ logins' \in 0 .. MaxLogins
  BY <1>1, <1>2
<1>4. /\ m_JID' \in Own /\ m_JID'.pref = <<>>
      /\ m_JID'.user = m_JID.user /\ m_JID'.server = m_JID.server
      /\ m_JID'.id \in Ids \cup {Guest, <<>>} /\ m_JID'.pass \in Passes \cup {Guest, <<>>}
  BY DEF Login, IInv, Own
<1>5. TypeOK'
  BY <1>1, <1>3, <1>4 DEF IInv, TypeOK, NoClient
<1>6. ClientInv'
  BY <1>1, <1>3, <1>4 DEF IInv, ClientInv, NoClient
<1> QED BY <1>1, <1>4, <1>5, <1>6 DEF IInv

LEMMA RunConnectInv == ASSUME IInv, RunConnect PROVE IInv'
<1>1. /\ due > 0 /\ due' = due - 1
      /\ UNCHANGED <<env, m_JID, m_TaskList, commands, logins, requests>>
  BY DEF RunConnect
<1>2. due \in Nat /\ due <= logins /\ logins \in Nat
  BY BoundsAssumption DEF IInv, TypeOK
<1>3. due' \in 0 .. logins'
  BY <1>1, <1>2
<1>4. env = "ok"
  BY <1>1 DEF IInv
<1>5. client' = LoginOf(m_JID) /\ LoginOf(m_JID) \in Logins
  <2>1. m_JID \in Own
    BY DEF IInv
  <2>2. CASE client = NoClient
    <3>1. GlooxJID(JID(m_JID)) = LoginOf(m_JID)
      BY <2>1, OwnIs, GlooxIs DEF LoginOf
    <3> QED BY <2>1, <2>2, <3>1, OwnIs DEF RunConnect
  <2>3. CASE client # NoClient
    <3>1. client \in Logins /\ client.server = m_JID.server
      BY <2>3 DEF IInv, ClientInv
    <3>2. client' = [client EXCEPT !.user = m_JID.user, !.resource = Resource(m_JID)]
      BY <2>3 DEF RunConnect
    <3> QED BY <2>1, <3>1, <3>2, OwnIs DEF Logins, LoginOf
  <2> QED BY <2>2, <2>3
<1>6. TypeOK'
  BY <1>1, <1>3, <1>4 DEF IInv, TypeOK, NoClient
<1>7. ClientInv'
  BY <1>1, <1>5 DEF ClientInv, LoginOf
<1> QED BY <1>1, <1>4, <1>6, <1>7 DEF IInv

LEMMA HandleDocPlayInv == ASSUME IInv, HandleDocPlay PROVE IInv'
<1>1. /\ requests < MaxRequests /\ requests' = requests + 1
      /\ m_TaskList' = Append(m_TaskList, Play(m_JID))
      /\ UNCHANGED <<env, m_JID, client, due, commands, logins>>
  BY DEF HandleDocPlay, Play
<1>2. requests \in Nat /\ requests + 1 \in 0 .. MaxRequests
  BY <1>1, BoundsAssumption DEF IInv, TypeOK
<1> DEFINE P == {Play(o) : o \in Own}
<1>3. Play(m_JID) \in P /\ m_TaskList \in Seq(P)
  BY DEF IInv
<1> HIDE DEF P
<1>4. m_TaskList' \in Seq(P) /\ Len(m_TaskList') = Len(m_TaskList) + 1 /\ Len(m_TaskList) \in Nat
  BY <1>1, <1>3, AppendProperties, LenProperties
<1>5. Len(m_TaskList') <= requests'
  BY <1>1, <1>2, <1>4 DEF IInv, TypeOK
<1>6. TypeOK'
  BY <1>1, <1>2, <1>5 DEF IInv, TypeOK, NoClient
<1>7. ClientInv'
  BY <1>1 DEF IInv, ClientInv, NoClient
<1> QED BY <1>1, <1>4, <1>6, <1>7 DEF IInv, P

LEMMA WorkInv == ASSUME IInv, Work PROVE IInv'
<1>1. /\ m_TaskList # <<>> /\ m_TaskList' = Tail(m_TaskList)
      /\ UNCHANGED <<env, m_JID, client, due, logins, requests>>
  BY DEF Work
<1> DEFINE P == {Play(o) : o \in Own}
<1>2. m_TaskList \in Seq(P)
  BY DEF IInv
<1>3. PICK o \in Own : Head(m_TaskList) = Play(o)
  <2>1. Head(m_TaskList) \in P
    <3> HIDE DEF P
    <3> QED BY <1>1, <1>2, HeadTailProperties
  <2> QED BY <2>1
<1> HIDE DEF P
<1>4. m_TaskList' \in Seq(P) /\ Len(m_TaskList') = Len(m_TaskList) - 1 /\ Len(m_TaskList) \in Nat
  BY <1>1, <1>2, HeadTailProperties, LenProperties
<1>5. commands' \subseteq commands \cup {Command(o)}
  <2>1. Head(m_TaskList).jid = JID(o) /\ Head(m_TaskList).own = o
    BY <1>3 DEF Play
  <2> QED BY <2>1 DEF Work, Command
<1>6. commands' \subseteq {Command(q) : q \in Own}
  BY <1>5 DEF IInv
<1>7. TypeOK'
  <2>1. requests \in Nat /\ Len(m_TaskList) <= requests
    BY BoundsAssumption DEF IInv, TypeOK
  <2>2. Len(m_TaskList') <= requests
    BY <1>4, <2>1
  <2> QED BY <1>1, <2>2 DEF IInv, TypeOK, NoClient
<1>8. ClientInv'
  BY <1>1 DEF IInv, ClientInv, NoClient
<1> QED BY <1>1, <1>4, <1>6, <1>7, <1>8 DEF IInv, P

LEMMA NextInv == IInv /\ [Next]_vars => IInv'
<1> SUFFICES ASSUME IInv, [Next]_vars PROVE IInv'
  OBVIOUS
<1>1. CASE UNCHANGED vars
  BY <1>1 DEF vars, IInv, TypeOK, ClientInv, NoClient
<1> QED
  BY <1>1, EnvStartUpInv, LoginInv, RunConnectInv, HandleDocPlayInv, WorkInv DEF Next

LEMMA Inductive == Spec => []IInv
BY InitInv, NextInv, PTL DEF Spec

------------------------------------------------------------------------------
(* The theorems.                                                           *)

\* Every variable keeps its type: after a start that succeeded neither user nor server
\* is empty, and no login runs before.
THEOREM TypeCorrect == Spec => []TypeOK
<1>1. IInv => TypeOK
  BY DEF IInv
<1> QED BY <1>1, Inductive, PTL

\* A program that a request starts is told to log in as this one had it, under "Unit",
\* for every ID and password that can be typed, but for a lone "_" at an ID's end.
THEOREM UnitLogin == Spec => []UnitKeepsLogin
<1>1. IInv => UnitKeepsLogin
  <2> SUFFICES ASSUME IInv, NEW c \in commands, ~Fragile(c.own)
               PROVE  c.address = JID([c.own EXCEPT !.pref = Unit])
    BY DEF UnitKeepsLogin
  <2>1. PICK o \in Own : c = Command(o)
    BY DEF IInv
  <2>2. c.own = o /\ c.address = JID([Parse(JID(o)) EXCEPT !.pref = Unit])
    BY <2>1 DEF Command
  <2>3. JID([Parse(JID(o)) EXCEPT !.pref = Unit]) = JID([o EXCEPT !.pref = Unit])
    BY <2>2, OwnIs, Separators, ParseKeeps
  <2> QED BY <2>2, <2>3
<1> QED BY <1>1, Inductive, PTL

\* Whichever way the client gets it, by gloox's parser or part by part, the server is told
\* the address's own user and resource, and can tell ID and password apart if the ID has
\* no "_".
THEOREM OwnLogin == Spec => []LoginIsOwn
<1>1. IInv => LoginIsOwn
  <2> SUFFICES ASSUME IInv, client # NoClient, due = 0
               PROVE  LoginIsOwn
    BY DEF LoginIsOwn
  <2>1. client = LoginOf(m_JID) /\ m_JID \in Own
    BY DEF IInv, ClientInv
  <2>2. client.resource = Resource(m_JID)
    BY <2>1 DEF LoginOf
  <2>3. ASSUME Find(m_JID.id, Low) = 0
        PROVE  Split(client.resource).id = m_JID.id /\ Split(client.resource).pass = m_JID.pass
    BY <2>1, <2>2, <2>3, OwnIs, SplitResource
  <2> QED BY <2>1, <2>3, Zenon DEF LoginIsOwn, LoginOf, Low
<1> QED BY <1>1, Inductive, PTL

\* Of every string a URL is grown to, XUrl takes the host, the port and the path that the
\* reference definition finds in it, and it throws for none that is a URL.
THEOREM PartsFound == MCSpec => []PartsAreFound
<1> DEFINE UrlInv == url \in Seq(Letters)
<1>1. MCInit => UrlInv
  BY EmptySeq DEF MCInit
<1>2. UrlInv /\ [MCNext]_<<vars, url>> => UrlInv'
  <2> SUFFICES ASSUME UrlInv, [MCNext]_<<vars, url>> PROVE UrlInv'
    OBVIOUS
  <2>1. CASE Grow
    <3>1. PICK c \in UrlLetters : url' = Append(url, c)
      BY <2>1 DEF Grow
    <3> QED BY <3>1, UrlLettersAssumption, AppendProperties
  <2>2. CASE url' = url
    BY <2>2
  <2> QED BY <2>1, <2>2 DEF MCNext
<1>3. UrlInv => PartsAreFound
  BY UrlParts DEF PartsAreFound
<1> QED BY <1>1, <1>2, <1>3, PTL DEF MCSpec
==============================================================================
