----------------------------- MODULE MessageProofs -----------------------------
(***************************************************************************)
(* What the two readers of text and bytes compute, for inputs of any       *)
(* length: the walk over a list of origins (Cors), and the header of a     *)
(* WebSocket frame (WsFrame).  ServerProofs states the theorems.           *)
(***************************************************************************)
EXTENDS Cors, WsFrame, DataInduction, TLAPS

------------------------------------------------------------------------------
(* Cross-origin requests *)

(* The places is_origin_allowed finds in a list of n characters: where the *)
(* entry begins behind the blanks, the comma that ends it, and its last    *)
(* character that is not blank.                                            *)
EntryStart(list, n, p) ==
    CHOOSE i \in p..(n + 1) : /\ i = n + 1 \/ ~Blank(list[i])
                              /\ \A k \in p..(i - 1) : Blank(list[k])
EntryEnd(list, n, start) ==
    CHOOSE i \in start..(n + 1) : /\ i = n + 1 \/ Comma(list[i])
                                  /\ \A k \in start..(i - 1) : ~Comma(list[k])
EntryLast(list, start, end) ==
    CHOOSE i \in (start - 1)..(end - 1) : /\ i = start - 1 \/ ~Blank(list[i])
                                          /\ \A k \in (i + 1)..(end - 1) : Blank(list[k])

(* The text from p to the next comma is, but for blanks around it, entry. *)
Trims(list, n, entry, p) ==
    \E j \in p..(n + 1) :
       /\ j = n + 1 \/ Comma(list[j])
       /\ \A k \in p..(j - 1) : ~Comma(list[k])
       /\ \E a \in p..j, b \in (p - 1)..(j - 1) :
             /\ SubSeq(list, a, b) = entry
             /\ \A k \in (p..(a - 1)) \cup ((b + 1)..(j - 1)) : Blank(list[k])

(* A blank is no comma. *)
LEMMA BlankIsNoComma == ASSUME NEW c, Blank(c) PROVE ~Comma(c)
BY Zenon DEF Blank, Comma

(* The first place from p on that is the end or is in a set. *)
IsFirst(n, p, Q, i) == i \in p .. (n + 1) /\ (i = n + 1 \/ i \in Q) /\ \A k \in p .. (i - 1) : k \notin Q

(* The last place up to e that is before s or is in a set. *)
IsLast(s, e, Q, i) == i \in (s - 1) .. (e - 1) /\ (i = s - 1 \/ i \in Q) /\ \A k \in (i + 1) .. (e - 1) : k \notin Q

(* A list ends, so there is a first place. *)
LEMMA FirstPlace ==
    ASSUME NEW n \in Nat, NEW p \in 1 .. (n + 1), NEW Q
    PROVE  \E i : IsFirst(n, p, Q, i)
<1> DEFINE T == {i \in p .. (n + 1) : i = n + 1 \/ i \in Q}
<1>1. T \in SUBSET Nat /\ n + 1 \in T
  OBVIOUS
<1>2. PICK m \in T : \A k \in T : m <= k
  BY <1>1, LeastElement
<1>3. m \in p .. (n + 1) /\ (m = n + 1 \/ m \in Q)
  BY <1>2
<1>4. ASSUME NEW k \in p .. (m - 1), k \in Q PROVE FALSE
  <2>1. k \in T
    BY <1>3, <1>4
  <2> QED
    BY <1>2, <1>3, <1>4, <2>1
<1> QED
  BY <1>3, <1>4 DEF IsFirst

(* And a last one. *)
LEMMA LastPlace ==
    ASSUME NEW s \in Nat \ {0}, NEW e \in Nat, s <= e, NEW Q
    PROVE  \E i : IsLast(s, e, Q, i)
<1> DEFINE T == {i \in (s - 1) .. (e - 1) : i = s - 1 \/ i \in Q}
<1>1. T \in SUBSET (0 .. e) /\ s - 1 \in T
  OBVIOUS
<1>2. PICK m \in T : \A k \in T : k <= m
  BY <1>1, GreatestElement
<1>3. m \in (s - 1) .. (e - 1) /\ (m = s - 1 \/ m \in Q)
  BY <1>2
<1>4. ASSUME NEW k \in (m + 1) .. (e - 1), k \in Q PROVE FALSE
  <2>1. k \in T
    BY <1>3, <1>4
  <2> QED
    BY <1>2, <1>3, <1>4, <2>1
<1> QED
  BY <1>3, <1>4 DEF IsLast

(* The entry begins at its first character that is no blank. *)
LEMMA StartIs ==
    ASSUME NEW list, NEW n \in Nat, NEW p \in 1 .. (n + 1)
    PROVE  LET i == EntryStart(list, n, p)
           IN  /\ i \in p .. (n + 1)
               /\ i = n + 1 \/ ~Blank(list[i])
               /\ \A k \in p .. (i - 1) : Blank(list[k])
<1> DEFINE Q == {i \in p .. (n + 1) : ~Blank(list[i])}
<1>0. \A k \in p .. (n + 1) : k \in Q <=> ~Blank(list[k])
  OBVIOUS
<1> HIDE DEF Q
<1>1. PICK i : IsFirst(n, p, Q, i)
  BY FirstPlace
<1>2. \E m \in p .. (n + 1) : /\ m = n + 1 \/ ~Blank(list[m])
                              /\ \A k \in p..(m - 1) : Blank(list[k])
  <2>1. i \in p .. (n + 1) /\ (i = n + 1 \/ ~Blank(list[i]))
    BY <1>0, <1>1 DEF IsFirst
  <2>2. ASSUME NEW k \in p .. (i - 1) PROVE Blank(list[k])
    BY <1>0, <1>1, <2>1 DEF IsFirst
  <2> QED
    BY <2>1, <2>2
<1> QED
  BY <1>2 DEF EntryStart

(* It ends before the first comma or with the list. *)
LEMMA EndIs ==
    ASSUME NEW list, NEW n \in Nat, NEW p \in 1 .. (n + 1)
    PROVE  LET i == EntryEnd(list, n, p)
           IN  /\ i \in p .. (n + 1)
               /\ i = n + 1 \/ Comma(list[i])
               /\ \A k \in p .. (i - 1) : ~Comma(list[k])
<1> DEFINE Q == {i \in p .. (n + 1) : Comma(list[i])}
<1>0. \A k \in p .. (n + 1) : k \in Q <=> Comma(list[k])
  OBVIOUS
<1> HIDE DEF Q
<1>1. PICK i : IsFirst(n, p, Q, i)
  BY FirstPlace
<1>2. \E m \in p .. (n + 1) : /\ m = n + 1 \/ Comma(list[m])
                              /\ \A k \in p..(m - 1) : ~Comma(list[k])
  <2>1. i \in p .. (n + 1) /\ (i = n + 1 \/ Comma(list[i]))
    BY <1>0, <1>1 DEF IsFirst
  <2>2. ASSUME NEW k \in p .. (i - 1) PROVE ~Comma(list[k])
    <3>1. k \notin Q
      BY <1>1, <2>2 DEF IsFirst
    <3>2. k \in p .. (n + 1)
      BY <2>1, <2>2
    <3> QED
      BY <1>0, <3>1, <3>2
  <2> QED
    BY <2>1, <2>2
<1> QED
  BY <1>2 DEF EntryEnd

(* Its last character is the last one that is no blank. *)
LEMMA LastIs ==
    ASSUME NEW list, NEW s \in Nat \ {0}, NEW e \in Nat, s <= e
    PROVE  LET i == EntryLast(list, s, e)
           IN  /\ i \in (s - 1) .. (e - 1)
               /\ i = s - 1 \/ ~Blank(list[i])
               /\ \A k \in (i + 1) .. (e - 1) : Blank(list[k])
<1> DEFINE Q == {i \in (s - 1) .. (e - 1) : ~Blank(list[i])}
<1>0. \A k \in (s - 1) .. (e - 1) : k \in Q <=> ~Blank(list[k])
  OBVIOUS
<1> HIDE DEF Q
<1>1. PICK i : IsLast(s, e, Q, i)
  BY LastPlace
<1>2. \E m \in (s - 1) .. (e - 1) : /\ m = s - 1 \/ ~Blank(list[m])
                                    /\ \A k \in (m + 1)..(e - 1) : Blank(list[k])
  <2>1. i \in (s - 1) .. (e - 1) /\ (i = s - 1 \/ ~Blank(list[i]))
    BY <1>0, <1>1 DEF IsLast
  <2>2. ASSUME NEW k \in (i + 1) .. (e - 1) PROVE Blank(list[k])
    BY <1>0, <1>1, <2>1 DEF IsLast
  <2> QED
    BY <2>1, <2>2
<1> QED
  BY <1>2 DEF EntryLast

(* The pieces the walk cuts from p on. *)
Cut(list, n, p, start, end, last) ==
    /\ start \in p .. (n + 1) /\ end \in start .. (n + 1) /\ last \in (start - 1) .. (end - 1)
    /\ start = n + 1 \/ ~Blank(list[start])
    /\ \A k \in p .. (start - 1) : Blank(list[k])
    /\ end = n + 1 \/ Comma(list[end])
    /\ \A k \in start .. (end - 1) : ~Comma(list[k])
    /\ last = start - 1 \/ ~Blank(list[last])
    /\ \A k \in (last + 1) .. (end - 1) : Blank(list[k])

(* The walk finds such pieces at every place of the list. *)
LEMMA CutIs ==
    ASSUME NEW list, NEW n \in Nat, NEW p \in 1 .. (n + 1)
    PROVE  LET start == EntryStart(list, n, p)
               end == EntryEnd(list, n, start)
           IN  Cut(list, n, p, start, end, EntryLast(list, start, end))
<1> DEFINE start == EntryStart(list, n, p)
           end == EntryEnd(list, n, start)
           last == EntryLast(list, start, end)
<1>1. /\ start \in p .. (n + 1)
      /\ start = n + 1 \/ ~Blank(list[start])
      /\ \A k \in p .. (start - 1) : Blank(list[k])
  BY StartIs
<1> HIDE DEF start
<1>2. start \in 1 .. (n + 1)
  BY <1>1
<1>3. /\ end \in start .. (n + 1)
      /\ end = n + 1 \/ Comma(list[end])
      /\ \A k \in start .. (end - 1) : ~Comma(list[k])
  BY <1>2, EndIs
<1> HIDE DEF end
<1>4. start \in Nat \ {0} /\ end \in Nat /\ start <= end
  BY <1>2, <1>3
<1>5. /\ last \in (start - 1) .. (end - 1)
      /\ last = start - 1 \/ ~Blank(list[last])
      /\ \A k \in (last + 1) .. (end - 1) : Blank(list[k])
  BY <1>4, LastIs
<1> HIDE DEF last
<1>6. Cut(list, n, p, start, end, last)
  BY <1>1, <1>3, <1>5 DEF Cut
<1> QED
  BY <1>6 DEF start, end, last

(* An empty part ends before it begins. *)
LEMMA EmptyPlaces ==
    ASSUME NEW S, NEW list \in Seq(S), NEW a \in Nat \ {0}, NEW b \in Int,
           b <= Len(list), SubSeq(list, a, b) = <<>>
    PROVE  ~(a <= b)
<1> SUFFICES ASSUME a <= b PROVE FALSE
  OBVIOUS
<1>1. Len(SubSeq(list, a, b)) = b - a + 1
  OBVIOUS
<1> QED
  BY <1>1

(* A non-empty part of a list of letters lies inside it, and its ends are  *)
(* letters.                                                                *)
LEMMA EntryPlaces ==
    ASSUME NEW S, NEW L, L \subseteq S, NEW list \in Seq(S), NEW a \in Nat \ {0}, NEW b \in Int,
           b <= Len(list), SubSeq(list, a, b) \in Seq(L), SubSeq(list, a, b) # <<>>
    PROVE  a <= b /\ \A k \in a .. b : list[k] \in L
<1>1. a <= b
  OBVIOUS
<1>2. ASSUME NEW k \in a .. b PROVE list[k] \in L
  <2>1. Len(SubSeq(list, a, b)) = b - a + 1 /\ SubSeq(list, a, b)[k - a + 1] = list[k]
    BY <1>1, <1>2
  <2>2. k - a + 1 \in 1 .. Len(SubSeq(list, a, b))
    BY <1>1, <1>2, <2>1
  <2> QED
    BY <2>1, <2>2
<1> QED
  BY <1>1, <1>2

(* Where only blanks stand before the next comma, the walk compares an     *)
(* empty text.                                                             *)
LEMMA EmptyCut ==
    ASSUME NEW list, NEW n \in Nat, NEW p \in 1 .. n, NEW start, NEW end, NEW last,
           Cut(list, n, p, start, end, last), NEW j \in p .. (n + 1), j = n + 1 \/ Comma(list[j]),
           \A k \in p .. (j - 1) : Blank(list[k])
    PROVE  start = j /\ last = start - 1
<1>0. start \in Int /\ end \in Int /\ last \in Int /\ j \in Int /\ p \in Int /\ p <= start /\ start <= n + 1
  BY DEF Cut
<1>1. ~(start < j)
  <2> SUFFICES ASSUME start < j PROVE FALSE
    OBVIOUS
  <2>1. start \in p .. (j - 1) /\ start # n + 1
    BY <1>0
  <2> QED
    BY <2>1 DEF Cut
<1>2. ~(start > j)
  <2> SUFFICES ASSUME start > j PROVE FALSE
    OBVIOUS
  <2>1. j \in p .. (start - 1) /\ j # n + 1
    BY <1>0
  <2> QED
    BY <2>1, BlankIsNoComma DEF Cut
<1>3. start = j
  BY <1>0, <1>1, <1>2
<1>4. ~(end > j)
  <2> SUFFICES ASSUME end > j PROVE FALSE
    OBVIOUS
  <2>1. j \in start .. (end - 1) /\ j # n + 1
    BY <1>0, <1>3 DEF Cut
  <2> QED
    BY <2>1 DEF Cut
<1> QED
  BY <1>0, <1>3, <1>4 DEF Cut

(* The text the walk compares is the entry, blanks trimmed. *)
LEMMA CutTrims ==
    ASSUME NEW S, NEW L, L \subseteq S, \A c \in L : ~Comma(c) /\ ~Blank(c),
           NEW list \in Seq(S), NEW p \in 1 .. Len(list), NEW o \in Seq(L),
           NEW start, NEW end, NEW last, Cut(list, Len(list), p, start, end, last)
    PROVE  SubSeq(list, start, last) = o <=> Trims(list, Len(list), o, p)
<1> DEFINE n == Len(list)
<1>n. n \in Nat /\ p \in Nat \ {0} /\ p <= n
  OBVIOUS
<1> HIDE DEF n
<1>0. Cut(list, n, p, start, end, last)
  BY DEF n
<1>1. ASSUME SubSeq(list, start, last) = o PROVE Trims(list, n, o, p)
  <2>1. end \in p .. (n + 1) /\ start \in p .. end /\ last \in (p - 1) .. (end - 1)
    BY <1>0, <1>n DEF Cut
  <2>2. ASSUME NEW k \in p .. (end - 1) PROVE ~Comma(list[k])
    <3>1. k \in p .. (start - 1) \/ k \in start .. (end - 1)
      BY <1>n, <2>1, <2>2
    <3> QED
      BY <1>0, <3>1, BlankIsNoComma DEF Cut
  <2>3. \A k \in (p..(start - 1)) \cup ((last + 1)..(end - 1)) : Blank(list[k])
    BY <1>0 DEF Cut
  <2> QED
    BY <1>0, <1>1, <2>1, <2>2, <2>3 DEF Trims, Cut
<1>2. ASSUME Trims(list, n, o, p) PROVE SubSeq(list, start, last) = o
  <2>1. PICK j \in p..(n + 1) :
          /\ j = n + 1 \/ Comma(list[j])
          /\ \A k \in p..(j - 1) : ~Comma(list[k])
          /\ \E a \in p..j, b \in (p - 1)..(j - 1) :
                /\ SubSeq(list, a, b) = o
                /\ \A k \in (p..(a - 1)) \cup ((b + 1)..(j - 1)) : Blank(list[k])
    BY <1>2 DEF Trims
  <2>2. PICK a \in p..j, b \in (p - 1)..(j - 1) :
          /\ SubSeq(list, a, b) = o
          /\ \A k \in (p..(a - 1)) \cup ((b + 1)..(j - 1)) : Blank(list[k])
    BY <2>1
  <2>3. a \in Nat \ {0} /\ b \in Int /\ b <= Len(list)
    BY <1>n DEF n
  <2>e. CASE o = <<>>
    <3>1. ~(a <= b)
      BY <2>2, <2>3, <2>e, EmptyPlaces
    <3>2. ASSUME NEW k \in p .. (j - 1) PROVE Blank(list[k])
      <4>1. k \in (p..(a - 1)) \cup ((b + 1)..(j - 1))
        BY <1>n, <2>3, <3>1, <3>2
      <4> QED
        BY <2>2, <4>1
    <3>3. p \in 1 .. n
      BY <1>n
    <3>4. start = j /\ last = start - 1
      BY <1>0, <1>n, <2>1, <3>2, <3>3, EmptyCut
    <3>5. SubSeq(list, j, j - 1) = <<>>
      BY <1>n DEF n
    <3> QED
      BY <2>e, <3>4, <3>5
  <2> SUFFICES ASSUME o # <<>> PROVE SubSeq(list, start, last) = o
    BY <2>e
  <2>4. a <= b /\ \A k \in a .. b : list[k] \in L
    BY <2>2, <2>3, EntryPlaces
  <2>5. a \in a .. b /\ b \in a .. b
    BY <2>3, <2>4
  <2>6. ~Blank(list[a]) /\ ~Blank(list[b]) /\ ~Comma(list[a]) /\ ~Comma(list[b])
    BY <2>4, <2>5
  <2>7. start \in Int /\ end \in Int /\ last \in Int /\ j \in Int /\ b <= n /\ a <= n
    BY <1>0, <1>n, <2>3, <2>4 DEF Cut
  <2>8. start = a
    <3>1. CASE start < a
      <4>1. start \in p .. (a - 1) /\ start # n + 1
        BY <1>0, <1>n, <2>7, <3>1 DEF Cut
      <4> QED
        BY <1>0, <2>2, <4>1 DEF Cut
    <3>2. CASE start > a
      <4>1. a \in p .. (start - 1)
        BY <1>n, <2>7, <3>2
      <4> QED
        BY <1>0, <2>6, <4>1 DEF Cut
    <3> QED
      BY <2>3, <2>7, <3>1, <3>2
  <2>9. end = j
    <3>1. CASE end < j
      <4>1. end \in p .. (j - 1) /\ end # n + 1
        BY <1>0, <1>n, <2>7, <3>1 DEF Cut
      <4> QED
        BY <1>0, <2>1, <4>1 DEF Cut
    <3>2. CASE end > j
      <4>1. j \in start .. (end - 1) /\ j # n + 1
        BY <1>0, <1>n, <2>7, <2>8, <3>2 DEF Cut
      <4> QED
        BY <1>0, <2>1, <4>1 DEF Cut
    <3> QED
      BY <2>7, <3>1, <3>2
  <2>10. last = b
    <3>1. CASE last < b
      <4>1. b \in (last + 1) .. (end - 1)
        BY <2>3, <2>7, <2>9, <3>1
      <4> QED
        BY <1>0, <2>6, <4>1 DEF Cut
    <3>2. CASE last > b
      <4>1. last \in (b + 1) .. (j - 1) /\ last # start - 1
        BY <1>0, <2>3, <2>4, <2>7, <2>8, <2>9, <3>2 DEF Cut
      <4> QED
        BY <1>0, <2>2, <4>1 DEF Cut
    <3> QED
      BY <2>3, <2>7, <3>1, <3>2
  <2> QED
    BY <2>2, <2>8, <2>10
<1> QED
  BY <1>1, <1>2 DEF n

------------------------------------------------------------------------------
(* The walk's function. *)
Walked(o, list, w, p) ==
    IF p > Len(list) THEN FALSE
    ELSE LET start == EntryStart(list, Len(list), p)
             end == EntryEnd(list, Len(list), start)
             last == EntryLast(list, start, end)
         IN  SubSeq(list, start, last) = o \/ (end <= Len(list) /\ w[end + 1])

Walks(o, list, w) == w = [p \in 1..(Len(list) + 1) |-> Walked(o, list, w, p)]

(* is_origin_allowed takes the walk from the first character. *)
LEMMA AllowedIs ==
    ASSUME NEW o, NEW list
    PROVE  is_origin_allowed(o, list) <=> list = <<"*">> \/ (CHOOSE w : Walks(o, list, w))[1]
BY Zenon DEF is_origin_allowed, Walks, Walked, EntryStart, EntryEnd, EntryLast

(* What the walk finds from p on: an entry that begins at p or behind a comma. *)
Found(o, list) ==
    [p \in 1..(Len(list) + 1) |->
        \E q \in p..Len(list) : (q = p \/ Comma(list[q - 1])) /\ Trims(list, Len(list), o, q)]

(* An entry found from p on is the next one, or is found behind its comma. *)
LEMMA FoundStep ==
    ASSUME NEW S, NEW L, L \subseteq S, \A c \in L : ~Comma(c) /\ ~Blank(c),
           NEW list \in Seq(S), NEW p \in 1 .. (Len(list) + 1), NEW o \in Seq(L)
    PROVE  Found(o, list)[p] = Walked(o, list, Found(o, list), p)
<1> DEFINE n == Len(list)
           F == Found(o, list)
           start == EntryStart(list, n, p)
           end == EntryEnd(list, n, start)
           last == EntryLast(list, start, end)
<1>n. n \in Nat /\ p \in Nat \ {0} /\ p <= n + 1
  OBVIOUS
<1>f. \A m \in 1 .. (n + 1) :
          F[m] = \E q \in m..n : (q = m \/ Comma(list[q - 1])) /\ Trims(list, n, o, q)
  BY Zenon DEF Found
<1>c. Cut(list, n, p, start, end, last)
  BY CutIs
<1>t. p <= n => (SubSeq(list, start, last) = o <=> Trims(list, n, o, p))
  <2> SUFFICES ASSUME p <= n PROVE SubSeq(list, start, last) = o <=> Trims(list, n, o, p)
    OBVIOUS
  <2>1. p \in 1 .. Len(list)
    OBVIOUS
  <2> HIDE DEF start, end, last
  <2> QED
    BY <1>c, <2>1, CutTrims
<1>w. Walked(o, list, F, p) = IF p > n THEN FALSE
                              ELSE SubSeq(list, start, last) = o \/ (end <= n /\ F[end + 1])
  BY Zenon DEF Walked
<1> HIDE DEF n, F, start, end, last
<1>1. CASE p > n
  <2>1. p .. n = {}
    BY <1>n, <1>1
  <2> QED
    BY <1>f, <1>w, <1>1, <2>1 DEF n, F
<1>2. CASE p <= n
  <2>1. ASSUME SubSeq(list, start, last) = o \/ (end <= n /\ F[end + 1])
        PROVE  \E q \in p..n : (q = p \/ Comma(list[q - 1])) /\ Trims(list, n, o, q)
    <3>1. CASE SubSeq(list, start, last) = o
      <4>1. p \in p .. n
        BY <1>n, <1>2
      <4> QED
        BY <1>t, <1>2, <3>1, <4>1
    <3>2. CASE end <= n /\ F[end + 1]
      <4>1. end + 1 \in 1 .. (n + 1) /\ end \in Nat /\ end >= p /\ Comma(list[end])
        BY <1>n, <1>c, <3>2 DEF Cut
      <4>2. PICK q \in (end + 1)..n : (q = end + 1 \/ Comma(list[q - 1])) /\ Trims(list, n, o, q)
        BY <1>f, <3>2, <4>1
      <4>3. q \in p .. n /\ (q = end + 1 => q - 1 = end)
        BY <1>n, <4>1
      <4> QED
        BY <4>1, <4>2, <4>3
    <3> QED
      BY <2>1, <3>1, <3>2
  <2>2. ASSUME NEW q \in p..n, q = p \/ Comma(list[q - 1]), Trims(list, n, o, q)
        PROVE  SubSeq(list, start, last) = o \/ (end <= n /\ F[end + 1])
    <3>1. CASE q = p
      BY <1>t, <1>2, <2>2, <3>1
    <3>2. CASE q # p
      <4>1. q - 1 \in p .. n /\ q \in Int /\ Comma(list[q - 1])
        BY <1>n, <2>2, <3>2
      <4>2. start \in Int /\ end \in Int /\ p <= start /\ start <= end
        BY <1>n, <1>c DEF Cut
      <4>3. q - 1 >= end
        <5> SUFFICES ASSUME q - 1 < end PROVE FALSE
          BY <4>1, <4>2
        <5>1. q - 1 \in p .. (start - 1) \/ q - 1 \in start .. (end - 1)
          BY <1>n, <4>1, <4>2
        <5> QED
          BY <1>c, <4>1, <5>1, BlankIsNoComma DEF Cut
      <4>4. end <= n /\ q \in (end + 1) .. n /\ end + 1 \in 1 .. (n + 1)
        BY <1>n, <4>1, <4>2, <4>3
      <4>5. F[end + 1]
        BY <1>f, <2>2, <4>1, <4>4
      <4> QED
        BY <4>4, <4>5
    <3> QED
      BY <3>1, <3>2
  <2>3. F[p] = \E q \in p..n : (q = p \/ Comma(list[q - 1])) /\ Trims(list, n, o, q)
    BY <1>f DEF n
  <2>4. Walked(o, list, F, p) = (SubSeq(list, start, last) = o \/ (end <= n /\ F[end + 1]))
    <3>1. ~(p > n)
      BY <1>n, <1>2
    <3> QED
      BY <1>w, <3>1, Zenon
  <2>5. (SubSeq(list, start, last) = o \/ (end <= n /\ F[end + 1]))
        <=> \E q \in p..n : (q = p \/ Comma(list[q - 1])) /\ Trims(list, n, o, q)
    BY <2>1, <2>2
  <2> QED
    BY <2>3, <2>4, <2>5 DEF F
<1> QED
  BY <1>n, <1>1, <1>2

(* So what is found is what the walk computes. *)
LEMMA FoundWalks ==
    ASSUME NEW S, NEW L, L \subseteq S, \A c \in L : ~Comma(c) /\ ~Blank(c),
           NEW list \in Seq(S), NEW o \in Seq(L)
    PROVE  Walks(o, list, Found(o, list))
<1>1. \A p \in 1 .. (Len(list) + 1) : Found(o, list)[p] = Walked(o, list, Found(o, list), p)
  BY FoundStep
<1>2. Found(o, list) = [p \in 1 .. (Len(list) + 1) |-> Found(o, list)[p]]
  BY Zenon DEF Found
<1> QED
  BY <1>1, <1>2, Zenon DEF Walks

(* Only one function walks. *)
LEMMA WalkUnique ==
    ASSUME NEW S, NEW list \in Seq(S), NEW o, NEW v, NEW w, Walks(o, list, v), Walks(o, list, w)
    PROVE  v = w
<1> DEFINE n == Len(list)
           D == {p \in 1 .. (n + 1) : v[p] # w[p]}
<1>n. n \in Nat
  OBVIOUS
<1>1. /\ v = [p \in 1 .. (n + 1) |-> Walked(o, list, v, p)]
      /\ w = [p \in 1 .. (n + 1) |-> Walked(o, list, w, p)]
  BY Zenon DEF Walks
<1>2. D = {}
  <2> SUFFICES ASSUME D # {} PROVE FALSE
    OBVIOUS
  <2>1. D \in SUBSET (0 .. (n + 1)) /\ n + 1 \in Nat
    BY <1>n
  <2>2. \A p \in 1 .. (n + 1) : p \in D <=> v[p] # w[p]
    BY Zenon
  <2>d. D \subseteq 1 .. (n + 1)
    BY Zenon
  <2> HIDE DEF D
  <2>3. PICK m \in D : \A k \in D : k <= m
    BY <2>1, GreatestElement
  <2>4. m \in 1 .. (n + 1) /\ v[m] # w[m]
    BY <2>2, <2>3, <2>d
  <2> DEFINE start == EntryStart(list, n, m)
             end == EntryEnd(list, n, start)
             last == EntryLast(list, start, end)
  <2>5. Cut(list, n, m, start, end, last)
    BY <1>n, <2>4, CutIs
  <2>6. /\ v[m] = IF m > n THEN FALSE ELSE SubSeq(list, start, last) = o \/ (end <= n /\ v[end + 1])
        /\ w[m] = IF m > n THEN FALSE ELSE SubSeq(list, start, last) = o \/ (end <= n /\ w[end + 1])
    BY <1>1, <2>4, Zenon DEF Walked
  <2> HIDE DEF start, end, last, n
  <2>7. end <= n => end + 1 \in 1 .. (n + 1) /\ ~(end + 1 <= m)
    BY <1>n, <2>4, <2>5 DEF Cut
  <2>8. end <= n => v[end + 1] = w[end + 1]
    BY <2>2, <2>3, <2>7
  <2> QED
    BY <2>4, <2>6, <2>8, Zenon
<1>3. \A p \in 1 .. (n + 1) : v[p] = w[p]
  BY <1>2, Zenon
<1> HIDE DEF n, D
<1>4. v = [p \in 1 .. (n + 1) |-> v[p]] /\ w = [p \in 1 .. (n + 1) |-> w[p]]
  BY <1>1, Zenon
<1> QED
  BY <1>3, <1>4, Zenon

(* From the first character on, what is found is an entry of the list. *)
LEMMA FoundIsEntry ==
    ASSUME NEW S, NEW L, L \subseteq S, \A c \in L : ~Comma(c) /\ ~Blank(c),
           NEW list \in Seq(S), NEW o \in Seq(L)
    PROVE  Found(o, list)[1] <=> ListEntry(list, o)
<1> DEFINE n == Len(list)
<1>n. n \in Nat /\ 1 \in 1 .. (n + 1)
  OBVIOUS
<1>f. Found(o, list)[1] <=> \E q \in 1..n : (q = 1 \/ Comma(list[q - 1])) /\ Trims(list, n, o, q)
  BY <1>n, Zenon DEF Found
<1>1. ASSUME NEW q \in 1..n, q = 1 \/ Comma(list[q - 1]), Trims(list, n, o, q)
      PROVE  ListEntry(list, o)
  <2>1. PICK j \in q..(n + 1) :
          /\ j = n + 1 \/ Comma(list[j])
          /\ \E a \in q..j, b \in (q - 1)..(j - 1) :
                /\ SubSeq(list, a, b) = o
                /\ \A k \in (q..(a - 1)) \cup ((b + 1)..(j - 1)) : Blank(list[k])
    BY <1>1 DEF Trims
  <2>2. q - 1 \in 0 .. n /\ j \in 1 .. (n + 1) /\ q - 1 < j /\ q - 1 \in 0 .. (n - 1) /\ (q - 1) + 1 = q /\ (q = 1 => q - 1 = 0)
    BY <1>n
  <2> QED
    BY <1>1, <2>1, <2>2 DEF ListEntry
<1>2. ASSUME ListEntry(list, o)
      PROVE  \E q \in 1..n : (q = 1 \/ Comma(list[q - 1])) /\ Trims(list, n, o, q)
  <2>1. PICK i \in 0..(n - 1), j \in 1..(n + 1) :
          /\ i < j
          /\ i = 0 \/ Comma(list[i])
          /\ j = n + 1 \/ Comma(list[j])
          /\ \E a \in (i + 1)..j, b \in i..(j - 1) :
                /\ SubSeq(list, a, b) = o
                /\ \A k \in ((i + 1)..(a - 1)) \cup ((b + 1)..(j - 1)) : Blank(list[k])
    BY <1>2 DEF ListEntry
  <2>2. PICK a \in (i + 1)..j, b \in i..(j - 1) :
          /\ SubSeq(list, a, b) = o
          /\ \A k \in ((i + 1)..(a - 1)) \cup ((b + 1)..(j - 1)) : Blank(list[k])
    BY <2>1
  <2>3. a \in Nat \ {0} /\ b \in Int /\ b <= Len(list)
    BY <1>n
  <2>4. \A k \in a .. b : list[k] \in L
    <3>1. CASE o = <<>>
      BY <2>2, <2>3, <3>1, EmptyPlaces
    <3>2. CASE o # <<>>
      BY <2>2, <2>3, <3>2, EntryPlaces
    <3> QED
      BY <3>1, <3>2
  <2>5. ASSUME NEW k \in (i + 1) .. (j - 1) PROVE ~Comma(list[k])
    <3>1. k \in a .. b \/ k \in ((i + 1)..(a - 1)) \cup ((b + 1)..(j - 1))
      BY <2>3, <2>5
    <3> QED
      BY <2>2, <2>4, <3>1, BlankIsNoComma
  <2>6. /\ i + 1 \in 1 .. n /\ j \in (i + 1) .. (n + 1) /\ (i + 1) - 1 = i
        /\ (i = 0 => i + 1 = 1)
    BY <1>n, <2>1
  <2>7. Trims(list, n, o, i + 1)
    BY <2>1, <2>2, <2>5, <2>6 DEF Trims
  <2> QED
    BY <2>1, <2>6, <2>7
<1> QED
  BY <1>f, <1>1, <1>2

(* The pointer walk accepts exactly the entries. *)
LEMMA AllowedIsEntry ==
    ASSUME NEW list \in Seq(CorsLetter \cup {",", " "}) \cup {<<"*">>}, NEW o \in Seq(CorsLetter)
    PROVE  is_origin_allowed(o, list) <=> list = <<"*">> \/ ListEntry(list, o)
<1>1. CASE list = <<"*">>
  BY <1>1, AllowedIs, Zenon
<1>2. CASE list # <<"*">>
  <2> DEFINE S == CorsLetter \cup {",", " "}
  <2>1. list \in Seq(S)
    BY <1>2, Zenon
  <2>2. CorsLetter \subseteq S
    BY Zenon
  <2>3. \A c \in CorsLetter : ~Comma(c) /\ ~Blank(c)
    BY CorsAssumption, Zenon DEF Comma, Blank
  <2> HIDE DEF S
  <2>4. Walks(o, list, Found(o, list))
    BY <2>1, <2>2, <2>3, FoundWalks
  <2>5. \A w : Walks(o, list, w) => w = Found(o, list)
    BY <2>1, <2>4, WalkUnique
  <2>6. (CHOOSE w : Walks(o, list, w)) = Found(o, list)
    BY <2>4, <2>5, Zenon
  <2>7. Found(o, list)[1] <=> ListEntry(list, o)
    BY <2>1, <2>2, <2>3, FoundIsEntry
  <2> QED
    BY <1>2, <2>6, <2>7, AllowedIs, Zenon
<1> QED
  BY <1>1, <1>2

(* The requests a server is asked about. *)
Asked(request) ==
    /\ request.origin \in {NoOrigin} \cup Seq(CorsLetter)
    /\ request.allowed \in {NoList} \cup (Seq(CorsLetter \cup {",", " "}) \cup {<<"*">>})

CorsInv == Asked(cors_request) /\ OriginIsAnEntry

(* Requests arrive with an origin and a list of these forms. *)
LEMMA CorsStart == CorsInit => CorsInv
<1> SUFFICES ASSUME CorsInit PROVE CorsInv
  OBVIOUS
<1>1. /\ SeqUpTo(CorsLetter, CorsMaxOrigin) \subseteq Seq(CorsLetter)
      /\ SeqUpTo(CorsLetter \cup {",", " "}, CorsMax) \subseteq Seq(CorsLetter \cup {",", " "})
  BY CorsAssumption, SeqUpToSeq, Zenon
<1>2. Asked(cors_request)
  BY <1>1, Zenon DEF CorsInit, Asked
<1>3. cors_answer = "none"
  BY DEF CorsInit
<1> QED
  BY <1>2, <1>3, Zenon DEF CorsInv, OriginIsAnEntry

(* The answer is given once, and from the walk. *)
LEMMA CorsStep == CorsInv /\ [CorsNext]_corsvars => CorsInv'
<1> SUFFICES ASSUME CorsInv, [CorsNext]_corsvars PROVE CorsInv'
  OBVIOUS
<1>1. CASE UNCHANGED corsvars
  BY <1>1, Zenon DEF CorsInv, OriginIsAnEntry, corsvars
<1>2. CASE quicpro_internal_handle_cors
  <2> DEFINE o == cors_request.origin
             list == cors_request.allowed
  <2>1. cors_request' = cors_request
    BY <1>2 DEF quicpro_internal_handle_cors
  <2>2. ASSUME o # NoOrigin
        PROVE  cors_answer' \in {"preflight", "ok_with_headers"} <=> list # NoList /\ is_origin_allowed(o, list)
    BY <1>2, <2>2, Zenon DEF quicpro_internal_handle_cors
  <2>3. ASSUME o # NoOrigin, list # NoList
        PROVE  is_origin_allowed(o, list) <=> list = <<"*">> \/ ListEntry(list, o)
    <3>1. o \in Seq(CorsLetter) /\ list \in Seq(CorsLetter \cup {",", " "}) \cup {<<"*">>}
      BY <2>3, Zenon DEF CorsInv, Asked
    <3> HIDE DEF o, list
    <3> QED
      BY <3>1, AllowedIsEntry, Zenon
  <2> QED
    BY <2>1, <2>2, <2>3, Zenon DEF CorsInv, OriginIsAnEntry
<1> QED
  BY <1>1, <1>2 DEF CorsNext

------------------------------------------------------------------------------
(* WebSocket frames *)

Byte == 0..255

(* The shifts of a length, as the writing loop computes them. *)
Shifts(len, n, f) == f = [k \in 0..n |-> IF k = 0 THEN len ELSE f[k - 1] \div 256]
Shifted(len, n) == CHOOSE f : Shifts(len, n, f)

(* What the shifts are, place by place. *)
ShiftedRight(len, n, f) ==
    f \in [0..n -> Nat] /\ f[0] = len /\ \A k \in 1..n : f[k] = f[k - 1] \div 256

(* The loop has a value at every shift. *)
LEMMA ShiftedIs ==
    ASSUME NEW len \in Nat, NEW n \in Nat
    PROVE  ShiftedRight(len, n, Shifted(len, n))
<1> DEFINE G == [x \in Nat \X Nat |-> x[2] \div 256]
<1>1. G \in [Nat \X Nat -> Nat]
  <2>1. ASSUME NEW x \in Nat \X Nat PROVE x[2] \div 256 \in Nat
    OBVIOUS
  <2> QED
    BY <2>1
<1>2. \A i \in Nat, v \in Nat : G[<<i, v>>] = v \div 256
  OBVIOUS
<1> HIDE DEF G
<1>3. PICK g : Recurses(Nat, len, G, n, g)
  BY <1>1, RecursionExists
<1>4. ShiftedRight(len, n, g)
  <2>1. ASSUME NEW k \in 1..n PROVE g[k] = g[k - 1] \div 256
    <3>1. k \in Nat /\ k - 1 \in 0 .. n /\ g[k - 1] \in Nat
      BY <1>3, <2>1 DEF Recurses
    <3>2. g[k] = G[<<k, g[k - 1]>>]
      BY <1>3, <2>1 DEF Recurses
    <3> QED
      BY <1>2, <3>1, <3>2
  <2> QED
    BY <1>3, <2>1 DEF Recurses, ShiftedRight
<1>5. Shifts(len, n, g)
  <2>1. g = [k \in 0..n |-> g[k]]
    BY <1>4 DEF ShiftedRight
  <2>2. ASSUME NEW k \in 0..n PROVE g[k] = IF k = 0 THEN len ELSE g[k - 1] \div 256
    <3>1. k = 0 \/ k \in 1..n
      BY <2>2
    <3> QED
      BY <1>4, <3>1 DEF ShiftedRight
  <2> QED
    BY <2>1, <2>2, Zenon DEF Shifts
<1> DEFINE f == Shifted(len, n)
<1>6. Shifts(len, n, f)
  BY <1>5, Zenon DEF Shifted
<1> HIDE DEF f
<1>7. \A k \in 0..n : f[k] = IF k = 0 THEN len ELSE f[k - 1] \div 256
  BY <1>6, Zenon DEF Shifts
<1>8. f[0] = len /\ \A k \in 1..n : f[k] = f[k - 1] \div 256
  BY <1>7
<1> DEFINE P == {k \in 0..n : f[k] \in Nat}
<1>9. 0 \in P
  BY <1>8
<1>10. ASSUME NEW k \in 0 .. (n - 1), k \in P PROVE k + 1 \in P
  <2>1. k + 1 \in 1..n /\ k + 1 \in 0..n /\ (k + 1) - 1 = k
    BY <1>10
  <2>2. f[k + 1] = f[k] \div 256
    BY <1>8, <2>1
  <2> QED
    BY <1>10, <2>1, <2>2
<1> HIDE DEF P
<1>11. \A k \in 0..n : k \in P
  BY <1>9, <1>10, Induction
<1>12. f = [k \in 0..n |-> f[k]]
  BY <1>6, Zenon DEF Shifts
<1>13. f \in [0..n -> Nat]
  BY <1>11, <1>12 DEF P
<1> QED
  BY <1>8, <1>13 DEF ShiftedRight, f

(* The bytes written are the low bytes of the shifts. *)
LEMMA BigEndianIs ==
    ASSUME NEW len \in Nat, NEW n \in Nat
    PROVE  BigEndian(len, n) = [i \in 1..n |-> Shifted(len, n)[n - i] % 256]
BY Zenon DEF BigEndian, Shifted, Shifts

(* A remainder by 256 is a byte. *)
LEMMA ByteRange == ASSUME NEW x \in Nat PROVE x % 256 \in Byte
BY DEF Byte

(* A length field is bytes. *)
LEMMA BigEndianType ==
    ASSUME NEW len \in Nat, NEW n \in Nat
    PROVE  BigEndian(len, n) \in [1..n -> Byte]
<1> DEFINE f == Shifted(len, n)
           b == BigEndian(len, n)
<1>1. f \in [0..n -> Nat]
  BY ShiftedIs DEF ShiftedRight
<1>2. b = [i \in 1..n |-> f[n - i] % 256]
  BY BigEndianIs, ZenonT(60)
<1> HIDE DEF f, b
<1>3. ASSUME NEW i \in 1..n PROVE f[n - i] % 256 \in Byte
  <2>1. n - i \in 0..n
    BY <1>3
  <2>2. f[n - i] \in Nat
    BY <1>1, <2>1
  <2> QED
    BY <2>2, ByteRange
<1>4. b \in [1..n -> Byte]
  BY <1>2, <1>3
<1> QED
  BY <1>4 DEF b

(* The values the reading loop passes through. *)
Reads(bytes, g) == g = [i \in 0..Len(bytes) |-> IF i = 0 THEN 0 ELSE g[i - 1] * 256 + bytes[i]]

(* FromBigEndian takes the last value. *)
LEMMA ReadIs ==
    ASSUME NEW bytes
    PROVE  FromBigEndian(bytes) = (CHOOSE g : Reads(bytes, g))[Len(bytes)]
BY Zenon DEF FromBigEndian, Reads

(* Reading is the inverse of writing, when no bit was shifted out. *)
LEMMA BigEndianValue ==
    ASSUME NEW len \in Nat, NEW n \in Nat, Shifted(len, n)[n] = 0
    PROVE  FromBigEndian(BigEndian(len, n)) = len
<1> DEFINE b == BigEndian(len, n)
           f == Shifted(len, n)
           h == [i \in 0..n |-> f[n - i]]
<1>1. b = [i \in 1..n |-> f[n - i] % 256]
  BY BigEndianIs, ZenonT(60)
<1>s. ShiftedRight(len, n, f)
  BY ShiftedIs
<1>3. f[n] = 0
  OBVIOUS
<1> HIDE DEF b, f, h
<1>2. f \in [0..n -> Nat] /\ f[0] = len /\ \A k \in 1..n : f[k] = f[k - 1] \div 256
  BY <1>s DEF ShiftedRight
<1> USE DEF h
<1>4. Len(b) = n
  BY <1>1
<1>5. ASSUME NEW i \in 1..n PROVE f[n - (i - 1)] * 256 + b[i] = f[n - i]
  <2>1. n - (i - 1) \in 1..n /\ n - i \in 0..n /\ (n - (i - 1)) - 1 = n - i
    BY <1>5
  <2>2. f[n - (i - 1)] = f[n - i] \div 256 /\ f[n - i] \in Nat
    BY <1>2, <2>1
  <2>3. b[i] = f[n - i] % 256
    BY <1>1, <1>5
  <2> QED
    BY <2>2, <2>3
<1>6. Reads(b, h)
  <2>1. ASSUME NEW i \in 0..n PROVE h[i] = IF i = 0 THEN 0 ELSE h[i - 1] * 256 + b[i]
    <3>1. CASE i = 0
      <4>1. n - 0 = n
        OBVIOUS
      <4> QED
        BY <1>3, <3>1, <4>1
    <3>2. CASE i \in 1..n
      <4>1. h[i] = f[n - i] /\ h[i - 1] = f[n - (i - 1)] /\ i # 0
        BY <3>2
      <4> QED
        BY <1>5, <3>2, <4>1
    <3> QED
      BY <2>1, <3>1, <3>2
  <2>2. h = [i \in 0..n |-> h[i]]
    OBVIOUS
  <2> DEFINE r(i) == IF i = 0 THEN 0 ELSE h[i - 1] * 256 + b[i]
  <2>r. \A i \in 0..n : h[i] = r(i)
    BY <2>1
  <2> HIDE DEF h, r
  <2>s. [i \in 0..n |-> h[i]] = [i \in 0..n |-> r(i)]
    BY <2>r
  <2>3. [i \in 0..n |-> h[i]] = [i \in 0..n |-> IF i = 0 THEN 0 ELSE h[i - 1] * 256 + b[i]]
    BY <2>s DEF r
  <2> QED
    BY <1>4, <2>2, <2>3, Zenon DEF Reads
<1> DEFINE g == CHOOSE g : Reads(b, g)
<1>7. Reads(b, g)
  BY <1>6, Zenon
<1>8. FromBigEndian(b) = g[n]
  BY <1>4, ReadIs
<1> HIDE DEF g
<1>9. \A i \in 0..n : g[i] = IF i = 0 THEN 0 ELSE g[i - 1] * 256 + b[i]
  <2>1. \A i \in 0..Len(b) : g[i] = IF i = 0 THEN 0 ELSE g[i - 1] * 256 + b[i]
    BY <1>7, ZenonT(60) DEF Reads
  <2> QED
    BY <1>4, <2>1, Zenon
<1> DEFINE P == {i \in 0..n : g[i] = f[n - i]}
<1>10. 0 \in P
  <2>1. n - 0 = n /\ 0 \in 0..n
    OBVIOUS
  <2> QED
    BY <1>3, <1>9, <2>1
<1>11. ASSUME NEW k \in 0 .. (n - 1), k \in P PROVE k + 1 \in P
  <2>1. k + 1 \in 1..n /\ k + 1 \in 0..n /\ (k + 1) - 1 = k /\ k + 1 # 0
    BY <1>11
  <2>2. g[k + 1] = g[k] * 256 + b[k + 1]
    BY <1>9, <2>1
  <2>3. f[n - ((k + 1) - 1)] * 256 + b[k + 1] = f[n - (k + 1)]
    BY <1>5, <2>1
  <2>4. g[k] = f[n - k]
    BY <1>11
  <2> QED
    BY <2>1, <2>2, <2>3, <2>4
<1> HIDE DEF P
<1>12. n \in P
  BY <1>10, <1>11, Induction
<1>13. n - n = 0
  OBVIOUS
<1> QED
  BY <1>2, <1>8, <1>12, <1>13 DEF P, b

(* Two bytes hold what is below 65536. *)
LEMMA TwoBytes ==
    ASSUME NEW len \in Nat, len <= 65535
    PROVE  Shifted(len, 2)[2] = 0
<1> DEFINE f == Shifted(len, 2)
<1>1. f[0] = len /\ \A k \in 1..2 : f[k] = f[k - 1] \div 256
  BY ShiftedIs DEF ShiftedRight
<1> HIDE DEF f
<1>2. f[1] = len \div 256 /\ f[2] = f[1] \div 256
  BY <1>1
<1> QED
  BY <1>2 DEF f

(* Two shifts by a byte are one by two. *)
LEMMA TwoShifts ==
    ASSUME NEW len \in Nat
    PROVE  (len \div 256) \div 256 = len \div 65536
OBVIOUS

(* Eight bytes hold a size_t. *)
LEMMA EightBytes ==
    ASSUME NEW len, SizeT(len)
    PROVE  Shifted(len, 8)[8] = 0
<1> DEFINE f == Shifted(len, 8)
<1>0. len \in Nat
  BY DEF SizeT
<1>s. ShiftedRight(len, 8, f)
  BY <1>0, ShiftedIs
<1> HIDE DEF f
<1>1. f \in [0..8 -> Nat] /\ f[0] = len /\ \A k \in 1..8 : f[k] = f[k - 1] \div 256
  BY <1>s DEF ShiftedRight
<1>2. ASSUME NEW k \in 0..6 PROVE f[k + 2] = f[k] \div 65536
  <2>1. k + 1 \in 1..8 /\ k + 2 \in 1..8 /\ (k + 1) - 1 = k /\ (k + 2) - 1 = k + 1 /\ k \in 0..8
    BY <1>2
  <2>2. f[k + 1] = f[k] \div 256 /\ f[k + 2] = f[k + 1] \div 256 /\ f[k] \in Nat
    BY <1>1, <2>1
  <2> QED
    BY <2>2, TwoShifts
<1>3. f[2] = f[0] \div 65536 /\ f[4] = f[2] \div 65536 /\ f[6] = f[4] \div 65536 /\ f[8] = f[6] \div 65536
  BY <1>2
<1> QED
  BY <1>1, <1>3 DEF f, SizeT

(* Where the key begins after a length field f, and the length the field   *)
(* and the bytes behind it stand for.                                      *)
KeyPlace(f) == IF f = 126 THEN 4 ELSE IF f = 127 THEN 10 ELSE 2
FieldLength(h, f, pos) == IF f < 126 THEN f ELSE FromBigEndian(SubSeq(h, 3, pos))

(* A masked header with length field f. *)
HeaderWith(h, op, len, f, pos) ==
    /\ h \in Seq(Byte) /\ h[1] = 128 + op /\ h[2] = 128 + f
    /\ f \in 0..127 /\ pos = KeyPlace(f) /\ Len(h) = pos + 4 /\ FieldLength(h, f, pos) = len

HeaderOf(h, op, len) == \E f, pos : HeaderWith(h, op, len, f, pos)

(* Two bytes, a length field and the key. *)
Laid(x, y, field) == (<<x>> \o (<<y>> \o field)) \o <<1, 2, 3, 4>>
ShortLaid(x, y) == (<<x>> \o <<y>>) \o <<1, 2, 3, 4>>

LaysOut(h, n, x, y, field) ==
    /\ h \in Seq(Byte) /\ Len(h) = n + 6 /\ h[1] = x /\ h[2] = y
    /\ SubSeq(h, 3, n + 2) = field

(* A long header is laid out as it was put together. *)
LEMMA Layout ==
    ASSUME NEW n \in Nat, NEW field \in [1..n -> Byte], NEW x \in Byte, NEW y \in Byte
    PROVE  LaysOut(Laid(x, y, field), n, x, y, field)
<1> DEFINE h == Laid(x, y, field)
<1>1. field \in Seq(Byte) /\ Len(field) = n
  OBVIOUS
<1>2. <<x>> \in Seq(Byte) /\ <<y>> \in Seq(Byte) /\ <<1, 2, 3, 4>> \in Seq(Byte)
  BY DEF Byte
<1>3. h \in Seq(Byte) /\ Len(h) = n + 6 /\ h[1] = x /\ h[2] = y
  BY <1>1, <1>2 DEF Laid
<1>4. ASSUME NEW i \in 1..n PROVE h[i + 2] = field[i]
  BY <1>1, <1>2, <1>4 DEF Laid
<1> HIDE DEF h
<1>5. SubSeq(h, 3, n + 2) = field
  <2>1. SubSeq(h, 3, n + 2) = [i \in 1..n |-> h[i + 2]]
    BY <1>3
  <2> QED
    BY <1>4, <2>1
<1> QED
  BY <1>3, <1>5 DEF h, LaysOut

(* And so is one without a length field of its own. *)
LEMMA ShortLayout ==
    ASSUME NEW x \in Byte, NEW y \in Byte
    PROVE  LaysOut(ShortLaid(x, y), 0, x, y, <<>>)
BY DEF LaysOut, ShortLaid, Byte

(* From 126 on the length is what the field's bytes say. *)
LEMMA FieldIs ==
    ASSUME NEW h, NEW f, NEW pos, NEW bytes, ~(f < 126), SubSeq(h, 3, pos) = bytes
    PROVE  FieldLength(h, f, pos) = FromBigEndian(bytes)
BY Zenon DEF FieldLength

(* What create_ws_frame_header and the key behind it make is the header of *)
(* the frame's opcode and length, in each of the three ranges of lengths.  *)
LEMMA Created ==
    ASSUME NEW len, SizeT(len), NEW op \in {1, 2}
    PROVE  HeaderOf(create_ws_frame_header(op, len, TRUE) \o <<1, 2, 3, 4>>, op, len)
<1> DEFINE h == create_ws_frame_header(op, len, TRUE) \o <<1, 2, 3, 4>>
           x == 128 + op
           two == BigEndian(len, 2)
           eight == BigEndian(len, 8)
           n2 == 2
           n8 == 8
<1>n. len \in Nat
  BY DEF SizeT
<1>0. x \in Byte /\ 254 \in Byte /\ 255 \in Byte
  BY DEF Byte
<1>1. len <= 125 => h = ShortLaid(x, 128 + len)
  BY DEF create_ws_frame_header, ShortLaid
<1>2. ~(len <= 125) /\ len <= 65535 => h = Laid(x, 254, two)
  BY DEF create_ws_frame_header, Laid
<1>3. ~(len <= 125) /\ ~(len <= 65535) => h = Laid(x, 255, eight)
  BY DEF create_ws_frame_header, Laid
<1>4. n2 \in Nat /\ two \in [1..n2 -> Byte]
  BY <1>n, BigEndianType
<1>5. n8 \in Nat /\ eight \in [1..n8 -> Byte]
  BY <1>n, BigEndianType
<1>v. len <= 65535 => FromBigEndian(two) = len
  BY <1>n, TwoBytes, BigEndianValue
<1>w. FromBigEndian(eight) = len
  BY <1>n, EightBytes, BigEndianValue
<1> HIDE DEF h, two, eight, x, n2, n8
<1> SUFFICES HeaderOf(h, op, len)
  BY DEF h
<1>6. CASE len <= 125
  <2>1. 128 + len \in Byte
    BY <1>n, <1>6 DEF Byte
  <2>2. LaysOut(ShortLaid(x, 128 + len), 0, x, 128 + len, <<>>)
    BY <1>0, <2>1, ShortLayout, Zenon
  <2>3. LaysOut(h, 0, x, 128 + len, <<>>)
    BY <1>1, <1>6, <2>2
  <2>4. len \in 0..127 /\ KeyPlace(len) = 2 /\ FieldLength(h, len, 2) = len
    BY <1>n, <1>6 DEF KeyPlace, FieldLength
  <2>5. HeaderWith(h, op, len, len, 2)
    BY <2>3, <2>4 DEF HeaderWith, LaysOut, x
  <2> QED
    BY <2>5 DEF HeaderOf
<1>7. CASE ~(len <= 125) /\ len <= 65535
  <2>1. LaysOut(Laid(x, 254, two), n2, x, 254, two)
    BY <1>0, <1>4, Layout
  <2>2. LaysOut(h, n2, x, 254, two)
    BY <1>2, <1>7, <2>1
  <2>3. h \in Seq(Byte) /\ Len(h) = 8 /\ h[1] = 128 + op /\ h[2] = 128 + 126 /\ SubSeq(h, 3, 4) = two
    BY <2>2 DEF LaysOut, n2, x
  <2>4. KeyPlace(126) = 4 /\ 126 \in 0..127
    BY DEF KeyPlace
  <2>5. FieldLength(h, 126, 4) = len
    <3> DEFINE f == 126
               pos == 4
    <3>1. ~(f < 126) /\ SubSeq(h, 3, pos) = two
      BY <2>3
    <3> HIDE DEF f, pos
    <3>2. FieldLength(h, f, pos) = FromBigEndian(two)
      BY <3>1, FieldIs
    <3> QED
      BY <1>7, <1>v, <3>2 DEF f, pos
  <2>6. HeaderWith(h, op, len, 126, 4)
    BY <2>3, <2>4, <2>5 DEF HeaderWith
  <2> QED
    BY <2>6 DEF HeaderOf
<1>8. CASE ~(len <= 125) /\ ~(len <= 65535)
  <2>1. LaysOut(Laid(x, 255, eight), n8, x, 255, eight)
    BY <1>0, <1>5, Layout
  <2>2. LaysOut(h, n8, x, 255, eight)
    BY <1>3, <1>8, <2>1
  <2>3. h \in Seq(Byte) /\ Len(h) = 14 /\ h[1] = 128 + op /\ h[2] = 128 + 127 /\ SubSeq(h, 3, 10) = eight
    BY <2>2 DEF LaysOut, n8, x
  <2>4. KeyPlace(127) = 10 /\ 127 \in 0..127
    BY DEF KeyPlace
  <2>5. FieldLength(h, 127, 10) = len
    <3> DEFINE f == 127
               pos == 10
    <3>1. ~(f < 126) /\ SubSeq(h, 3, pos) = eight
      BY <2>3
    <3> HIDE DEF f, pos
    <3>2. FieldLength(h, f, pos) = FromBigEndian(eight)
      BY <3>1, FieldIs
    <3> QED
      BY <1>w, <3>2 DEF f, pos
  <2>6. HeaderWith(h, op, len, 127, 10)
    BY <2>3, <2>4, <2>5 DEF HeaderWith
  <2> QED
    BY <2>6 DEF HeaderOf
<1> QED
  BY <1>6, <1>7, <1>8

(* The low four bits of the first byte are the opcode. *)
LEMMA OpcodeBits == ASSUME NEW op \in {1, 2} PROVE (128 + op) % 16 = op
<1>1. 129 % 16 = 1 /\ 130 % 16 = 2
  OBVIOUS
<1>2. CASE op = 1
  BY <1>1, <1>2
<1>3. CASE op = 2
  BY <1>1, <1>3
<1> QED
  BY <1>2, <1>3

(* The bytes that have arrived are the first ones sent. *)
LEMMA FirstBytes ==
    ASSUME NEW S, NEW h \in Seq(S), NEW got \in 0..Len(h)
    PROVE  /\ SubSeq(h, 1, got) \in Seq(S) /\ Len(SubSeq(h, 1, got)) = got
           /\ got = Len(h) => SubSeq(h, 1, got) = h
           /\ \A i \in 1..got : SubSeq(h, 1, got)[i] = h[i]
OBVIOUS

(* The answer to the first got bytes of a header of n bytes. *)
Answer(op, len, n, got) ==
    IF got < n THEN {} ELSE {[opcode |-> op, length |-> len, header |-> n]}

(* parse_ws_frame_header on two bytes or more with the mask bit set. *)
LEMMA ParsedBytes ==
    ASSUME NEW b, NEW g \in Nat, NEW f \in 0..127, Len(b) = g, g >= 2, b[2] = 128 + f
    PROVE  parse_ws_frame_header(b) =
             IF g < KeyPlace(f) \/ g < KeyPlace(f) + 4 THEN {}
             ELSE {[opcode |-> b[1] % 16, length |-> FieldLength(b, f, KeyPlace(f)),
                    header |-> KeyPlace(f) + 4]}
<1>1. b[2] % 128 = f /\ b[2] >= 128
  OBVIOUS
<1>2. ~(Len(b) < 2)
  OBVIOUS
<1> QED
  BY <1>1, <1>2, ZenonT(60) DEF parse_ws_frame_header, KeyPlace, FieldLength

(* Reading the first bytes of a header that was written. *)
LEMMA Parsed ==
    ASSUME NEW h \in Seq(Byte), NEW op \in {1, 2}, NEW len, NEW got \in 0..Len(h),
           HeaderOf(h, op, len)
    PROVE  parse_ws_frame_header(SubSeq(h, 1, got)) = Answer(op, len, Len(h), got)
<1> DEFINE b == SubSeq(h, 1, got)
<1>1. PICK f, pos : HeaderWith(h, op, len, f, pos)
  BY DEF HeaderOf
<1>2. /\ h[1] = 128 + op /\ h[2] = 128 + f /\ f \in 0..127 /\ pos = KeyPlace(f)
      /\ Len(h) = pos + 4 /\ FieldLength(h, f, pos) = len
  BY <1>1 DEF HeaderWith
<1>3. pos \in {2, 4, 10}
  BY <1>2 DEF KeyPlace
<1>4. got \in Nat /\ Len(b) = got /\ (got = Len(h) => b = h)
  BY FirstBytes
<1>5. \A i \in 1..got : b[i] = h[i]
  BY FirstBytes
<1> HIDE DEF b
<1>6. CASE got < 2
  <2>1. Len(b) < 2 /\ got < Len(h)
    BY <1>2, <1>3, <1>4, <1>6
  <2> QED
    BY <2>1, Zenon DEF parse_ws_frame_header, Answer, b
<1>7. CASE got >= 2
  <2>1. b[1] = 128 + op /\ b[2] = 128 + f
    BY <1>2, <1>4, <1>5, <1>7
  <2>2. parse_ws_frame_header(b) =
             IF got < pos \/ got < pos + 4 THEN {}
             ELSE {[opcode |-> b[1] % 16, length |-> FieldLength(b, f, pos), header |-> pos + 4]}
    BY <1>2, <1>4, <1>7, <2>1, ParsedBytes, Zenon
  <2>3. CASE got < Len(h)
    BY <1>2, <2>2, <2>3, Zenon DEF Answer, b
  <2>4. CASE got = Len(h)
    <3>1. b = h /\ ~(got < pos \/ got < pos + 4) /\ ~(got < Len(h))
      BY <1>2, <1>3, <1>4, <2>4
    <3>2. b[1] % 16 = op
      BY <2>1, OpcodeBits
    <3>3. FieldLength(b, f, pos) = len
      BY <1>2, <3>1, Zenon
    <3> QED
      BY <1>2, <2>2, <3>1, <3>2, <3>3, Zenon DEF Answer, b
  <2> QED
    BY <1>2, <1>3, <1>4, <2>3, <2>4
<1> QED
  BY <1>4, <1>6, <1>7

------------------------------------------------------------------------------
(* The frame sent last is none, or one whose header stands for it. *)
FrameSent(frame) ==
    \E len \in WsLengths, op \in {1, 2}, h \in Seq(Byte) :
       HeaderOf(h, op, len)
       /\ frame = [header |-> h, payload |-> len, length |-> len, opcode |-> op]

WsInv ==
    /\ ws_state \in WsStates /\ ws_stream \in {"open", "finished"}
    /\ \/ ws_sent = NoFrame /\ ws_got = 0
       \/ FrameSent(ws_sent) /\ ws_got \in 0..Len(ws_sent.header)

(* Nothing has been sent. *)
LEMMA WsStart == WsInit => WsInv
BY DEF WsInit, WsInv

(* A frame goes out with its header; its bytes arrive one by one. *)
LEMMA WsStep == WsInv /\ [WsNext]_wsvars => WsInv'
<1> SUFFICES ASSUME WsInv, [WsNext]_wsvars PROVE WsInv'
  OBVIOUS
<1>1. CASE UNCHANGED wsvars
  BY <1>1 DEF WsInv, FrameSent, wsvars
<1>2. CASE ws_arrives
  <2>1. UNCHANGED <<ws_state, ws_stream, ws_sent>> /\ ws_got < Len(ws_sent.header) /\ ws_got' = ws_got + 1
    BY <1>2 DEF ws_arrives
  <2>2. CASE ws_sent = NoFrame /\ ws_got = 0
    <3>1. Len(ws_sent.header) = 0
      BY <2>2 DEF NoFrame
    <3> QED
      BY <2>1, <2>2, <3>1
  <2>3. CASE FrameSent(ws_sent) /\ ws_got \in 0..Len(ws_sent.header)
    <3>1. PICK h \in Seq(Byte) : ws_sent.header = h
      BY <2>3 DEF FrameSent
    <3>2. ws_got' \in 0..Len(ws_sent.header)
      BY <2>1, <2>3, <3>1
    <3>3. FrameSent(ws_sent)'
      BY <2>1, <2>3 DEF FrameSent
    <3> QED
      BY <2>1, <3>2, <3>3 DEF WsInv
  <2> QED
    BY <2>2, <2>3 DEF WsInv
<1>3. ASSUME NEW len \in WsLengths, NEW binary \in BOOLEAN, quicpro_ws_send(len, binary)
      PROVE  WsInv'
  <2> DEFINE op == IF binary THEN 2 ELSE 1
             h == create_ws_frame_header(op, len, TRUE) \o <<1, 2, 3, 4>>
  <2>1. /\ ws_sent' = [header |-> h, payload |-> len, length |-> len, opcode |-> op]
        /\ ws_stream' = "finished" /\ ws_got' = 0 /\ ws_state' = ws_state
    BY <1>3 DEF quicpro_ws_send
  <2>2. op \in {1, 2}
    BY <1>3
  <2>3. SizeT(len)
    BY WsAssumption
  <2> HIDE DEF op
  <2>4. HeaderOf(h, op, len)
    BY <2>2, <2>3, Created
  <2> HIDE DEF h
  <2>5. h \in Seq(Byte)
    BY <2>4 DEF HeaderOf, HeaderWith
  <2>6. FrameSent(ws_sent)'
    BY <2>1, <2>2, <2>4, <2>5 DEF FrameSent
  <2>7. ws_sent'.header = h
    BY <2>1
  <2>8. ws_got' \in 0..Len(ws_sent'.header)
    BY <2>1, <2>5, <2>7
  <2> QED
    BY <2>1, <2>6, <2>8 DEF WsInv
<1> QED
  BY <1>1, <1>2, <1>3 DEF WsNext

(* What has arrived of a header is read as the receiver must read it. *)
LEMMA WsRead == WsInv => HeaderRoundTrip
<1> SUFFICES ASSUME WsInv, ws_sent # NoFrame
             PROVE  parse_ws_frame_header(SubSeq(ws_sent.header, 1, ws_got)) =
                       Answer(ws_sent.opcode, ws_sent.length, Len(ws_sent.header), ws_got)
  BY DEF HeaderRoundTrip, Answer
<1>1. FrameSent(ws_sent) /\ ws_got \in 0..Len(ws_sent.header)
  BY DEF WsInv
<1>2. PICK len \in WsLengths, op \in {1, 2}, h \in Seq(Byte) :
        /\ HeaderOf(h, op, len)
        /\ ws_sent = [header |-> h, payload |-> len, length |-> len, opcode |-> op]
  BY <1>1 DEF FrameSent
<1>3. ws_sent.header = h /\ ws_sent.opcode = op /\ ws_sent.length = len
  BY <1>2
<1>4. ws_got \in 0..Len(h)
  BY <1>1, <1>3
<1>5. parse_ws_frame_header(SubSeq(h, 1, ws_got)) = Answer(op, len, Len(h), ws_got)
  BY <1>2, <1>4, Parsed
<1> QED
  BY <1>3, <1>5, Zenon

================================================================================
